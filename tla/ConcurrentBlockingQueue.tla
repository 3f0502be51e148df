----------------------- MODULE ConcurrentBlockingQueue -----------------------
(***************************************************************************)
(* origin::container::ConcurrentBlockingQueue<T>                           *)
(* (common/container/concurrent_blocking_queue.hpp): a BlockingQueue, one  *)
(* mutex, and the condition variables _popCv (there may be an item) and    *)
(* _pushCv (there may be space).  A call is                                *)
(*    Begin, Lock or TryLock, one body under the mutex, and then a Notify  *)
(* because every method notifies after it has unlocked; a body that finds  *)
(* its condition false waits, and comes back to Lock by a notify, a        *)
(* timeout or a spurious wake-up.                                          *)
(***************************************************************************)
EXTENDS RingBuffer, Integers, FiniteSets

CONSTANTS
    Thread,   \* the threads that share the queue
    Free,     \* the mutex when nobody holds it
    Ops,      \* Ops[t]: the methods that t calls
    MaxSent   \* bound of the items that one thread offers

PutOps   == {"enqueue_overrun", "enqueue", "enqueue_try", "enqueue_wait", "enqueue_wait_for"}
TakeOps  == {"dequeue", "dequeue_wait", "dequeue_wait_for"}
Op       == PutOps \cup TakeOps \cup {"clear", "size"}
TryOps   == {"enqueue_try", "dequeue"}
TimedOps == {"enqueue_wait_for", "dequeue_wait_for"}

ASSUME ThreadAssumption ==
    /\ IsFiniteSet(Thread) /\ Free \notin Thread
    /\ MaxSent \in Nat
    /\ Item = Thread \X (1..MaxSent)
    /\ Ops \in [Thread -> SUBSET Op]

VARIABLES
    queue,      \* _queue
    mutex,      \* _queueMtx: its owner, or Free
    popCv,      \* the threads asleep in _popCv
    pushCv,     \* the threads asleep in _pushCv
    discarded,  \* _discardCounter
    call,       \* call[t]: where t stands in which method
    out,        \* out[t]: the variable that t passes as T& item
    sent,       \* sent[t]: how many items t has offered
    handed,     \* history: the items returned by dequeues, in that order
    refused,    \* history: the items whose enqueue returned false
    dropped     \* history: the items that an overrun or clear threw away

vars == <<queue, mutex, popCv, pushCv, discarded, call, out, sent, handed, refused, dropped>>

\* the steps of a dequeue without the mutex
Unowned == {"unowned", "recheck", "read", "move", "reread", "advance"}
Place == {"idle", "lock", "inside", "waiting", "notify_pop", "notify_push"} \cup Unowned

\* op: the method; late: its timeout has passed; pos: the head that a dequeue
\* without the mutex has read
Call == [at : Place, op : Op, late : BOOLEAN, pos : Slot]

\* the item that t last offered
Offer(t) == <<t, sent[t]>>

Init ==
    /\ queue = EmptyRing
    /\ mutex = Free
    /\ popCv = {} /\ pushCv = {}
    /\ discarded = 0
    /\ call = [t \in Thread |-> [at |-> "idle", op |-> "size", late |-> FALSE, pos |-> 0]]
    /\ out = [t \in Thread |-> Vacant]
    /\ sent = [t \in Thread |-> 0]
    /\ handed = <<>>
    /\ refused = {}
    /\ dropped = {}

\* t enters method op; an enqueue brings the next item of t
Begin(t, op) ==
    /\ call[t].at = "idle"
    /\ op \in Ops[t]
    /\ IF op \in PutOps
       THEN sent[t] < MaxSent /\ sent' = [sent EXCEPT ![t] = @ + 1]
       ELSE UNCHANGED sent
    /\ call' = [call EXCEPT ![t] = [at |-> "lock", op |-> op, late |-> FALSE, pos |-> 0]]
    /\ UNCHANGED <<queue, mutex, popCv, pushCv, discarded, out, handed, refused, dropped>>

\* lock_guard, unique_lock, and the relock at the end of a wait
Lock(t) ==
    /\ call[t].at = "lock"
    /\ call[t].op \notin TryOps
    /\ mutex = Free
    /\ mutex' = t
    /\ call' = [call EXCEPT ![t].at = "inside"]
    /\ UNCHANGED <<queue, popCv, pushCv, discarded, out, sent, handed, refused, dropped>>

\* unique_lock(_queueMtx, std::try_to_lock): enqueue_try gives up when it does
\* not own the mutex; dequeue goes on
TryLock(t) ==
    /\ call[t].at = "lock"
    /\ call[t].op \in TryOps
    /\ CASE mutex = Free ->
              /\ mutex' = t
              /\ call' = [call EXCEPT ![t].at = "inside"]
              /\ UNCHANGED refused
         [] mutex # Free /\ call[t].op = "enqueue_try" ->
              /\ call' = [call EXCEPT ![t].at = "idle"]
              /\ refused' = refused \cup {Offer(t)}
              /\ UNCHANGED mutex
         [] mutex # Free /\ call[t].op = "dequeue" ->
              /\ call' = [call EXCEPT ![t].at = "unowned"]
              /\ UNCHANGED <<mutex, refused>>
    /\ UNCHANGED <<queue, popCv, pushCv, discarded, out, sent, handed, dropped>>

------------------------------------------------------------------------------
(* The bodies under the mutex.  Each unlocks and goes to its next place.    *)

Inside(t, ops) == call[t].at = "inside" /\ call[t].op \in ops

Unlock(t, place) ==
    /\ mutex' = Free
    /\ call' = [call EXCEPT ![t].at = place]

\* mutant: nobody is notified of the item
AcceptSilently(t) ==
    /\ queue' = Put(queue, Offer(t))
    /\ Unlock(t, "idle")
    /\ UNCHANGED <<pushCv, discarded, refused>>

\* the item of t enters a queue with space, and one consumer will be notified
Accept(t) ==
    /\ queue' = Put(queue, Offer(t))
    /\ Unlock(t, "notify_pop")
    /\ UNCHANGED <<pushCv, discarded, refused>>

\* the call of t returns false
Refuse(t) ==
    /\ refused' = refused \cup {Offer(t)}
    /\ Unlock(t, "idle")
    /\ UNCHANGED <<queue, pushCv>>

\* mutant: the item is copied, and stays in the queue
HandOverCopy(t, place) ==
    /\ out' = [out EXCEPT ![t] = queue.items[queue.head]]
    /\ handed' = Append(handed, queue.items[queue.head])
    /\ Unlock(t, place)
    /\ UNCHANGED <<queue, popCv>>

\* t receives the oldest item
HandOver(t, place) ==
    /\ out' = [out EXCEPT ![t] = queue.items[queue.head]]
    /\ handed' = Append(handed, queue.items[queue.head])
    /\ queue' = Take(queue)
    /\ Unlock(t, place)
    /\ UNCHANGED popCv

\* what an overrun throws away: the oldest item of a full queue
Overwritten == IF Full(queue) THEN {queue.items[queue.head]} ELSE {}

EnqueueOverrun(t) ==
    /\ Inside(t, {"enqueue_overrun"})
    /\ queue' = PutOverrun(queue, Offer(t))
    /\ dropped' = dropped \cup Overwritten
    /\ Unlock(t, "notify_pop")
    /\ UNCHANGED <<popCv, pushCv, discarded, out, sent, handed, refused>>

\* a full queue discards the item of enqueue, and counts it
Enqueue(t) ==
    /\ Inside(t, {"enqueue"})
    /\ IF Full(queue)
       THEN Refuse(t) /\ discarded' = discarded + 1
       ELSE Accept(t)
    /\ UNCHANGED <<popCv, out, sent, handed, dropped>>

EnqueueTry(t) ==
    /\ Inside(t, {"enqueue_try"})
    /\ IF Full(queue)
       THEN Refuse(t) /\ UNCHANGED discarded
       ELSE Accept(t)
    /\ UNCHANGED <<popCv, out, sent, handed, dropped>>

\* mutants: a call whose timeout has passed enqueues, and returns false; a call
\* that never notices its timeout
EnqueueWaitLatePut(t) ==
    /\ Inside(t, {"enqueue_wait", "enqueue_wait_for"})
    /\ \/ ~ Full(queue) /\ ~ call[t].late /\ Accept(t)
       \/ /\ ~ Full(queue) /\ call[t].late
          /\ queue' = Put(queue, Offer(t))
          /\ refused' = refused \cup {Offer(t)}
          /\ Unlock(t, "idle")
          /\ UNCHANGED <<pushCv, discarded>>
       \/ Full(queue) /\ call[t].late /\ Refuse(t) /\ UNCHANGED discarded
       \/ /\ Full(queue) /\ ~ call[t].late
          /\ pushCv' = pushCv \cup {t}
          /\ Unlock(t, "waiting")
          /\ UNCHANGED <<queue, discarded, refused>>
    /\ UNCHANGED <<popCv, out, sent, handed, dropped>>
EnqueueWaitForEver(t) ==
    /\ Inside(t, {"enqueue_wait", "enqueue_wait_for"})
    /\ \/ ~ Full(queue) /\ Accept(t)
       \/ /\ Full(queue)
          /\ pushCv' = pushCv \cup {t}
          /\ Unlock(t, "waiting")
          /\ UNCHANGED <<queue, discarded, refused>>
    /\ UNCHANGED <<popCv, out, sent, handed, dropped>>

\* enqueue_wait and enqueue_wait_for: the condition is tested again after
\* every wake-up, the last time when the timeout has passed
EnqueueWait(t) ==
    /\ Inside(t, {"enqueue_wait", "enqueue_wait_for"})
    /\ \/ ~ Full(queue) /\ Accept(t)
       \/ Full(queue) /\ call[t].late /\ Refuse(t) /\ UNCHANGED discarded
       \/ /\ Full(queue) /\ ~ call[t].late
          /\ pushCv' = pushCv \cup {t}
          /\ Unlock(t, "waiting")
          /\ UNCHANGED <<queue, discarded, refused>>
    /\ UNCHANGED <<popCv, out, sent, handed, dropped>>

\* mutant: nobody is notified of the space
DequeueWaitSilently(t) ==
    /\ Inside(t, {"dequeue_wait", "dequeue_wait_for"})
    /\ \/ ~ Empty(queue) /\ HandOver(t, "idle")
       \/ /\ Empty(queue) /\ call[t].late
          /\ Unlock(t, "idle")
          /\ UNCHANGED <<queue, popCv, out, handed>>
       \/ /\ Empty(queue) /\ ~ call[t].late
          /\ popCv' = popCv \cup {t}
          /\ Unlock(t, "waiting")
          /\ UNCHANGED <<queue, out, handed>>
    /\ UNCHANGED <<pushCv, discarded, sent, refused, dropped>>

\* dequeue_wait and dequeue_wait_for
DequeueWait(t) ==
    /\ Inside(t, {"dequeue_wait", "dequeue_wait_for"})
    /\ \/ ~ Empty(queue) /\ HandOver(t, "notify_push")
       \/ /\ Empty(queue) /\ call[t].late
          /\ Unlock(t, "idle")
          /\ UNCHANGED <<queue, popCv, out, handed>>
       \/ /\ Empty(queue) /\ ~ call[t].late
          /\ popCv' = popCv \cup {t}
          /\ Unlock(t, "waiting")
          /\ UNCHANGED <<queue, out, handed>>
    /\ UNCHANGED <<pushCv, discarded, sent, refused, dropped>>

\* dequeue that owns the mutex; nobody is notified of the space
Dequeue(t) ==
    /\ Inside(t, {"dequeue"})
    /\ IF Empty(queue)
       THEN Unlock(t, "idle") /\ UNCHANGED <<queue, popCv, out, handed>>
       ELSE HandOver(t, "idle")
    /\ UNCHANGED <<pushCv, discarded, sent, refused, dropped>>

\* clear; nobody is notified of the space
ClearQueue(t) ==
    /\ Inside(t, {"clear"})
    /\ queue' = Cleared(queue)
    /\ dropped' = dropped \cup {Contents(queue)[i] : i \in 1..Size(queue)}
    /\ Unlock(t, "idle")
    /\ UNCHANGED <<popCv, pushCv, discarded, out, sent, handed, refused>>

\* size, empty, full, overrun_counter
Observe(t) ==
    /\ Inside(t, {"size"})
    /\ Unlock(t, "idle")
    /\ UNCHANGED <<queue, popCv, pushCv, discarded, out, sent, handed, refused, dropped>>

------------------------------------------------------------------------------
(* dequeue that does not own the mutex: its loads and stores, in the order  *)
(* of the program, interleave with the bodies of the others.                *)

\* the test of dequeue, ...
UnownedTest(t) ==
    /\ call[t].at = "unowned"
    /\ call' = [call EXCEPT ![t].at = IF Empty(queue) THEN "idle" ELSE "recheck"]
    /\ UNCHANGED <<queue, mutex, popCv, pushCv, discarded, out, sent, handed, refused, dropped>>

\* ... and that of BlockingQueue::dequeue, whose false is ignored: the caller is
\* told that its variable, which nobody wrote, is an item
UnownedRecheck(t) ==
    /\ call[t].at = "recheck"
    /\ IF Empty(queue)
       THEN handed' = Append(handed, out[t]) /\ call' = [call EXCEPT ![t].at = "idle"]
       ELSE call' = [call EXCEPT ![t].at = "read"] /\ UNCHANGED handed
    /\ UNCHANGED <<queue, mutex, popCv, pushCv, discarded, out, sent, refused, dropped>>

\* reads the head and the item in its slot, ...
UnownedRead(t) ==
    /\ call[t].at = "read"
    /\ out' = [out EXCEPT ![t] = queue.items[queue.head]]
    /\ call' = [call EXCEPT ![t].at = "move", ![t].pos = queue.head]
    /\ UNCHANGED <<queue, mutex, popCv, pushCv, discarded, sent, handed, refused, dropped>>

\* ... leaves the slot moved from, ...
UnownedMove(t) ==
    /\ call[t].at = "move"
    /\ queue' = [queue EXCEPT !.items[call[t].pos] = Vacant]
    /\ handed' = Append(handed, out[t])
    /\ call' = [call EXCEPT ![t].at = "reread"]
    /\ UNCHANGED <<mutex, popCv, pushCv, discarded, out, sent, refused, dropped>>

\* ... reads the head again, or goes on with the one it has in a register, ...
Reread(t) ==
    /\ call[t].at = "reread"
    /\ \E head \in {call[t].pos, queue.head} :
          call' = [call EXCEPT ![t].at = "advance", ![t].pos = head]
    /\ UNCHANGED <<queue, mutex, popCv, pushCv, discarded, out, sent, handed, refused, dropped>>

\* ... and stores the one that follows
Advance(t) ==
    /\ call[t].at = "advance"
    /\ queue' = [queue EXCEPT !.head = After(call[t].pos)]
    /\ call' = [call EXCEPT ![t].at = "idle"]
    /\ UNCHANGED <<mutex, popCv, pushCv, discarded, out, sent, handed, refused, dropped>>

------------------------------------------------------------------------------
(* Waking up.                                                               *)

\* notify_one: any one of the sleepers, if there is one, asks for the mutex
NotifyPop(t) ==
    /\ call[t].at = "notify_pop"
    /\ \/ /\ popCv = {}
          /\ call' = [call EXCEPT ![t].at = "idle"]
          /\ UNCHANGED popCv
       \/ \E w \in popCv :
            /\ popCv' = popCv \ {w}
            /\ call' = [call EXCEPT ![t].at = "idle", ![w].at = "lock"]
    /\ UNCHANGED <<queue, mutex, pushCv, discarded, out, sent, handed, refused, dropped>>

NotifyPush(t) ==
    /\ call[t].at = "notify_push"
    /\ \/ /\ pushCv = {}
          /\ call' = [call EXCEPT ![t].at = "idle"]
          /\ UNCHANGED pushCv
       \/ \E w \in pushCv :
            /\ pushCv' = pushCv \ {w}
            /\ call' = [call EXCEPT ![t].at = "idle", ![w].at = "lock"]
    /\ UNCHANGED <<queue, mutex, popCv, discarded, out, sent, handed, refused, dropped>>

\* a sleeper leaves its condition variable without a notify
WakeUp(t, late) ==
    /\ call[t].at = "waiting"
    /\ popCv' = popCv \ {t}
    /\ pushCv' = pushCv \ {t}
    /\ call' = [call EXCEPT ![t].at = "lock", ![t].late = late]
    /\ UNCHANGED <<queue, mutex, discarded, out, sent, handed, refused, dropped>>

Timeout(t) == call[t].op \in TimedOps /\ WakeUp(t, TRUE)

Spurious(t) == WakeUp(t, call[t].late)

Body(t) ==
    \/ EnqueueOverrun(t) \/ Enqueue(t) \/ EnqueueTry(t) \/ EnqueueWait(t)
    \/ Dequeue(t) \/ DequeueWait(t)
    \/ ClearQueue(t) \/ Observe(t)
    \/ UnownedTest(t) \/ UnownedRecheck(t) \/ UnownedRead(t)
    \/ UnownedMove(t) \/ Reread(t) \/ Advance(t)

Notify(t) == NotifyPop(t) \/ NotifyPush(t)

Next == \E t \in Thread :
    \/ \E op \in Op : Begin(t, op)
    \/ Lock(t) \/ TryLock(t) \/ Body(t) \/ Notify(t)
    \/ Timeout(t) \/ Spurious(t)

\* A thread in the middle of a call runs on.  A sleeper with a deadline cannot
\* sleep and be woken for ever without passing it, and a thread that asks for a
\* mutex which becomes free again and again gets it.  Nothing makes a thread
\* begin a call, and no spurious wake-up is owed to a sleeper.
Fairness == \A t \in Thread :
    /\ WF_vars(TryLock(t) \/ Body(t) \/ Notify(t))
    /\ Ops[t] \cap TimedOps # {} => SF_vars(Timeout(t))
    /\ SF_vars(Lock(t))

Spec == Init /\ [][Next]_vars /\ Fairness

------------------------------------------------------------------------------
TypeOK ==
    /\ queue \in Ring
    /\ mutex \in Thread \cup {Free}
    /\ popCv \subseteq Thread /\ pushCv \subseteq Thread
    /\ discarded \in 0..(MaxSent * Cardinality(Thread))
    /\ call \in [Thread -> Call]
    /\ out \in [Thread -> Item \cup {Vacant}]
    /\ sent \in [Thread -> 0..MaxSent]
    /\ \A i \in 1..Len(handed) : handed[i] \in Item \cup {Vacant}
    /\ refused \subseteq Item /\ dropped \subseteq Item

\* the threads at a place, and those in a method that are about to test its
\* condition
Standing(place) == {t \in Thread : call[t].at = place}
OnTheWay(ops) == {t \in Thread : call[t].op \in ops /\ call[t].at \in {"lock", "inside"}}

\* No lost wake-up of a consumer: while one sleeps in _popCv, every item in the
\* queue is matched by a notify still to come or by a consumer about to look.
\* Every method that adds an item notifies after it has unlocked (:42, :62,
\* :104, :146, :196).
NoLostPop ==
    popCv # {} =>
        Size(queue) <= Cardinality(Standing("notify_pop"))
                       + Cardinality(OnTheWay({"dequeue_wait", "dequeue_wait_for"}))

\* No lost wake-up of a producer: while one sleeps in _pushCv, every free place
\* is matched by a notify still to come or by a producer about to look.  True
\* of the methods that notify _pushCv (:121, :174); dequeue and clear do not.
NoLostPush ==
    pushCv # {} =>
        Capacity - Size(queue) <= Cardinality(Standing("notify_push"))
                                  + Cardinality(OnTheWay({"enqueue_wait", "enqueue_wait_for"}))

\* t is inside the call that offers x, and has not put it yet
Offering(t, k) ==
    /\ k = sent[t]
    /\ call[t].op \in PutOps
    /\ call[t].at \in {"lock", "inside", "waiting"}

CopiesIn(s, x) == Cardinality({i \in 1..Len(s) : s[i] = x})

\* Every item whose call has returned is in exactly one place: refused, in the
\* queue, overwritten or cleared away, or handed to one consumer once; an item
\* still being offered is in none.  A timeout that races a late wake-up neither
\* loses the item nor enqueues it after the call returned false (:139-146).
Accounted ==
    \A t \in Thread : \A k \in 1..MaxSent :
        LET x == <<t, k>>
            places == CopiesIn(handed, x) + CopiesIn(Contents(queue), x)
                      + Cardinality({s \in {1, 2} : x \in <<refused, dropped>>[s]})
        IN  places = IF k > sent[t] \/ Offering(t, k) THEN 0 ELSE 1

\* The items of one producer are handed out in the order it offered them, each
\* once (test_concurrent_blocking_queue_mt.cpp, TestResult).
PerProducerOrder ==
    \A i, j \in 1..Len(handed) :
        i < j => handed[j] \in Item /\ (handed[i][1] = handed[j][1] => handed[i][2] < handed[j][2])

\* No two calls of dequeue return the same item
\* (concurrent_blocking_queue.hpp:70, "removes the head element").
HandedOnce ==
    \A i, j \in 1..Len(handed) : handed[i] = handed[j] /\ handed[i] \in Item => i = j

\* what the threads call, as methods of the bounded FIFO
Called(op, method) == IF \E t \in Thread : op \in Ops[t] THEN {method} ELSE {}
Offered == {"put", "take"} \cup Called("enqueue_overrun", "over") \cup Called("clear", "clear")

Fifo == INSTANCE BoundedFifo WITH
    Client <- Thread, contents <- Contents(queue), lost <- queue.overrun, Methods <- Offered

\* The locked methods, whatever their interleaving, are a bounded FIFO: each
\* takes effect at one instant inside its call, and no item leaves the queue
\* but to a consumer, by an overrun or by clear.
RefinesBoundedFifo == Fifo!Spec

InCall(t, ops) == call[t].op \in ops /\ call[t].at # "idle"

\* No enqueue_wait lasts forever while the queue has space
\* (concurrent_blocking_queue.hpp:92-93: blocks until the queue has space).
EnqueueWaitEnds ==
    \A t \in Thread : ~ <>[](InCall(t, {"enqueue_wait"}) /\ ~ Full(queue))

\* No dequeue_wait lasts forever while the queue has an item (:109-110).
DequeueWaitEnds ==
    \A t \in Thread : ~ <>[](InCall(t, {"dequeue_wait"}) /\ ~ Empty(queue))

\* Every call with a timeout ends (:124-132, :150-159).
TimedCallsEnd ==
    \A t \in Thread : InCall(t, TimedOps) ~> call[t].at = "idle"
==============================================================================
