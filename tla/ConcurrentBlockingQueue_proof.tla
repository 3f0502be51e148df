-------------------- MODULE ConcurrentBlockingQueue_proof --------------------
(***************************************************************************)
(* Theorems about ConcurrentBlockingQueue, for any number of threads, any  *)
(* capacity and every mix of the methods that take effect under the mutex: *)
(* all but dequeue(T&), which goes on without it when try_to_lock fails.   *)
(***************************************************************************)
EXTENDS ConcurrentBlockingQueue, FiniteSetTheorems, TLAPS

\* Nobody calls dequeue(T&), in whose unowned half two threads can get the same
\* item.
LockedOnly == \A t \in Thread : "dequeue" \notin Ops[t]

\* Nobody calls clear, which makes space and notifies nobody.
NoClear == \A t \in Thread : "clear" \notin Ops[t]

PutWaits  == {"enqueue_wait", "enqueue_wait_for"}
TakeWaits == {"dequeue_wait", "dequeue_wait_for"}

------------------------------------------------------------------------------
(* The ring.                                                                *)

\* The lemmas about rings speak of no variable of the queue of one thread, so
\* that it does not matter what these are replaced by.
OneThread == INSTANCE BlockingQueue_proof WITH Client <- Thread, MaxOverrun <- 0, ret <- 0

LEMMA SameRing ==
    /\ OneThread!Ring = Ring /\ OneThread!Slot = Slot
    /\ OneThread!RingAssumption /\ OneThread!MaxOverrunAssumption
    /\ \A q : /\ OneThread!Size(q) = Size(q) /\ OneThread!Contents(q) = Contents(q)
             /\ (OneThread!Empty(q) <=> Empty(q)) /\ (OneThread!Full(q) <=> Full(q))
             /\ OneThread!Take(q) = Take(q) /\ OneThread!Drop(q) = Drop(q) /\ OneThread!Cleared(q) = Cleared(q)
             /\ \A x : OneThread!Put(q, x) = Put(q, x) /\ OneThread!PutOverrun(q, x) = PutOverrun(q, x)
             /\ \A idx : OneThread!At(q, idx) = At(q, idx)
<1> USE DEF OneThread!MaxItems, MaxItems, OneThread!Slot, Slot, OneThread!Nth, Nth, OneThread!After, After
<1>1. OneThread!Ring = Ring /\ OneThread!Slot = Slot
  BY DEF OneThread!Ring, Ring
<1>2. OneThread!RingAssumption /\ OneThread!MaxOverrunAssumption
  BY RingAssumption DEF OneThread!RingAssumption, OneThread!MaxOverrunAssumption
<1>3. \A q : /\ (OneThread!Empty(q) <=> Empty(q)) /\ (OneThread!Full(q) <=> Full(q))
             /\ OneThread!Size(q) = Size(q) /\ \A idx : OneThread!At(q, idx) = At(q, idx)
  BY DEF OneThread!Empty, Empty, OneThread!Full, Full, OneThread!Size, Size, OneThread!At, At
<1>4. \A q : OneThread!Contents(q) = Contents(q)
  BY <1>3 DEF OneThread!Contents, Contents
<1>5. \A q : /\ OneThread!Take(q) = Take(q) /\ OneThread!Drop(q) = Drop(q) /\ OneThread!Cleared(q) = Cleared(q)
             /\ \A x : OneThread!Put(q, x) = Put(q, x)
  BY DEF OneThread!Take, Take, OneThread!Drop, Drop, OneThread!Cleared, Cleared, OneThread!Put, Put
<1>6. \A q, x : OneThread!PutOverrun(q, x) = PutOverrun(q, x)
  BY <1>5 DEF OneThread!PutOverrun, PutOverrun
<1> QED
  BY <1>1, <1>2, <1>3, <1>4, <1>5, <1>6

LEMMA SizeType ==
    ASSUME NEW q \in Ring
    PROVE  /\ Size(q) \in 0..Capacity
           /\ Size(q) = 0 <=> Empty(q)
           /\ Size(q) = Capacity <=> Full(q)
BY SameRing, OneThread!SizeType

LEMMA ContentsAt ==
    ASSUME NEW q \in Ring
    PROVE  /\ Len(Contents(q)) = Size(q)
           /\ Contents(q) \in Seq(Item \cup {Vacant})
           /\ \A idx \in Slot : idx < Size(q) => Contents(q)[idx + 1] = At(q, idx)
BY SameRing, OneThread!ContentsAt

LEMMA PutAppends ==
    ASSUME NEW q \in Ring, NEW x \in Item, ~ Full(q)
    PROVE  /\ Put(q, x) \in Ring
           /\ Contents(Put(q, x)) = Append(Contents(q), x)
BY SameRing, OneThread!PutAppends

LEMMA TakeRemovesHead ==
    ASSUME NEW q \in Ring, ~ Empty(q), NEW p \in {Take(q), Drop(q)}
    PROVE  /\ p \in Ring
           /\ q.items[q.head] = Head(Contents(q))
           /\ Contents(q) # <<>>
           /\ Contents(p) = Tail(Contents(q))
BY SameRing, OneThread!TakeRemovesHead

LEMMA PutOverrunContents ==
    ASSUME NEW q \in Ring, NEW x \in Item
    PROVE  /\ PutOverrun(q, x) \in Ring
           /\ ~ Full(q) => PutOverrun(q, x) = Put(q, x)
           /\ Full(q) => /\ Contents(q) # <<>>
                         /\ Contents(PutOverrun(q, x)) = Append(Tail(Contents(q)), x)
                         /\ PutOverrun(q, x).overrun = q.overrun + 1
BY SameRing, OneThread!PutOverrunContents

LEMMA ClearedEmpty ==
    ASSUME NEW q \in Ring
    PROVE  /\ Cleared(q) \in Ring
           /\ Contents(Cleared(q)) = <<>>
           /\ Cleared(q).overrun = 0
BY SameRing, OneThread!ClearedEmpty

LEMMA OverrunAside ==
    ASSUME NEW q \in Ring
    PROVE  /\ Take(q).overrun = q.overrun
           /\ Drop(q).overrun = q.overrun
           /\ \A x \in Item : Put(q, x).overrun = q.overrun
BY SameRing, OneThread!OverrunAside

------------------------------------------------------------------------------
(* The inductive invariant.                                                 *)

TypeInv ==
    /\ queue \in Ring
    /\ mutex \in Thread \cup {Free}
    /\ popCv \subseteq Thread /\ pushCv \subseteq Thread
    /\ call \in [Thread -> Call]
    /\ out \in [Thread -> Item \cup {Vacant}]
    /\ sent \in [Thread -> 0..MaxSent]
    /\ handed \in Seq(Item)
    /\ refused \subseteq Item /\ dropped \subseteq Item

\* The mutex belongs to the thread that is inside a body.
Locked == \A t \in Thread : call[t].at = "inside" <=> mutex = t

\* A thread in a call is in one of its methods, has an item to offer in an
\* enqueue, and never does without the mutex.
Calling ==
    \A t \in Thread :
        /\ call[t].at # "idle" => call[t].op \in Ops[t]
        /\ call[t].at # "idle" /\ call[t].op \in PutOps => sent[t] > 0
        /\ call[t].at \notin Unowned
        /\ call[t].at = "waiting" => call[t].op \in PutWaits \cup TakeWaits

\* The sleepers of a condition variable are the calls that wait on it.
Sleeping ==
    \A t \in Thread :
        /\ t \in popCv  <=> call[t].at = "waiting" /\ call[t].op \in TakeWaits
        /\ t \in pushCv <=> call[t].at = "waiting" /\ call[t].op \in PutWaits

\* Only items stand between head and tail.
Filled == Contents(queue) \in Seq(Item)

\* The items of one producer stand in s in the order it offered them.
Chain(s) == \A i, j \in 1..Len(s) : i < j /\ s[i][1] = s[j][1] => s[i][2] < s[j][2]

\* They go through the queue in that order.
InOrder == Chain(handed \o Contents(queue))

\* Each item that enqueue discarded was refused.
DiscardsRefused == discarded \in 0..Cardinality(refused)

Control == TypeInv /\ Locked /\ Calling /\ Sleeping /\ Filled

------------------------------------------------------------------------------
(* What a body under the mutex may do, in terms of the items in the queue.  *)

Live == Contents(queue)

\* the item of t becomes the newest one
Puts(t) ==
    /\ call[t].op \in PutOps
    /\ Len(Live) < Capacity
    /\ Live' = Append(Live, Offer(t)) /\ queue'.overrun = queue.overrun
    /\ Unlock(t, "notify_pop")
    /\ UNCHANGED <<popCv, pushCv, discarded, out, sent, handed, refused, dropped>>

\* it takes the place of the oldest item of a full queue
Overwrites(t) ==
    /\ call[t].op = "enqueue_overrun"
    /\ Live # <<>> /\ Len(Live) = Capacity
    /\ Live' = Append(Tail(Live), Offer(t)) /\ queue'.overrun = queue.overrun + 1
    /\ dropped' = dropped \cup {Head(Live)}
    /\ Unlock(t, "notify_pop")
    /\ UNCHANGED <<popCv, pushCv, discarded, out, sent, handed, refused>>

\* a full queue refuses it
Refuses(t) ==
    /\ call[t].op \in PutOps
    /\ Len(Live) = Capacity
    /\ refused' = refused \cup {Offer(t)}
    /\ discarded' \in {discarded, discarded + 1}
    /\ Unlock(t, "idle")
    /\ UNCHANGED <<queue, popCv, pushCv, out, sent, handed, dropped>>

\* t receives the oldest item
Takes(t) ==
    /\ call[t].op \in TakeWaits
    /\ Live # <<>>
    /\ Live' = Tail(Live) /\ queue'.overrun = queue.overrun
    /\ out' = [out EXCEPT ![t] = Head(Live)]
    /\ handed' = Append(handed, Head(Live))
    /\ Unlock(t, "notify_push")
    /\ UNCHANGED <<popCv, pushCv, discarded, sent, refused, dropped>>

\* all items leave the queue
Clears(t) ==
    /\ call[t].op = "clear"
    /\ Live' = <<>> /\ queue'.overrun = 0
    /\ dropped' = dropped \cup {Live[i] : i \in 1..Len(Live)}
    /\ Unlock(t, "idle")
    /\ UNCHANGED <<popCv, pushCv, discarded, out, sent, handed, refused>>

\* t goes to sleep where it waits for an item or for space
Sleeps(t) ==
    /\ \/ /\ call[t].op \in PutWaits /\ Len(Live) = Capacity
          /\ pushCv' = pushCv \cup {t} /\ UNCHANGED popCv
       \/ /\ call[t].op \in TakeWaits /\ Live = <<>>
          /\ popCv' = popCv \cup {t} /\ UNCHANGED pushCv
    /\ Unlock(t, "waiting")
    /\ UNCHANGED <<queue, discarded, out, sent, handed, refused, dropped>>

\* t returns with nothing done
Leaves(t) ==
    /\ call[t].op \in {"size"} \cup TakeWaits
    /\ call[t].op \in TakeWaits => Live = <<>>
    /\ Unlock(t, "idle")
    /\ UNCHANGED <<queue, popCv, pushCv, discarded, out, sent, handed, refused, dropped>>

Outcome(t) ==
    /\ call[t].at = "inside"
    /\ queue' \in Ring
    /\ Puts(t) \/ Overwrites(t) \/ Refuses(t) \/ Takes(t) \/ Clears(t) \/ Sleeps(t) \/ Leaves(t)

------------------------------------------------------------------------------
(* Facts about the ring and about calls.                                    *)

\* The length of the contents tells whether the ring is full or empty.
LEMMA LiveLength ==
    ASSUME queue \in Ring
    PROVE  /\ Len(Live) = Size(queue) /\ Len(Live) \in 0..Capacity
           /\ Full(queue) <=> Len(Live) = Capacity
           /\ Empty(queue) <=> Live = <<>>
<1>1. Len(Live) = Size(queue) /\ Live \in Seq(Item \cup {Vacant})
  BY ContentsAt DEF Live
<1>2. Size(queue) \in 0..Capacity /\ (Size(queue) = 0 <=> Empty(queue)) /\ (Size(queue) = Capacity <=> Full(queue))
  BY SizeType
<1>3. Live = <<>> <=> Len(Live) = 0
  BY <1>1
<1>4. QED
  BY <1>1, <1>2, <1>3

\* A thread that goes from place to place changes nothing else of its call.
LEMMA Moved ==
    ASSUME call \in [Thread -> Call], NEW t \in Thread, NEW place \in Place,
           call' = [call EXCEPT ![t].at = place]
    PROVE  /\ call' \in [Thread -> Call]
           /\ call'[t].at = place /\ call'[t].op = call[t].op
           /\ call'[t].late = call[t].late /\ call'[t].pos = call[t].pos
           /\ \A u \in Thread \ {t} : call'[u] = call[u]
<1>1. call[t] \in Call
  OBVIOUS
<1> DEFINE c == [call[t] EXCEPT !.at = place]
<1>2. c \in Call /\ c.at = place /\ c.op = call[t].op /\ c.late = call[t].late /\ c.pos = call[t].pos
  BY <1>1 DEF Call
<1>3. call' = [call EXCEPT ![t] = c]
  OBVIOUS
<1> HIDE DEF c
<1>4. call' \in [Thread -> Call] /\ call'[t] = c /\ \A u \in Thread \ {t} : call'[u] = call[u]
  BY <1>2, <1>3
<1>5. QED
  BY <1>2, <1>4

\* The item that a thread offers is an item.
LEMMA OfferItem ==
    ASSUME Control, NEW t \in Thread, call[t].at # "idle", call[t].op \in PutOps
    PROVE  Offer(t) \in Item
<1>1. sent[t] \in 1..MaxSent
  BY ThreadAssumption DEF Control, TypeInv, Calling
<1>2. QED
  BY <1>1, ThreadAssumption DEF Offer

\* A body does one of the things listed.
LEMMA BodyOutcome ==
    ASSUME Control, LockedOnly, NEW t \in Thread, Body(t)
    PROVE  Outcome(t)
<1>1. /\ call[t].at \notin Unowned
      /\ call[t].at = "inside" => call[t].op \in Ops[t] /\ call[t].op # "dequeue"
  BY DEF Control, Calling, LockedOnly
<1>2. queue \in Ring
  BY DEF Control, TypeInv
<1>3. CASE EnqueueOverrun(t)
  <2>1. call[t].at = "inside" /\ call[t].op = "enqueue_overrun" /\ queue' = PutOverrun(queue, Offer(t))
    BY <1>3 DEF EnqueueOverrun, Inside
  <2>2. Offer(t) \in Item
    BY <2>1, OfferItem DEF PutOps
  <2>3. CASE Full(queue)
    <3>1. /\ queue' \in Ring /\ Live # <<>> /\ Live' = Append(Tail(Live), Offer(t))
          /\ queue'.overrun = queue.overrun + 1
      BY <1>2, <2>1, <2>2, <2>3, PutOverrunContents DEF Live
    <3>2. queue.items[queue.head] = Head(Live)
      BY <1>2, <2>3, <3>1, LiveLength, TakeRemovesHead DEF Live
    <3>3. Overwrites(t)
      BY <1>2, <1>3, <2>1, <2>3, <3>1, <3>2, LiveLength DEF EnqueueOverrun, Overwrites, Overwritten
    <3>4. QED
      BY <2>1, <3>1, <3>3 DEF Outcome
  <2>4. CASE ~ Full(queue)
    <3>1. queue' \in Ring /\ Live' = Append(Live, Offer(t)) /\ queue'.overrun = queue.overrun
      BY <1>2, <2>1, <2>2, <2>4, PutOverrunContents, PutAppends, OverrunAside DEF Live
    <3>2. Len(Live) < Capacity
      BY <1>2, <2>4, LiveLength, RingAssumption
    <3>3. Puts(t)
      BY <1>3, <2>1, <2>4, <3>1, <3>2 DEF EnqueueOverrun, Puts, PutOps, Overwritten
    <3>4. QED
      BY <2>1, <3>1, <3>3 DEF Outcome
  <2>5. QED
    BY <2>3, <2>4
<1>4. ASSUME call[t].at = "inside", call[t].op \in PutOps, ~ Full(queue), Accept(t),
             UNCHANGED <<popCv, out, sent, handed, dropped>>
      PROVE  Outcome(t)
  <2>1. Offer(t) \in Item
    BY <1>4, OfferItem
  <2>2. queue' \in Ring /\ Live' = Append(Live, Offer(t)) /\ queue'.overrun = queue.overrun
    BY <1>2, <1>4, <2>1, PutAppends, OverrunAside DEF Live, Accept
  <2>3. Len(Live) < Capacity
    BY <1>2, <1>4, LiveLength, RingAssumption
  <2>4. QED
    BY <1>4, <2>2, <2>3 DEF Accept, Puts, Outcome
<1>5. ASSUME call[t].at = "inside", call[t].op \in PutOps, Full(queue), Refuse(t),
             discarded' \in {discarded, discarded + 1},
             UNCHANGED <<popCv, out, sent, handed, dropped>>
      PROVE  Outcome(t)
  BY <1>2, <1>5, LiveLength DEF Refuse, Refuses, Outcome
<1>6. CASE Enqueue(t)
  BY <1>4, <1>5, <1>6 DEF Enqueue, Inside, PutOps
<1>7. CASE EnqueueTry(t)
  BY <1>4, <1>5, <1>7 DEF EnqueueTry, Inside, PutOps
<1>8. CASE EnqueueWait(t)
  <2>1. call[t].at = "inside" /\ call[t].op \in PutWaits /\ call[t].op \in PutOps
    BY <1>8 DEF EnqueueWait, Inside, PutWaits, PutOps
  <2>2. ASSUME Full(queue), pushCv' = pushCv \cup {t}, Unlock(t, "waiting"),
               UNCHANGED <<queue, discarded, refused, popCv, out, sent, handed, dropped>>
        PROVE  Outcome(t)
    BY <1>2, <2>1, <2>2, LiveLength DEF Sleeps, Outcome
  <2>3. QED
    BY <1>4, <1>5, <1>8, <2>1, <2>2 DEF EnqueueWait
<1>9. CASE DequeueWait(t)
  <2>1. call[t].at = "inside" /\ call[t].op \in TakeWaits
    BY <1>9 DEF DequeueWait, Inside, TakeWaits
  <2>2. ASSUME ~ Empty(queue), HandOver(t, "notify_push"), UNCHANGED <<pushCv, discarded, sent, refused, dropped>>
        PROVE  Outcome(t)
    <3>1. /\ queue' \in Ring /\ Live # <<>> /\ Live' = Tail(Live) /\ queue'.overrun = queue.overrun
          /\ queue.items[queue.head] = Head(Live)
      BY <1>2, <2>2, TakeRemovesHead, OverrunAside DEF Live, HandOver
    <3>2. QED
      BY <2>1, <2>2, <3>1 DEF HandOver, Takes, Outcome
  <2>3. ASSUME Empty(queue), Unlock(t, "idle"),
               UNCHANGED <<queue, popCv, out, handed, pushCv, discarded, sent, refused, dropped>>
        PROVE  Outcome(t)
    BY <1>2, <2>1, <2>3, LiveLength DEF Leaves, Outcome
  <2>4. ASSUME Empty(queue), popCv' = popCv \cup {t}, Unlock(t, "waiting"),
               UNCHANGED <<queue, out, handed, pushCv, discarded, sent, refused, dropped>>
        PROVE  Outcome(t)
    BY <1>2, <2>1, <2>4, LiveLength DEF Sleeps, Outcome
  <2>5. QED
    BY <1>9, <2>2, <2>3, <2>4 DEF DequeueWait
<1>10. CASE ClearQueue(t)
  <2>1. queue' \in Ring /\ Live' = <<>> /\ queue'.overrun = 0
    BY <1>2, <1>10, ClearedEmpty DEF ClearQueue, Live
  <2>2. {Live[i] : i \in 1..Size(queue)} = {Live[i] : i \in 1..Len(Live)}
    BY <1>2, LiveLength
  <2>3. dropped' = dropped \cup {Live[i] : i \in 1..Size(queue)}
    BY <1>10 DEF ClearQueue, Live
  <2>4. QED
    BY <1>10, <2>1, <2>2, <2>3 DEF ClearQueue, Inside, Clears, Outcome
<1>11. CASE Observe(t)
  BY <1>2, <1>11 DEF Observe, Inside, Leaves, Outcome, TakeWaits
<1>12. QED
  BY <1>1, <1>3, <1>6, <1>7, <1>8, <1>9, <1>10, <1>11 DEF Body, Dequeue, Inside, Unowned, UnownedTest, UnownedRecheck, UnownedRead, UnownedMove, Reread, Advance

------------------------------------------------------------------------------
(* Every step keeps the control part of the invariant.                      *)

\* A queue just constructed satisfies it.
LEMMA InitControl == Init => Control
<1> SUFFICES ASSUME Init PROVE Control
  OBVIOUS
<1>1. queue \in Ring /\ Size(queue) = 0
  BY RingAssumption DEF Init, EmptyRing, Ring, Slot, Size
<1>2. Contents(queue) = <<>>
  BY <1>1 DEF Contents
<1>3. call \in [Thread -> Call] /\ \A t \in Thread : call[t].at = "idle"
  BY RingAssumption DEF Init, Call, Place, Unowned, Op, Slot
<1>4. sent \in [Thread -> 0..MaxSent]
  BY ThreadAssumption DEF Init
<1>5. TypeInv /\ Filled
  BY <1>1, <1>2, <1>3, <1>4 DEF Init, TypeInv, Filled
<1>6. Locked /\ Calling /\ Sleeping
  BY <1>3, ThreadAssumption DEF Init, Locked, Calling, Sleeping, Unowned
<1>7. QED
  BY <1>5, <1>6 DEF Control

\* The end of a body: t gives the mutex back and goes to place.
LEMMA UnlockControl ==
    ASSUME Control, NEW t \in Thread, call[t].at = "inside", UNCHANGED sent,
           NEW place \in {"idle", "notify_pop", "notify_push", "waiting"}, Unlock(t, place),
           IF place = "waiting"
           THEN \/ call[t].op \in PutWaits /\ pushCv' = pushCv \cup {t} /\ UNCHANGED popCv
                \/ call[t].op \in TakeWaits /\ popCv' = popCv \cup {t} /\ UNCHANGED pushCv
           ELSE UNCHANGED <<popCv, pushCv>>
    PROVE  /\ Locked' /\ Calling' /\ Sleeping'
           /\ call' \in [Thread -> Call] /\ mutex' = Free /\ popCv' \cup pushCv' \subseteq Thread
<1>1. /\ call' \in [Thread -> Call] /\ call'[t].at = place /\ call'[t].op = call[t].op
      /\ \A u \in Thread \ {t} : call'[u] = call[u]
  BY Moved DEF Control, TypeInv, Unlock, Place, Unowned
<1>2. mutex' = Free /\ mutex = t /\ Free \notin Thread
  BY ThreadAssumption DEF Unlock, Control, Locked
<1>3. Locked'
  BY <1>1, <1>2 DEF Control, Locked
<1>4. Calling'
  <2> SUFFICES ASSUME NEW u \in Thread
               PROVE  /\ call'[u].at # "idle" => call'[u].op \in Ops[u]
                      /\ call'[u].at # "idle" /\ call'[u].op \in PutOps => sent[u] > 0
                      /\ call'[u].at \notin Unowned
                      /\ call'[u].at = "waiting" => call'[u].op \in PutWaits \cup TakeWaits
    BY DEF Calling
  <2>1. CASE u = t
    BY <1>1, <2>1 DEF Control, Calling, Unowned
  <2>2. CASE u # t
    BY <1>1, <2>2 DEF Control, Calling
  <2>3. QED
    BY <2>1, <2>2
<1>5. Sleeping'
  <2> SUFFICES ASSUME NEW u \in Thread
               PROVE  /\ u \in popCv'  <=> call'[u].at = "waiting" /\ call'[u].op \in TakeWaits
                      /\ u \in pushCv' <=> call'[u].at = "waiting" /\ call'[u].op \in PutWaits
    BY DEF Sleeping
  <2>1. PutWaits \cap TakeWaits = {}
    BY DEF PutWaits, TakeWaits
  <2>2. CASE u = t
    BY <1>1, <2>1, <2>2 DEF Control, Sleeping
  <2>3. CASE u # t
    BY <1>1, <2>3 DEF Control, Sleeping
  <2>4. QED
    BY <2>2, <2>3
<1>6. popCv' \cup pushCv' \subseteq Thread
  BY DEF Control, TypeInv
<1>7. QED
  BY <1>1, <1>2, <1>3, <1>4, <1>5, <1>6

\* The bodies.
LEMMA BodyControl ==
    ASSUME Control, NEW t \in Thread, Outcome(t)
    PROVE  Control'
<1> DEFINE Rest == /\ Locked' /\ Calling' /\ Sleeping'
                   /\ call' \in [Thread -> Call] /\ mutex' = Free /\ popCv' \cup pushCv' \subseteq Thread
<1>1. /\ call[t].at = "inside" /\ queue' \in Ring
      /\ Live \in Seq(Item) /\ handed \in Seq(Item) /\ out \in [Thread -> Item \cup {Vacant}]
      /\ sent \in [Thread -> 0..MaxSent] /\ refused \subseteq Item /\ dropped \subseteq Item
  BY DEF Outcome, Control, TypeInv, Filled, Live
<1>2. call[t].op \in PutOps => Offer(t) \in Item
  BY <1>1, OfferItem
<1>3. ASSUME Rest, sent' = sent, Live' \in Seq(Item), handed' \in Seq(Item), out' \in [Thread -> Item \cup {Vacant}],
             refused' \subseteq Item, dropped' \subseteq Item
      PROVE  Control'
  BY <1>1, <1>3 DEF Control, TypeInv, Filled, Live
<1>4. CASE Puts(t)
  <2>1. Rest
    BY <1>1, <1>4, UnlockControl DEF Puts
  <2>2. Live' \in Seq(Item)
    BY <1>1, <1>2, <1>4 DEF Puts
  <2>3. QED
    BY <1>1, <1>3, <1>4, <2>1, <2>2 DEF Puts
<1>5. CASE Overwrites(t)
  <2>1. Rest
    BY <1>1, <1>5, UnlockControl DEF Overwrites
  <2>2. Offer(t) \in Item /\ Head(Live) \in Item /\ Tail(Live) \in Seq(Item)
    BY <1>1, <1>2, <1>5 DEF Overwrites, PutOps
  <2>3. Live' \in Seq(Item) /\ dropped' \subseteq Item
    BY <1>1, <1>5, <2>2 DEF Overwrites
  <2>4. QED
    BY <1>1, <1>3, <1>5, <2>1, <2>3 DEF Overwrites
<1>6. CASE Refuses(t)
  <2>1. Rest
    BY <1>1, <1>6, UnlockControl DEF Refuses
  <2>2. Live' = Live
    BY <1>6 DEF Refuses, Live
  <2>3. QED
    BY <1>1, <1>2, <1>3, <1>6, <2>1, <2>2 DEF Refuses
<1>7. CASE Takes(t)
  <2>1. Rest
    BY <1>1, <1>7, UnlockControl DEF Takes
  <2>2. Head(Live) \in Item /\ Tail(Live) \in Seq(Item)
    BY <1>1, <1>7 DEF Takes
  <2>3. Live' \in Seq(Item) /\ handed' \in Seq(Item) /\ out' \in [Thread -> Item \cup {Vacant}]
    BY <1>1, <1>7, <2>2 DEF Takes
  <2>4. QED
    BY <1>1, <1>3, <1>7, <2>1, <2>3 DEF Takes
<1>8. CASE Clears(t)
  <2>1. Rest
    BY <1>1, <1>8, UnlockControl DEF Clears
  <2>2. Live' \in Seq(Item) /\ dropped' \subseteq Item
    BY <1>1, <1>8 DEF Clears
  <2>3. QED
    BY <1>1, <1>3, <1>8, <2>1, <2>2 DEF Clears
<1>9. CASE Sleeps(t)
  <2>1. Rest
    BY <1>1, <1>9, UnlockControl DEF Sleeps
  <2>2. Live' = Live
    BY <1>9 DEF Sleeps, Live
  <2>3. QED
    BY <1>1, <1>3, <1>9, <2>1, <2>2 DEF Sleeps
<1>10. CASE Leaves(t)
  <2>1. Rest
    BY <1>1, <1>10, UnlockControl DEF Leaves
  <2>2. Live' = Live
    BY <1>10 DEF Leaves, Live
  <2>3. QED
    BY <1>1, <1>3, <1>10, <2>1, <2>2 DEF Leaves
<1>11. QED
  BY <1>4, <1>5, <1>6, <1>7, <1>8, <1>9, <1>10 DEF Outcome

\* The steps that take or ask for the mutex.
LEMMA LockControl ==
    ASSUME Control, LockedOnly, NEW t \in Thread, Lock(t) \/ TryLock(t)
    PROVE  /\ Control'
           /\ call[t].at = "lock"
           /\ \/ /\ call' = [call EXCEPT ![t].at = "inside"]
                 /\ UNCHANGED refused
              \/ /\ call[t].op = "enqueue_try"
                 /\ call' = [call EXCEPT ![t].at = "idle"]
                 /\ refused' = refused \cup {Offer(t)}
<1>1. call[t].at = "lock" /\ call[t].op # "dequeue"
  BY DEF Lock, TryLock, Control, Calling, LockedOnly
<1>2. /\ UNCHANGED <<queue, popCv, pushCv, discarded, out, sent, handed, dropped>>
      /\ \/ /\ mutex = Free /\ mutex' = t
            /\ call' = [call EXCEPT ![t].at = "inside"]
            /\ UNCHANGED refused
         \/ /\ call[t].op = "enqueue_try" /\ mutex' = mutex
            /\ call' = [call EXCEPT ![t].at = "idle"]
            /\ refused' = refused \cup {Offer(t)}
  <2>1. CASE Lock(t)
    BY <2>1 DEF Lock
  <2>2. CASE TryLock(t)
    BY <1>1, <2>2 DEF TryLock, TryOps
  <2>3. QED
    BY <2>1, <2>2
<1>3. PICK place \in {"inside", "idle"} :
        /\ call' = [call EXCEPT ![t].at = place]
        /\ IF place = "inside" THEN mutex = Free /\ mutex' = t ELSE mutex' = mutex
  BY <1>2
<1>4. /\ call' \in [Thread -> Call] /\ call'[t].at = place /\ call'[t].op = call[t].op
      /\ \A u \in Thread \ {t} : call'[u] = call[u]
  BY <1>3, Moved DEF Control, TypeInv, Place, Unowned
<1>5. Locked'
  <2> SUFFICES ASSUME NEW u \in Thread PROVE call'[u].at = "inside" <=> mutex' = u
    BY DEF Locked
  <2>1. call[u].at = "inside" <=> mutex = u
    BY DEF Control, Locked
  <2>2. CASE u = t
    BY <1>1, <1>3, <1>4, <2>1, <2>2
  <2>3. CASE u # t
    BY <1>3, <1>4, <2>1, <2>3, ThreadAssumption
  <2>4. QED
    BY <2>2, <2>3
<1>6. Calling'
  BY <1>1, <1>2, <1>4 DEF Control, Calling, Unowned
<1>7. Sleeping'
  BY <1>1, <1>2, <1>4 DEF Control, Sleeping
<1>8. call[t].op = "enqueue_try" => Offer(t) \in Item /\ call[t].op \in PutOps
  BY <1>1, OfferItem DEF PutOps
<1>9. TypeInv' /\ Filled'
  BY <1>2, <1>3, <1>4, <1>8 DEF Control, TypeInv, Filled
<1>10. QED
  BY <1>1, <1>2, <1>5, <1>6, <1>7, <1>8, <1>9 DEF Control

\* A call begins.
LEMMA BeginControl ==
    ASSUME Control, NEW t \in Thread, NEW op \in Op, Begin(t, op)
    PROVE  /\ Control'
           /\ call[t].at = "idle" /\ op \in Ops[t]
           /\ call'[t].at = "lock" /\ call'[t].op = op /\ \A u \in Thread \ {t} : call'[u] = call[u]
           /\ sent'[t] = IF op \in PutOps THEN sent[t] + 1 ELSE sent[t]
           /\ \A u \in Thread \ {t} : sent'[u] = sent[u]
<1> DEFINE c == [at |-> "lock", op |-> op, late |-> FALSE, pos |-> 0]
<1>1. c \in Call /\ c.at = "lock" /\ c.op = op
  BY RingAssumption DEF Call, Place, Unowned, Slot
<1> HIDE DEF c
<1>2. /\ call[t].at = "idle" /\ op \in Ops[t] /\ call' = [call EXCEPT ![t] = c]
      /\ UNCHANGED <<queue, mutex, popCv, pushCv, discarded, out, handed, refused, dropped>>
      /\ IF op \in PutOps
         THEN sent[t] < MaxSent /\ sent' = [sent EXCEPT ![t] = sent[t] + 1]
         ELSE UNCHANGED sent
  BY DEF Begin, c
<1>3. call \in [Thread -> Call] /\ sent \in [Thread -> 0..MaxSent] /\ MaxSent \in Nat
  BY ThreadAssumption DEF Control, TypeInv
<1>4. /\ call' \in [Thread -> Call] /\ call'[t] = c
      /\ \A u \in Thread \ {t} : call'[u] = call[u]
  BY <1>1, <1>2, <1>3
<1>5. /\ sent' \in [Thread -> 0..MaxSent]
      /\ sent'[t] = IF op \in PutOps THEN sent[t] + 1 ELSE sent[t]
      /\ \A u \in Thread \ {t} : sent'[u] = sent[u]
  <2>1. CASE op \in PutOps
    <3>1. sent[t] + 1 \in 0..MaxSent
      BY <1>2, <1>3, <2>1
    <3>2. QED
      BY <1>2, <1>3, <2>1, <3>1
  <2>2. CASE op \notin PutOps
    BY <1>2, <1>3, <2>2
  <2>3. QED
    BY <2>1, <2>2
<1>6. TypeInv' /\ Filled'
  BY <1>2, <1>4, <1>5 DEF Control, TypeInv, Filled
<1>7. Locked'
  BY <1>1, <1>2, <1>4 DEF Control, Locked
<1>8. Calling'
  <2> SUFFICES ASSUME NEW u \in Thread
               PROVE  /\ call'[u].at # "idle" => call'[u].op \in Ops[u]
                      /\ call'[u].at # "idle" /\ call'[u].op \in PutOps => sent'[u] > 0
                      /\ call'[u].at \notin Unowned
                      /\ call'[u].at = "waiting" => call'[u].op \in PutWaits \cup TakeWaits
    BY DEF Calling
  <2>1. CASE u = t
    BY <1>1, <1>2, <1>3, <1>4, <1>5, <2>1 DEF Unowned
  <2>2. CASE u # t
    BY <1>4, <1>5, <2>2 DEF Control, Calling
  <2>3. QED
    BY <2>1, <2>2
<1>9. Sleeping'
  BY <1>1, <1>2, <1>4 DEF Control, Sleeping
<1>10. QED
  BY <1>1, <1>2, <1>4, <1>5, <1>6, <1>7, <1>8, <1>9 DEF Control

\* What a sleeper does when it leaves its condition variable.
Awakes(w, cv, late) ==
    /\ w \in cv /\ call[w].at = "waiting"
    /\ call'[w].at = "lock" /\ call'[w].op = call[w].op /\ call'[w].late = late /\ call'[w].pos = call[w].pos

\* A notify ends a call, and wakes one sleeper up, if there is one.
LEMMA NotifyControl ==
    ASSUME Control, NEW t \in Thread, Notify(t)
    PROVE  /\ Control' /\ UNCHANGED <<queue, discarded, out, sent, handed, refused, dropped>>
           /\ call[t].at \in {"notify_pop", "notify_push"}
           /\ call'[t].at = "idle" /\ call'[t].op = call[t].op
           /\ \/ /\ \A u \in Thread \ {t} : call'[u] = call[u]
                 /\ UNCHANGED <<popCv, pushCv>>
                 /\ IF call[t].at = "notify_pop" THEN popCv = {} ELSE pushCv = {}
              \/ \E w \in Thread \ {t} :
                     /\ Awakes(w, IF call[t].at = "notify_pop" THEN popCv ELSE pushCv, call[w].late)
                     /\ popCv' = popCv \ {w} /\ pushCv' = pushCv \ {w}
                     /\ \A u \in Thread \ {t, w} : call'[u] = call[u]
<1>1. /\ call \in [Thread -> Call] /\ popCv \subseteq Thread /\ pushCv \subseteq Thread
      /\ UNCHANGED <<queue, mutex, discarded, out, sent, handed, refused, dropped>>
      /\ call[t].at \in {"notify_pop", "notify_push"}
  BY DEF Notify, NotifyPop, NotifyPush, Control, TypeInv
<1>2. PutWaits \cap TakeWaits = {}
  BY DEF PutWaits, TakeWaits
<1> DEFINE cv == IF call[t].at = "notify_pop" THEN popCv ELSE pushCv
<1>3. CASE cv = {} /\ call' = [call EXCEPT ![t].at = "idle"] /\ UNCHANGED <<popCv, pushCv>>
  <2>1. /\ call' \in [Thread -> Call] /\ call'[t].at = "idle" /\ call'[t].op = call[t].op
        /\ \A u \in Thread \ {t} : call'[u] = call[u]
    BY <1>1, <1>3, Moved DEF Place, Unowned
  <2>2. Locked'
    BY <1>1, <2>1 DEF Control, Locked
  <2>3. Calling'
    BY <1>1, <2>1 DEF Control, Calling, Unowned
  <2>4. Sleeping'
    BY <1>1, <1>3, <2>1 DEF Control, Sleeping
  <2>5. TypeInv' /\ Filled'
    BY <1>1, <1>3, <2>1 DEF Control, TypeInv, Filled
  <2>6. QED
    BY <1>1, <1>3, <2>1, <2>2, <2>3, <2>4, <2>5 DEF Control
<1>4. ASSUME NEW w \in cv, call' = [call EXCEPT ![t].at = "idle", ![w].at = "lock"],
             popCv' = popCv \ {w}, pushCv' = pushCv \ {w}
      PROVE  /\ Control' /\ w \in Thread \ {t} /\ Awakes(w, cv, call[w].late)
             /\ call'[t].at = "idle" /\ call'[t].op = call[t].op
             /\ \A u \in Thread \ {t, w} : call'[u] = call[u]
  <2>1. w \in Thread /\ call[w].at = "waiting" /\ w # t
    BY <1>1, <1>4 DEF Control, Sleeping
  <2> DEFINE ct == [call[t] EXCEPT !.at = "idle"]
             cw == [call[w] EXCEPT !.at = "lock"]
  <2>2. /\ ct \in Call /\ ct.at = "idle" /\ ct.op = call[t].op
        /\ cw \in Call /\ cw.at = "lock" /\ cw.op = call[w].op /\ cw.late = call[w].late /\ cw.pos = call[w].pos
    <3>1. call[t] \in Call /\ call[w] \in Call
      BY <1>1, <2>1
    <3>2. QED
      BY <3>1 DEF Call, Place, Unowned
  <2>3. call' = [call EXCEPT ![t] = ct, ![w] = cw]
    BY <1>1, <1>4, <2>1
  <2> HIDE DEF ct, cw
  <2>4. /\ call' \in [Thread -> Call] /\ call'[t] = ct /\ call'[w] = cw
        /\ \A u \in Thread \ {t, w} : call'[u] = call[u]
    BY <1>1, <2>1, <2>2, <2>3
  <2>5. Locked'
    BY <1>1, <2>1, <2>2, <2>4 DEF Control, Locked
  <2>6. Calling'
    <3>1. \A u \in Thread : /\ call'[u].op = call[u].op
                            /\ call'[u].at # "idle" => call[u].at # "idle"
                            /\ call'[u].at \in Unowned \cup {"waiting"} => call'[u].at = call[u].at
      BY <1>1, <2>1, <2>2, <2>4 DEF Unowned
    <3>2. QED
      BY <1>1, <3>1 DEF Control, Calling
  <2>7. Sleeping'
    <3> SUFFICES ASSUME NEW u \in Thread
                 PROVE  /\ u \in popCv'  <=> call'[u].at = "waiting" /\ call'[u].op \in TakeWaits
                        /\ u \in pushCv' <=> call'[u].at = "waiting" /\ call'[u].op \in PutWaits
      BY DEF Sleeping
    <3>1. /\ u \in popCv  <=> call[u].at = "waiting" /\ call[u].op \in TakeWaits
          /\ u \in pushCv <=> call[u].at = "waiting" /\ call[u].op \in PutWaits
      BY DEF Control, Sleeping
    <3>2. CASE u = w
      BY <1>4, <2>2, <2>4, <3>2
    <3>3. CASE u = t
      BY <1>1, <1>4, <2>1, <2>2, <2>4, <3>1, <3>3
    <3>4. CASE u \notin {t, w}
      BY <1>4, <2>4, <3>1, <3>4
    <3>5. QED
      BY <3>2, <3>3, <3>4
  <2>8. TypeInv' /\ Filled'
    BY <1>1, <1>4, <2>4 DEF Control, TypeInv, Filled
  <2>9. QED
    BY <1>4, <2>1, <2>2, <2>4, <2>5, <2>6, <2>7, <2>8 DEF Control, Awakes
<1>5. \/ cv = {} /\ call' = [call EXCEPT ![t].at = "idle"] /\ UNCHANGED <<popCv, pushCv>>
      \/ \E w \in cv : /\ call' = [call EXCEPT ![t].at = "idle", ![w].at = "lock"]
                       /\ popCv' = popCv \ {w} /\ pushCv' = pushCv \ {w}
  <2>1. popCv \cap pushCv = {}
    BY <1>1, <1>2 DEF Control, Sleeping
  <2>2. CASE NotifyPop(t)
    BY <2>1, <2>2 DEF NotifyPop
  <2>3. CASE NotifyPush(t)
    BY <2>1, <2>3 DEF NotifyPush
  <2>4. QED
    BY <2>2, <2>3 DEF Notify
<1>6. CASE \E w \in cv : /\ call' = [call EXCEPT ![t].at = "idle", ![w].at = "lock"]
                         /\ popCv' = popCv \ {w} /\ pushCv' = pushCv \ {w}
  <2>1. PICK w \in cv : /\ call' = [call EXCEPT ![t].at = "idle", ![w].at = "lock"]
                        /\ popCv' = popCv \ {w} /\ pushCv' = pushCv \ {w}
    BY <1>6
  <2>2. /\ Control' /\ w \in Thread \ {t} /\ Awakes(w, cv, call[w].late)
        /\ call'[t].at = "idle" /\ call'[t].op = call[t].op
        /\ \A u \in Thread \ {t, w} : call'[u] = call[u]
    BY <1>4, <2>1
  <2>3. QED
    BY <1>1, <2>1, <2>2
<1>7. QED
  BY <1>3, <1>5, <1>6

\* A sleeper wakes up by itself.
LEMMA WakeControl ==
    ASSUME Control, NEW t \in Thread, Timeout(t) \/ Spurious(t)
    PROVE  /\ Control' /\ UNCHANGED <<queue, discarded, out, sent, handed, refused, dropped>>
           /\ Awakes(t, popCv \cup pushCv, TRUE) \/ Awakes(t, popCv \cup pushCv, call[t].late)
           /\ \A u \in Thread \ {t} : call'[u] = call[u]
           /\ popCv' = popCv \ {t} /\ pushCv' = pushCv \ {t}
<1>1. PICK late \in {TRUE, call[t].late} : WakeUp(t, late)
  BY DEF Timeout, Spurious
<1>2. /\ call[t].at = "waiting" /\ popCv' = popCv \ {t} /\ pushCv' = pushCv \ {t}
      /\ call' = [call EXCEPT ![t].at = "lock", ![t].late = late]
      /\ UNCHANGED <<queue, mutex, discarded, out, sent, handed, refused, dropped>>
  BY <1>1 DEF WakeUp
<1>3. call \in [Thread -> Call] /\ call[t] \in Call /\ late \in BOOLEAN
  <2>1. call \in [Thread -> Call]
    BY DEF Control, TypeInv
  <2>2. call[t] \in Call
    BY <2>1
  <2>3. QED
    BY <2>1, <2>2 DEF Call
<1> DEFINE c == [call[t] EXCEPT !.at = "lock", !.late = late]
<1>4. c \in Call /\ c.at = "lock" /\ c.op = call[t].op /\ c.late = late /\ c.pos = call[t].pos
  BY <1>3 DEF Call, Place, Unowned
<1>5. call' = [call EXCEPT ![t] = c]
  BY <1>2, <1>3
<1> HIDE DEF c
<1>6. call' \in [Thread -> Call] /\ call'[t] = c /\ \A u \in Thread \ {t} : call'[u] = call[u]
  BY <1>3, <1>4, <1>5
<1>7. Locked'
  BY <1>2, <1>4, <1>6 DEF Control, Locked
<1>8. Calling'
  BY <1>2, <1>4, <1>6 DEF Control, Calling, Unowned
<1>9. Sleeping'
  BY <1>2, <1>4, <1>6 DEF Control, Sleeping
<1>10. TypeInv' /\ Filled'
  BY <1>2, <1>6 DEF Control, TypeInv, Filled
<1>11. t \in popCv \cup pushCv
  BY <1>2 DEF Control, Calling, Sleeping
<1>12. QED
  BY <1>2, <1>4, <1>6, <1>7, <1>8, <1>9, <1>10, <1>11 DEF Control, Awakes

------------------------------------------------------------------------------
(* Counting the copies of an item.                                          *)

\* The number of copies is a natural number, and 0 only without a copy.
LEMMA CopiesType ==
    ASSUME NEW s \in Seq(Item), NEW x
    PROVE  /\ IsFiniteSet({i \in 1..Len(s) : s[i] = x})
           /\ CopiesIn(s, x) \in Nat
           /\ CopiesIn(s, x) = 0 <=> x \notin {s[i] : i \in 1..Len(s)}
<1> DEFINE P == {i \in 1..Len(s) : s[i] = x}
<1>1. IsFiniteSet(1..Len(s))
  BY FS_Interval
<1>2. IsFiniteSet(P)
  <2>1. P \in SUBSET (1..Len(s))
    OBVIOUS
  <2>2. QED
    BY <1>1, <2>1, FS_Subset
<1>3. CopiesIn(s, x) = Cardinality(P)
  BY DEF CopiesIn
<1>4. P = {} <=> x \notin {s[i] : i \in 1..Len(s)}
  OBVIOUS
<1> HIDE DEF P
<1>5. Cardinality(P) \in Nat /\ (Cardinality(P) = 0 <=> P = {})
  BY <1>2, FS_CardinalityType, FS_EmptySet
<1>6. QED
  BY <1>2, <1>3, <1>4, <1>5 DEF P

\* An appended item is one copy more.
LEMMA CopiesAppend ==
    ASSUME NEW s \in Seq(Item), NEW y \in Item, NEW x
    PROVE  CopiesIn(Append(s, y), x) = CopiesIn(s, x) + (IF y = x THEN 1 ELSE 0)
<1> DEFINE P == {i \in 1..Len(s) : s[i] = x}
           Q == {i \in 1..Len(Append(s, y)) : Append(s, y)[i] = x}
<1>1. IsFiniteSet(P) /\ Cardinality(P) \in Nat /\ CopiesIn(s, x) = Cardinality(P)
  BY CopiesType DEF CopiesIn
<1>2. CopiesIn(Append(s, y), x) = Cardinality(Q)
  BY DEF CopiesIn
<1>3. CASE y = x
  <2>1. Q = P \cup {Len(s) + 1} /\ Len(s) + 1 \notin P
    BY <1>3
  <2>2. Cardinality(Q) = Cardinality(P) + 1
    <3> HIDE DEF P, Q
    <3> QED  BY <1>1, <2>1, FS_AddElement
  <2>3. QED
    BY <1>1, <1>2, <1>3, <2>2
<1>4. CASE y # x
  <2>1. Q = P
    BY <1>4
  <2>2. CopiesIn(Append(s, y), x) = CopiesIn(s, x)
    <3> HIDE DEF P, Q
    <3> QED  BY <1>1, <1>2, <2>1
  <2>3. CopiesIn(s, x) \in Nat
    BY CopiesType
  <2>4. QED
    BY <1>4, <2>2, <2>3
<1>5. QED
  BY <1>3, <1>4

\* The head of a sequence is one copy.
LEMMA CopiesTail ==
    ASSUME NEW s \in Seq(Item), s # <<>>, NEW x
    PROVE  CopiesIn(s, x) = CopiesIn(Tail(s), x) + (IF Head(s) = x THEN 1 ELSE 0)
<1> DEFINE P == {i \in 1..Len(s) : s[i] = x}
           R == P \ {1}
           T == {i \in 1..Len(Tail(s)) : Tail(s)[i] = x}
           f == [i \in T |-> i + 1]
<1>1. IsFiniteSet(P) /\ Cardinality(P) \in Nat /\ CopiesIn(s, x) = Cardinality(P)
  BY CopiesType DEF CopiesIn
<1>2. IsFiniteSet(T) /\ Cardinality(T) \in Nat /\ CopiesIn(Tail(s), x) = Cardinality(T)
  <2>1. Tail(s) \in Seq(Item)
    OBVIOUS
  <2>2. QED
    BY <2>1, CopiesType DEF CopiesIn
<1>3. \A i \in T : i \in Nat \ {0} /\ i + 1 \in R
  OBVIOUS
<1>4. \A j \in R : j \in Nat /\ j - 1 \in T
  OBVIOUS
<1>5. 1 \in P <=> Head(s) = x
  OBVIOUS
<1> HIDE DEF T, P
<1>6. f \in Bijection(T, R)
  <2>1. f \in [T -> R]
    BY <1>3
  <2>2. \A i, j \in T : f[i] = f[j] => i = j
    BY <1>3
  <2>3. \A j \in R : \E i \in T : f[i] = j
    <3> TAKE j \in R
    <3>1. j - 1 \in T /\ j \in Nat
      BY <1>4
    <3>2. f[j - 1] = j
      BY <3>1
    <3>3. QED
      BY <3>1, <3>2
  <2>4. QED
    BY <2>1, <2>2, <2>3 DEF Bijection, Injection, Surjection, IsInjective
<1>7. Cardinality(R) = Cardinality(T)
  <2> HIDE DEF R, f
  <2> QED  BY <1>2, <1>6, FS_Bijection DEF ExistsBijection
<1>8. Cardinality(R) = IF 1 \in P THEN Cardinality(P) - 1 ELSE Cardinality(P)
  BY <1>1, FS_RemoveElement
<1>9. QED
  BY <1>1, <1>2, <1>5, <1>7, <1>8

------------------------------------------------------------------------------
(* Every item is in one place.                                              *)

\* t is inside the call that offers its last item, which is not in the queue
Pending(t) == call[t].op \in PutOps /\ call[t].at \in {"lock", "inside", "waiting"}

Once(x, S) == IF x \in S THEN 1 ELSE 0

Places(x) == CopiesIn(handed, x) + CopiesIn(Live, x) + Once(x, refused) + Once(x, dropped)

\* Accounted, without a set of places.
Account ==
    \A t \in Thread : \A k \in 1..MaxSent :
        Places(<<t, k>>) = IF k > sent[t] \/ (Pending(t) /\ k = sent[t]) THEN 0 ELSE 1

\* It says the same.
LEMMA AccountIsAccounted == ASSUME Control PROVE Account <=> Accounted
<1>1. ASSUME NEW x
      PROVE  Cardinality({s \in {1, 2} : x \in <<refused, dropped>>[s]}) = Once(x, refused) + Once(x, dropped)
  <2> DEFINE S == {s \in {1, 2} : x \in <<refused, dropped>>[s]}
  <2>1. S = (IF x \in refused THEN {1} ELSE {}) \cup (IF x \in dropped THEN {2} ELSE {})
    OBVIOUS
  <2>2. /\ Cardinality({}) = 0 /\ IsFiniteSet({})
        /\ Cardinality({1}) = 1 /\ Cardinality({2}) = 1 /\ IsFiniteSet({1})
    BY FS_EmptySet, FS_Singleton
  <2>3. Cardinality({1} \cup {2}) = 2
    BY <2>2, FS_AddElement
  <2> HIDE DEF S
  <2>4. CASE x \in refused /\ x \in dropped
    <3>1. S = {1} \cup {2}
      BY <2>1, <2>4
    <3>2. Cardinality(S) = 2
      BY <2>3, <3>1
    <3>3. Once(x, refused) = 1 /\ Once(x, dropped) = 1
      BY <2>4 DEF Once
    <3>4. QED
      BY <3>2, <3>3 DEF S
  <2>5. CASE x \in refused /\ x \notin dropped
    <3>1. S = {1}
      BY <2>1, <2>5
    <3>2. Cardinality(S) = 1
      BY <2>2, <3>1
    <3>3. Once(x, refused) = 1 /\ Once(x, dropped) = 0
      BY <2>5 DEF Once
    <3>4. QED
      BY <3>2, <3>3 DEF S
  <2>6. CASE x \notin refused /\ x \in dropped
    <3>1. S = {2}
      BY <2>1, <2>6
    <3>2. Cardinality(S) = 1
      BY <2>2, <3>1
    <3>3. Once(x, refused) = 0 /\ Once(x, dropped) = 1
      BY <2>6 DEF Once
    <3>4. QED
      BY <3>2, <3>3 DEF S
  <2>7. CASE x \notin refused /\ x \notin dropped
    <3>1. S = {}
      BY <2>1, <2>7
    <3>2. Cardinality(S) = 0
      BY <2>2, <3>1
    <3>3. Once(x, refused) = 0 /\ Once(x, dropped) = 0
      BY <2>7 DEF Once
    <3>4. QED
      BY <3>2, <3>3 DEF S
  <2>8. QED
    BY <2>4, <2>5, <2>6, <2>7
<1>2. \A t \in Thread : \A k \in 1..MaxSent : Offering(t, k) <=> Pending(t) /\ k = sent[t]
  BY DEF Offering, Pending
<1>3. ASSUME NEW x
      PROVE  Places(x) = CopiesIn(handed, x) + CopiesIn(Contents(queue), x)
                         + Cardinality({s \in {1, 2} : x \in <<refused, dropped>>[s]})
  <2>1. CopiesIn(handed, x) \in Nat /\ CopiesIn(Live, x) \in Nat
    BY CopiesType DEF Control, TypeInv, Filled, Live
  <2>2. Once(x, refused) \in Nat /\ Once(x, dropped) \in Nat
    BY DEF Once
  <2>3. QED
    BY <1>1, <2>1, <2>2 DEF Places, Live
<1>4. QED
  BY <1>2, <1>3 DEF Account, Accounted

\* The number of places of an item is a natural number.
LEMMA PlacesType ==
    ASSUME Control, NEW x
    PROVE  /\ CopiesIn(handed, x) \in Nat /\ CopiesIn(Live, x) \in Nat
           /\ Once(x, refused) \in {0, 1} /\ Once(x, dropped) \in {0, 1}
           /\ Places(x) \in Nat
<1>1. CopiesIn(handed, x) \in Nat /\ CopiesIn(Live, x) \in Nat
  BY CopiesType DEF Control, TypeInv, Filled, Live
<1>2. Once(x, refused) \in {0, 1} /\ Once(x, dropped) \in {0, 1}
  BY DEF Once
<1>3. QED
  BY <1>1, <1>2 DEF Places

\* A step that moves items at most from place to place, and begins or ends no
\* offer, keeps the account.
LEMMA AccountMoved ==
    ASSUME Account, UNCHANGED sent, \A u \in Thread : Pending(u)' <=> Pending(u),
           \A u \in Thread, k \in 1..MaxSent : Places(<<u, k>>)' = Places(<<u, k>>)
    PROVE  Account'
<1> SUFFICES ASSUME NEW u \in Thread, NEW k \in 1..MaxSent
             PROVE  Places(<<u, k>>)' = IF k > sent[u] \/ (Pending(u)' /\ k = sent[u]) THEN 0 ELSE 1
  BY DEF Account
<1>1. Places(<<u, k>>) = IF k > sent[u] \/ (Pending(u) /\ k = sent[u]) THEN 0 ELSE 1
  BY DEF Account
<1>2. Places(<<u, k>>)' = Places(<<u, k>>) /\ (Pending(u)' <=> Pending(u))
  OBVIOUS
<1>3. QED
  BY <1>1, <1>2

\* The end of an offer: the item of t has a place now.
LEMMA AccountOffered ==
    ASSUME Control, Account, NEW t \in Thread, UNCHANGED sent, Pending(t), ~ Pending(t)',
           \A u \in Thread \ {t} : Pending(u)' <=> Pending(u),
           \A u \in Thread, k \in 1..MaxSent :
               Places(<<u, k>>)' = Places(<<u, k>>) + (IF <<u, k>> = Offer(t) THEN 1 ELSE 0)
    PROVE  Account'
<1> SUFFICES ASSUME NEW u \in Thread, NEW k \in 1..MaxSent
             PROVE  Places(<<u, k>>)' = IF k > sent[u] \/ (Pending(u)' /\ k = sent[u]) THEN 0 ELSE 1
  BY DEF Account
<1>1. Places(<<u, k>>) = IF k > sent[u] \/ (Pending(u) /\ k = sent[u]) THEN 0 ELSE 1
  BY DEF Account
<1>2. sent[u] \in Nat /\ k \in Nat
  BY ThreadAssumption DEF Control, TypeInv
<1>3. Places(<<u, k>>)' = Places(<<u, k>>) + (IF u = t /\ k = sent[t] THEN 1 ELSE 0)
  BY DEF Offer
<1>4. CASE u = t
  BY <1>1, <1>2, <1>3, <1>4
<1>5. CASE u # t
  BY <1>1, <1>2, <1>3, <1>5
<1>6. QED
  BY <1>4, <1>5

\* Who is pending after t went from place to place.
LEMMA PendingMoved ==
    ASSUME Control, NEW t \in Thread, NEW place \in Place, call' = [call EXCEPT ![t].at = place]
    PROVE  /\ Pending(t)' <=> call[t].op \in PutOps /\ place \in {"lock", "inside", "waiting"}
           /\ \A u \in Thread \ {t} : Pending(u)' <=> Pending(u)
BY Moved DEF Control, TypeInv, Pending

\* What an item that is offered has not: a place.
LEMMA OfferNowhere ==
    ASSUME Control, Account, NEW t \in Thread, Pending(t)
    PROVE  /\ Offer(t) \in Item
           /\ Offer(t) \notin refused
           /\ Offer(t) \notin {handed[i] : i \in 1..Len(handed)}
           /\ Offer(t) \notin {Live[i] : i \in 1..Len(Live)}
<1>1. Offer(t) \in Item
  BY OfferItem DEF Pending
<1>2. sent[t] \in 1..MaxSent /\ Offer(t) = <<t, sent[t]>>
  BY <1>1, ThreadAssumption DEF Control, TypeInv, Calling, Pending, Offer
<1>3. Places(Offer(t)) = 0
  BY <1>2 DEF Account
<1>4. CopiesIn(handed, Offer(t)) = 0 /\ CopiesIn(Live, Offer(t)) = 0 /\ Once(Offer(t), refused) = 0
  BY <1>3, PlacesType DEF Places
<1>5. handed \in Seq(Item) /\ Live \in Seq(Item)
  BY DEF Control, TypeInv, Filled, Live
<1>6. Offer(t) \notin {handed[i] : i \in 1..Len(handed)}
  BY <1>4, <1>5, CopiesType
<1>7. Offer(t) \notin {Live[i] : i \in 1..Len(Live)}
  BY <1>4, <1>5, CopiesType
<1>8. QED
  BY <1>1, <1>4, <1>6, <1>7 DEF Once

\* An item in the queue is there once, and was not thrown away.
LEMMA LiveOnce ==
    ASSUME Control, Account, NEW i \in 1..Len(Live)
    PROVE  Live[i] \in Item /\ CopiesIn(Live, Live[i]) = 1 /\ Live[i] \notin dropped
<1> DEFINE x == Live[i]
<1>1. Live \in Seq(Item) /\ x \in Item
  BY DEF Control, Filled, Live
<1>2. PICK u \in Thread, k \in 1..MaxSent : x = <<u, k>>
  BY <1>1, ThreadAssumption
<1>3. Places(<<u, k>>) \in {0, 1}
  BY DEF Account
<1>4. x \in {Live[j] : j \in 1..Len(Live)}
  OBVIOUS
<1> HIDE DEF x
<1>5. CopiesIn(Live, x) # 0
  BY <1>1, <1>4, CopiesType
<1>6. CopiesIn(Live, x) = 1 /\ Once(x, dropped) = 0
  BY <1>2, <1>3, <1>5, PlacesType DEF Places
<1>7. QED
  BY <1>1, <1>6 DEF x, Once

\* Every body keeps the account.
LEMMA BodyAccount ==
    ASSUME Control, Account, NEW t \in Thread, Outcome(t)
    PROVE  Account'
<1>1. /\ call[t].at = "inside" /\ call[t].op \in PutOps => Pending(t)
      /\ Live \in Seq(Item) /\ handed \in Seq(Item)
  BY DEF Outcome, Control, TypeInv, Filled, Live, Pending
<1>2. ASSUME NEW place \in {"idle", "notify_pop", "notify_push", "waiting"}, Unlock(t, place)
      PROVE  /\ Pending(t)' <=> call[t].op \in PutOps /\ place = "waiting"
             /\ \A u \in Thread \ {t} : Pending(u)' <=> Pending(u)
  BY <1>2, PendingMoved DEF Unlock, Place, Unowned
<1>3. CASE Puts(t)
  <2>1. Offer(t) \in Item /\ Pending(t) /\ ~ Pending(t)' /\ \A u \in Thread \ {t} : Pending(u)' <=> Pending(u)
    <3>1. Pending(t) /\ Unlock(t, "notify_pop")
      BY <1>1, <1>3 DEF Puts, Outcome
    <3>2. Offer(t) \in Item
      BY <3>1, OfferNowhere
    <3>3. QED
      BY <1>2, <3>1, <3>2 DEF Pending
  <2>2. ASSUME NEW x
        PROVE  Places(x)' = Places(x) + (IF x = Offer(t) THEN 1 ELSE 0)
    <3>1. CopiesIn(Append(Live, Offer(t)), x) = CopiesIn(Live, x) + (IF Offer(t) = x THEN 1 ELSE 0)
      BY <1>1, <2>1, CopiesAppend
    <3>2. Live' = Append(Live, Offer(t)) /\ UNCHANGED <<handed, refused, dropped>>
      BY <1>3 DEF Puts
    <3>3. QED
      <4>1. Places(x)' = CopiesIn(handed, x) + CopiesIn(Append(Live, Offer(t)), x) + Once(x, refused) + Once(x, dropped)
        BY <3>2 DEF Places, CopiesIn, Once
      <4>2. QED
        BY <3>1, <4>1, PlacesType DEF Places
  <2>3. sent' = sent
    BY <1>3 DEF Puts
  <2>4. QED
    BY <2>1, <2>2, <2>3, AccountOffered
<1>4. CASE Refuses(t)
  <2>1. Pending(t) /\ ~ Pending(t)' /\ \A u \in Thread \ {t} : Pending(u)' <=> Pending(u)
    <3>1. Pending(t) /\ Unlock(t, "idle")
      BY <1>1, <1>4 DEF Refuses, Outcome
    <3>2. QED
      BY <1>2, <3>1 DEF Pending
  <2>2. Offer(t) \notin refused
    BY <2>1, OfferNowhere
  <2>3. ASSUME NEW x
        PROVE  Places(x)' = Places(x) + (IF x = Offer(t) THEN 1 ELSE 0)
    <3>1. refused' = refused \cup {Offer(t)} /\ UNCHANGED <<queue, handed, dropped>>
      BY <1>4 DEF Refuses
    <3>2. Once(x, refused') = Once(x, refused) + (IF x = Offer(t) THEN 1 ELSE 0)
      BY <2>2, <3>1 DEF Once
    <3>3. QED
      BY <3>1, <3>2, PlacesType DEF Places, CopiesIn, Live, Once
  <2>4. sent' = sent
    BY <1>4 DEF Refuses
  <2>5. QED
    BY <2>1, <2>3, <2>4, AccountOffered
<1>5. CASE Overwrites(t)
  <2>1. Offer(t) \in Item /\ Pending(t) /\ ~ Pending(t)' /\ \A u \in Thread \ {t} : Pending(u)' <=> Pending(u)
    <3>1. Pending(t) /\ Unlock(t, "notify_pop")
      BY <1>1, <1>5 DEF Overwrites, PutOps, Outcome
    <3>2. Offer(t) \in Item
      BY <3>1, OfferNowhere
    <3>3. QED
      BY <1>2, <3>1, <3>2 DEF Pending
  <2>2. Live # <<>> /\ Tail(Live) \in Seq(Item) /\ Head(Live) = Live[1] /\ 1 \in 1..Len(Live)
    BY <1>1, <1>5 DEF Overwrites
  <2>3. Head(Live) \notin dropped
    BY <2>2, LiveOnce
  <2>4. ASSUME NEW x
        PROVE  Places(x)' = Places(x) + (IF x = Offer(t) THEN 1 ELSE 0)
    <3>1. /\ CopiesIn(Append(Tail(Live), Offer(t)), x) = CopiesIn(Tail(Live), x) + (IF Offer(t) = x THEN 1 ELSE 0)
          /\ CopiesIn(Live, x) = CopiesIn(Tail(Live), x) + (IF Head(Live) = x THEN 1 ELSE 0)
          /\ CopiesIn(Tail(Live), x) \in Nat
      <4>1. CopiesIn(Append(Tail(Live), Offer(t)), x) = CopiesIn(Tail(Live), x) + (IF Offer(t) = x THEN 1 ELSE 0)
        BY <2>1, <2>2, CopiesAppend
      <4>2. CopiesIn(Live, x) = CopiesIn(Tail(Live), x) + (IF Head(Live) = x THEN 1 ELSE 0)
        BY <1>1, <2>2, CopiesTail
      <4>3. CopiesIn(Tail(Live), x) \in Nat
        BY <2>2, CopiesType
      <4>4. QED
        BY <4>1, <4>2, <4>3
    <3>2. /\ Live' = Append(Tail(Live), Offer(t)) /\ UNCHANGED <<handed, refused>>
          /\ dropped' = dropped \cup {Head(Live)}
      BY <1>5 DEF Overwrites
    <3>3. Once(x, dropped') = Once(x, dropped) + (IF Head(Live) = x THEN 1 ELSE 0)
      BY <2>3, <3>2 DEF Once
    <3>4. Places(x)' = CopiesIn(handed, x) + CopiesIn(Append(Tail(Live), Offer(t)), x) + Once(x, refused) + Once(x, dropped')
      BY <3>2 DEF Places, CopiesIn, Once
    <3>5. QED
      BY <3>1, <3>3, <3>4, PlacesType DEF Places
  <2>5. sent' = sent
    BY <1>5 DEF Overwrites
  <2>6. QED
    BY <2>1, <2>4, <2>5, AccountOffered
<1>6. CASE Takes(t)
  <2>1. \A u \in Thread : Pending(u)' <=> Pending(u)
    <3>1. call[t].op \notin PutOps
      BY <1>6 DEF Takes, TakeWaits, PutOps
    <3>2. QED
      BY <1>2, <1>6, <3>1 DEF Takes, Pending
  <2>2. Live # <<>> /\ Tail(Live) \in Seq(Item) /\ Head(Live) \in Item
    BY <1>1, <1>6 DEF Takes
  <2>3. ASSUME NEW x PROVE Places(x)' = Places(x)
    <3>1. /\ CopiesIn(Append(handed, Head(Live)), x) = CopiesIn(handed, x) + (IF Head(Live) = x THEN 1 ELSE 0)
          /\ CopiesIn(Live, x) = CopiesIn(Tail(Live), x) + (IF Head(Live) = x THEN 1 ELSE 0)
          /\ CopiesIn(Tail(Live), x) \in Nat
      <4>1. CopiesIn(Append(handed, Head(Live)), x) = CopiesIn(handed, x) + (IF Head(Live) = x THEN 1 ELSE 0)
        BY <1>1, <2>2, CopiesAppend
      <4>2. CopiesIn(Live, x) = CopiesIn(Tail(Live), x) + (IF Head(Live) = x THEN 1 ELSE 0)
        BY <1>1, <2>2, CopiesTail
      <4>3. CopiesIn(Tail(Live), x) \in Nat
        BY <2>2, CopiesType
      <4>4. QED
        BY <4>1, <4>2, <4>3
    <3>2. Live' = Tail(Live) /\ handed' = Append(handed, Head(Live)) /\ UNCHANGED <<refused, dropped>>
      BY <1>6 DEF Takes
    <3>3. Places(x)' = CopiesIn(Append(handed, Head(Live)), x) + CopiesIn(Tail(Live), x) + Once(x, refused) + Once(x, dropped)
      BY <3>2 DEF Places, CopiesIn, Once
    <3>4. QED
      BY <3>1, <3>3, PlacesType DEF Places
  <2>4. sent' = sent
    BY <1>6 DEF Takes
  <2>5. QED
    BY <2>1, <2>3, <2>4, AccountMoved
<1>7. CASE Clears(t)
  <2>1. \A u \in Thread : Pending(u)' <=> Pending(u)
    <3>1. call[t].op \notin PutOps
      BY <1>7 DEF Clears, PutOps
    <3>2. QED
      BY <1>2, <1>7, <3>1 DEF Clears, Pending
  <2>2. ASSUME NEW x PROVE Places(x)' = Places(x)
    <3>1. Live' = <<>> /\ UNCHANGED <<handed, refused>> /\ dropped' = dropped \cup {Live[i] : i \in 1..Len(Live)}
      BY <1>7 DEF Clears
    <3>2. CopiesIn(<<>>, x) = 0
      <4>1. <<>> \in Seq(Item) /\ x \notin {<<>>[i] : i \in 1..Len(<<>>)}
        OBVIOUS
      <4>2. QED
        BY <4>1, CopiesType
    <3>3. Once(x, dropped') = Once(x, dropped) + CopiesIn(Live, x)
      <4>1. CASE x \in {Live[i] : i \in 1..Len(Live)}
        <5>1. PICK i \in 1..Len(Live) : x = Live[i]
          BY <4>1
        <5>2. CopiesIn(Live, x) = 1 /\ x \notin dropped
          BY <5>1, LiveOnce
        <5>3. QED
          BY <3>1, <4>1, <5>2 DEF Once
      <4>2. CASE x \notin {Live[i] : i \in 1..Len(Live)}
        <5>1. CopiesIn(Live, x) = 0
          BY <1>1, <4>2, CopiesType
        <5>2. QED
          BY <3>1, <4>2, <5>1 DEF Once
      <4>3. QED
        BY <4>1, <4>2
    <3>4. Places(x)' = CopiesIn(handed, x) + CopiesIn(<<>>, x) + Once(x, refused) + Once(x, dropped')
      BY <3>1 DEF Places, CopiesIn, Once
    <3>5. QED
      BY <3>2, <3>3, <3>4, PlacesType DEF Places
  <2>3. sent' = sent
    BY <1>7 DEF Clears
  <2>4. QED
    BY <2>1, <2>2, <2>3, AccountMoved
<1>8. CASE Sleeps(t) \/ Leaves(t)
  <2>1. \A u \in Thread : Pending(u)' <=> Pending(u)
    <3>1. /\ call[t].op \in PutOps => Unlock(t, "waiting")
          /\ Unlock(t, "waiting") \/ Unlock(t, "idle")
      BY <1>8 DEF Sleeps, Leaves, TakeWaits, PutOps
    <3>2. call[t].at = "inside" /\ (call[t].op \in PutOps => Pending(t))
      BY <1>1 DEF Outcome
    <3>3. CASE Unlock(t, "waiting")
      BY <1>2, <3>2, <3>3 DEF Pending
    <3>4. CASE Unlock(t, "idle") /\ call[t].op \notin PutOps
      BY <1>2, <3>4 DEF Pending
    <3>5. QED
      BY <3>1, <3>3, <3>4
  <2>2. UNCHANGED <<queue, sent, handed, refused, dropped>>
    BY <1>8 DEF Sleeps, Leaves
  <2>3. QED
    BY <2>1, <2>2, AccountMoved DEF Places, CopiesIn, Live, Once
<1>9. QED
  BY <1>3, <1>4, <1>5, <1>6, <1>7, <1>8 DEF Outcome

\* A queue just constructed holds and has handed out nothing.
LEMMA InitAccount == Init => Account /\ InOrder
<1> SUFFICES ASSUME Init PROVE Account /\ InOrder
  OBVIOUS
<1>1. Control
  BY InitControl
<1>2. handed = <<>> /\ refused = {} /\ dropped = {} /\ sent = [t \in Thread |-> 0]
  BY DEF Init
<1>3. Live = <<>>
  BY RingAssumption DEF Init, EmptyRing, Ring, Slot, Size, Live, Contents
<1>4. ASSUME NEW x PROVE Places(x) = 0
  <2>1. <<>> \in Seq(Item) /\ x \notin {<<>>[i] : i \in 1..Len(<<>>)}
    OBVIOUS
  <2>2. CopiesIn(<<>>, x) = 0
    BY <2>1, CopiesType
  <2>3. Once(x, {}) = 0
    BY DEF Once
  <2>4. QED
    BY <1>2, <1>3, <2>2, <2>3 DEF Places
<1>5. Account
  BY <1>2, <1>4 DEF Account
<1>6. InOrder
  BY <1>2, <1>3 DEF InOrder, Chain, Live
<1>7. QED
  BY <1>5, <1>6

\* A call that begins offers an item that has no place.
LEMMA BeginAccount ==
    ASSUME Control, Account, NEW t \in Thread, NEW op \in Op, Begin(t, op)
    PROVE  Account'
<1>1. /\ call[t].at = "idle" /\ call'[t].at = "lock" /\ call'[t].op = op
      /\ \A u \in Thread \ {t} : call'[u] = call[u] /\ sent'[u] = sent[u]
      /\ sent'[t] = IF op \in PutOps THEN sent[t] + 1 ELSE sent[t]
  BY BeginControl
<1>2. UNCHANGED <<queue, handed, refused, dropped>>
  BY DEF Begin
<1> SUFFICES ASSUME NEW u \in Thread, NEW k \in 1..MaxSent
             PROVE  Places(<<u, k>>)' = IF k > sent'[u] \/ (Pending(u)' /\ k = sent'[u]) THEN 0 ELSE 1
  BY DEF Account
<1>3. Places(<<u, k>>)' = Places(<<u, k>>)
  BY <1>2 DEF Places, CopiesIn, Live, Once
<1>4. Places(<<u, k>>) = IF k > sent[u] \/ (Pending(u) /\ k = sent[u]) THEN 0 ELSE 1
  BY DEF Account
<1>5. sent[u] \in Nat /\ k \in Nat
  BY ThreadAssumption DEF Control, TypeInv
<1>6. CASE u = t
  BY <1>1, <1>3, <1>4, <1>5, <1>6 DEF Pending
<1>7. CASE u # t
  BY <1>1, <1>3, <1>4, <1>7 DEF Pending
<1>8. QED
  BY <1>6, <1>7

\* The steps that take or ask for the mutex.
LEMMA LockAccount ==
    ASSUME Control, Account, LockedOnly, NEW t \in Thread, Lock(t) \/ TryLock(t)
    PROVE  Account'
<1>1. call[t].at = "lock" /\ UNCHANGED <<queue, sent, handed, dropped>>
  BY DEF Lock, TryLock
<1>2. CASE call' = [call EXCEPT ![t].at = "inside"] /\ UNCHANGED refused
  <2>1. \A u \in Thread : Pending(u)' <=> Pending(u)
    BY <1>1, <1>2, PendingMoved DEF Place, Unowned, Pending
  <2>2. QED
    BY <1>1, <1>2, <2>1, AccountMoved DEF Places, CopiesIn, Live, Once
<1>3. CASE call[t].op = "enqueue_try" /\ call' = [call EXCEPT ![t].at = "idle"] /\ refused' = refused \cup {Offer(t)}
  <2>0. "idle" \in Place
    BY DEF Place
  <2>1. Pending(t) /\ ~ Pending(t)' /\ \A u \in Thread \ {t} : Pending(u)' <=> Pending(u)
    BY <1>1, <1>3, <2>0, PendingMoved DEF Pending, PutOps
  <2>2. Offer(t) \notin refused
    BY <2>1, OfferNowhere
  <2>3. ASSUME NEW x
        PROVE  Places(x)' = Places(x) + (IF x = Offer(t) THEN 1 ELSE 0)
    <3>1. Once(x, refused') = Once(x, refused) + (IF x = Offer(t) THEN 1 ELSE 0)
      BY <1>3, <2>2 DEF Once
    <3>2. QED
      BY <1>1, <3>1, PlacesType DEF Places, CopiesIn, Live, Once
  <2>4. QED
    BY <1>1, <2>1, <2>3, AccountOffered
<1>4. QED
  BY <1>2, <1>3, LockControl

\* Notifies and wake-ups.
LEMMA WakeAccount ==
    ASSUME Control, Account, NEW t \in Thread, Notify(t) \/ Timeout(t) \/ Spurious(t)
    PROVE  Account'
<1>1. UNCHANGED <<queue, sent, handed, refused, dropped>>
  BY DEF Notify, NotifyPop, NotifyPush, Timeout, Spurious, WakeUp
<1>2. \A u \in Thread : Pending(u)' <=> Pending(u)
  <2>1. CASE Notify(t)
    <3>1. call[t].at \in {"notify_pop", "notify_push"} /\ call'[t].at = "idle"
      BY <2>1, NotifyControl
    <3>2. \/ \A u \in Thread \ {t} : call'[u] = call[u]
          \/ \E w \in Thread \ {t} :
                 /\ call[w].at = "waiting" /\ call'[w].at = "lock" /\ call'[w].op = call[w].op
                 /\ \A u \in Thread \ {t, w} : call'[u] = call[u]
      BY <2>1, NotifyControl DEF Awakes
    <3>3. QED
      BY <3>1, <3>2 DEF Pending
  <2>2. CASE Timeout(t) \/ Spurious(t)
    <3>1. /\ call[t].at = "waiting" /\ call'[t].at = "lock" /\ call'[t].op = call[t].op
          /\ \A u \in Thread \ {t} : call'[u] = call[u]
      BY <2>2, WakeControl DEF Awakes
    <3>2. QED
      BY <3>1 DEF Pending
  <2>3. QED
    BY <2>1, <2>2
<1>3. QED
  BY <1>1, <1>2, AccountMoved DEF Places, CopiesIn, Live, Once

------------------------------------------------------------------------------
(* The items of one producer stay in order.                                 *)

\* What stands in order within s stands in order in what is left of s.
LEMMA ChainPart ==
    ASSUME NEW s \in Seq(Item), NEW r \in Seq(Item), Chain(s),
           NEW f \in [1..Len(r) -> 1..Len(s)],
           \A i, j \in 1..Len(r) : i < j => f[i] < f[j],
           \A i \in 1..Len(r) : r[i] = s[f[i]]
    PROVE  Chain(r)
<1> SUFFICES ASSUME NEW i \in 1..Len(r), NEW j \in 1..Len(r), i < j, r[i][1] = r[j][1]
             PROVE  r[i][2] < r[j][2]
  BY DEF Chain
<1>1. f[i] \in 1..Len(s) /\ f[j] \in 1..Len(s) /\ f[i] < f[j] /\ r[i] = s[f[i]] /\ r[j] = s[f[j]]
  OBVIOUS
<1>2. QED
  BY <1>1 DEF Chain

\* A later item may follow.
LEMMA ChainAppend ==
    ASSUME NEW s \in Seq(Item), NEW y \in Item, Chain(s),
           \A i \in 1..Len(s) : s[i][1] = y[1] => s[i][2] < y[2]
    PROVE  Chain(Append(s, y))
<1> DEFINE r == Append(s, y)
<1>1. Len(r) = Len(s) + 1 /\ Len(s) \in Nat /\ r[Len(s) + 1] = y /\ \A i \in 1..Len(s) : r[i] = s[i]
  OBVIOUS
<1> HIDE DEF r
<1>2. Chain(r)
  <2> SUFFICES ASSUME NEW i \in 1..Len(r), NEW j \in 1..Len(r), i < j, r[i][1] = r[j][1]
               PROVE  r[i][2] < r[j][2]
    BY DEF Chain
  <2>1. CASE j = Len(s) + 1
    BY <1>1, <2>1
  <2>2. CASE j \in 1..Len(s)
    BY <1>1, <2>2 DEF Chain
  <2>3. QED
    BY <1>1, <2>1, <2>2
<1>3. QED
  BY <1>2 DEF r

\* The item that t offers is later than those of t that were accepted.
LEMMA OfferLater ==
    ASSUME Control, Account, NEW t \in Thread, Pending(t), NEW s, s \in {handed, Live}, NEW i \in 1..Len(s),
           s[i][1] = Offer(t)[1]
    PROVE  s[i][2] < Offer(t)[2]
<1>1. s \in Seq(Item) /\ handed \in Seq(Item) /\ Live \in Seq(Item) /\ s[i] \in Item
  BY DEF Control, TypeInv, Filled, Live
<1>2. PICK u \in Thread, k \in 1..MaxSent : s[i] = <<u, k>>
  <2>1. s[i] \in Thread \X (1..MaxSent)
    BY <1>1, ThreadAssumption
  <2>2. QED
    BY <2>1
<1>3. u = t /\ Offer(t)[2] = sent[t] /\ s[i][2] = k
  BY <1>2 DEF Offer
<1>4. CopiesIn(s, s[i]) # 0
  <2>1. s[i] \in {s[j] : j \in 1..Len(s)}
    OBVIOUS
  <2>2. QED
    BY <1>1, <2>1, CopiesType
<1>5. Places(<<u, k>>) # 0
  BY <1>2, <1>4, PlacesType DEF Places
<1>6. ~ (k > sent[t] \/ k = sent[t])
  BY <1>3, <1>5 DEF Account
<1>7. k \in Nat /\ sent[t] \in Nat
  BY ThreadAssumption DEF Control, TypeInv
<1>8. QED
  BY <1>3, <1>6, <1>7

\* Every body keeps the order.
LEMMA BodyOrder ==
    ASSUME Control, Account, InOrder, NEW t \in Thread, Outcome(t)
    PROVE  InOrder'
<1> DEFINE s == handed \o Live
<1>1. /\ Live \in Seq(Item) /\ handed \in Seq(Item) /\ Live' \in Seq(Item) /\ handed' \in Seq(Item)
      /\ Chain(s) /\ s \in Seq(Item)
  <2>1. Control'
    BY BodyControl
  <2>2. Live \in Seq(Item) /\ handed \in Seq(Item) /\ Live' \in Seq(Item) /\ handed' \in Seq(Item)
    BY <2>1 DEF Control, TypeInv, Filled, Live
  <2>3. QED
    BY <2>2 DEF InOrder, Live
<1>2. /\ Len(s) = Len(handed) + Len(Live)
      /\ \A i \in 1..Len(s) : s[i] = IF i <= Len(handed) THEN handed[i] ELSE Live[i - Len(handed)]
  BY <1>1
<1>3. Chain(handed' \o Live') => InOrder'
  BY DEF InOrder, Live, Chain
<1>4. ASSUME Pending(t) PROVE \A i \in 1..Len(s) : s[i][1] = Offer(t)[1] => s[i][2] < Offer(t)[2]
  <2> SUFFICES ASSUME NEW i \in 1..Len(s), s[i][1] = Offer(t)[1] PROVE s[i][2] < Offer(t)[2]
    OBVIOUS
  <2>1. CASE i <= Len(handed)
    <3>1. i \in 1..Len(handed) /\ s[i] = handed[i]
      BY <1>1, <1>2, <2>1
    <3> HIDE DEF s
    <3>2. QED
      BY <1>4, <3>1, OfferLater
  <2>2. CASE i > Len(handed)
    <3>1. i - Len(handed) \in 1..Len(Live) /\ s[i] = Live[i - Len(handed)]
      BY <1>1, <1>2, <2>2
    <3> HIDE DEF s
    <3>2. QED
      BY <1>4, <3>1, OfferLater
  <2>3. QED
    BY <1>1, <2>1, <2>2
<1>5. ASSUME Offer(t) \in Item, Live' = Append(Live, Offer(t)), handed' = handed, Pending(t)
      PROVE  InOrder'
  <2>1. handed' \o Live' = Append(s, Offer(t))
    BY <1>1, <1>5
  <2>2. Chain(Append(s, Offer(t)))
    <3> HIDE DEF s
    <3> QED  BY <1>1, <1>4, <1>5, ChainAppend
  <2>3. QED
    BY <1>3, <2>1, <2>2
<1>6. CASE Puts(t)
  BY <1>5, <1>6, OfferNowhere DEF Puts, Outcome, Pending
<1>7. CASE Overwrites(t)
  <2>1. Pending(t) /\ Live # <<>> /\ Live' = Append(Tail(Live), Offer(t)) /\ handed' = handed
    BY <1>7 DEF Overwrites, Outcome, Pending, PutOps
  <2> DEFINE r == handed \o Tail(Live)
             f == [i \in 1..Len(r) |-> IF i <= Len(handed) THEN i ELSE i + 1]
  <2>2. /\ r \in Seq(Item) /\ Len(r) = Len(s) - 1 /\ Len(r) \in Nat /\ Len(handed) \in Nat
        /\ \A i \in 1..Len(r) : r[i] = IF i <= Len(handed) THEN s[i] ELSE s[i + 1]
    BY <1>1, <2>1
  <2> HIDE DEF r, s
  <2>3. f \in [1..Len(r) -> 1..Len(s)] /\ \A i \in 1..Len(r) : r[i] = s[f[i]]
    BY <2>2
  <2>4. \A i, j \in 1..Len(r) : i < j => f[i] < f[j]
    BY <2>2
  <2>5. Chain(r)
    <3> HIDE DEF f
    <3> QED  BY <1>1, <2>2, <2>3, <2>4, ChainPart
  <2>6. \A i \in 1..Len(r) : r[i][1] = Offer(t)[1] => r[i][2] < Offer(t)[2]
    <3> SUFFICES ASSUME NEW i \in 1..Len(r), r[i][1] = Offer(t)[1] PROVE r[i][2] < Offer(t)[2]
      OBVIOUS
    <3> HIDE DEF f
    <3>1. f[i] \in 1..Len(s) /\ r[i] = s[f[i]]
      BY <2>3
    <3>2. QED
      BY <1>4, <2>1, <3>1
  <2>7. Chain(Append(r, Offer(t)))
    BY <2>1, <2>2, <2>5, <2>6, ChainAppend, OfferNowhere
  <2>8. handed' \o Live' = Append(r, Offer(t))
    BY <1>1, <2>1, OfferNowhere DEF r
  <2>9. QED
    BY <1>3, <2>7, <2>8
<1>8. CASE Takes(t)
  <2>1. Live # <<>> /\ Live' = Tail(Live) /\ handed' = Append(handed, Head(Live))
    BY <1>8 DEF Takes
  <2> DEFINE r == handed' \o Live'
             f == [i \in 1..Len(r) |-> i]
  <2>2. r \in Seq(Item) /\ Len(r) = Len(s) /\ \A i \in 1..Len(r) : r[i] = s[i]
    BY <1>1, <2>1
  <2> HIDE DEF r, s
  <2>3. /\ f \in [1..Len(r) -> 1..Len(s)] /\ \A i \in 1..Len(r) : r[i] = s[f[i]]
        /\ \A i, j \in 1..Len(r) : i < j => f[i] < f[j]
    BY <2>2
  <2>4. Chain(r)
    <3> HIDE DEF f
    <3> QED  BY <1>1, <2>2, <2>3, ChainPart
  <2>5. QED
    BY <1>3, <2>4 DEF r
<1>9. CASE Clears(t)
  <2>1. handed' = handed /\ Live' = <<>>
    BY <1>9 DEF Clears
  <2> DEFINE f == [i \in 1..Len(handed) |-> i]
  <2>2. /\ handed' \o Live' = handed /\ Len(handed) \in Nat /\ Len(handed) <= Len(s)
        /\ \A i \in 1..Len(handed) : handed[i] = s[i]
    BY <1>1, <1>2, <2>1
  <2> HIDE DEF s
  <2>3. /\ f \in [1..Len(handed) -> 1..Len(s)] /\ \A i \in 1..Len(handed) : handed[i] = s[f[i]]
        /\ \A i, j \in 1..Len(handed) : i < j => f[i] < f[j]
    BY <1>1, <2>2
  <2>4. Chain(handed)
    <3> HIDE DEF f
    <3> QED  BY <1>1, <2>3, ChainPart
  <2>5. QED
    BY <1>3, <2>2, <2>4
<1>10. CASE Refuses(t) \/ Sleeps(t) \/ Leaves(t)
  <2>1. UNCHANGED <<queue, handed>>
    BY <1>10 DEF Refuses, Sleeps, Leaves
  <2>2. QED
    BY <2>1 DEF InOrder, Chain
<1>11. QED
  BY <1>6, <1>7, <1>8, <1>9, <1>10 DEF Outcome

------------------------------------------------------------------------------
(* The invariant of the specification.                                      *)

IInv == Control /\ Account /\ InOrder /\ DiscardsRefused

\* There are as many items as threads times what each may offer.
LEMMA RefusedFinite ==
    ASSUME Control
    PROVE  /\ IsFiniteSet(refused) /\ Cardinality(refused) \in Nat
           /\ Cardinality(Thread) \in Nat
           /\ Cardinality(refused) <= MaxSent * Cardinality(Thread)
<1>1. refused \subseteq Thread \X (1..MaxSent) /\ IsFiniteSet(Thread) /\ MaxSent \in Nat
  BY ThreadAssumption DEF Control, TypeInv
<1>2. IsFiniteSet(1..MaxSent) /\ Cardinality(1..MaxSent) = MaxSent
  BY <1>1, FS_Interval
<1>3. /\ IsFiniteSet(Thread \X (1..MaxSent))
      /\ Cardinality(Thread \X (1..MaxSent)) = Cardinality(Thread) * Cardinality(1..MaxSent)
  BY <1>1, <1>2, FS_Product
<1>4. Cardinality(Thread) \in Nat
  BY <1>1, FS_CardinalityType
<1>5. IsFiniteSet(refused) /\ Cardinality(refused) <= Cardinality(Thread \X (1..MaxSent))
  BY <1>1, <1>3, FS_Subset
<1>6. Cardinality(refused) \in Nat
  BY <1>5, FS_CardinalityType
<1>7. QED
  BY <1>1, <1>2, <1>3, <1>4, <1>5, <1>6

\* Each discard adds a refused item.
LEMMA DiscardCounted ==
    ASSUME Control, Account, DiscardsRefused, NEW t \in Thread, Pending(t),
           discarded' \in {discarded, discarded + 1}, refused' = refused \cup {Offer(t)}
    PROVE  DiscardsRefused'
<1>1. Offer(t) \notin refused
  BY OfferNowhere
<1>2. IsFiniteSet(refused)
  BY RefusedFinite
<1>3. Cardinality(refused') = Cardinality(refused) + 1 /\ Cardinality(refused) \in Nat
  BY <1>1, <1>2, FS_AddElement, FS_CardinalityType
<1>4. QED
  BY <1>3 DEF DiscardsRefused

\* One step of the specification keeps the invariant.
LEMMA NextIInv ==
    ASSUME IInv, LockedOnly, [Next]_vars
    PROVE  IInv'
<1>1. Control /\ Account /\ InOrder /\ DiscardsRefused
  BY DEF IInv
<1>2. ASSUME UNCHANGED <<queue, handed>> PROVE InOrder'
  <2>1. handed' \o Contents(queue') = handed \o Contents(queue)
    BY <1>2
  <2>2. QED
    BY <1>1, <2>1 DEF InOrder, Chain
<1>3. ASSUME UNCHANGED <<discarded, refused>> PROVE DiscardsRefused'
  BY <1>1, <1>3 DEF DiscardsRefused
<1>4. CASE UNCHANGED vars
  <2>1. Control'
    BY <1>1, <1>4 DEF vars, Control, TypeInv, Locked, Calling, Sleeping, Filled
  <2>2. Account'
    <3>1. UNCHANGED <<queue, call, sent, handed, refused, dropped>>
      BY <1>4 DEF vars
    <3>2. \A u \in Thread : Pending(u)' <=> Pending(u)
      BY <3>1 DEF Pending
    <3>3. \A u \in Thread, k \in 1..MaxSent : Places(<<u, k>>)' = Places(<<u, k>>)
      BY <3>1 DEF Places, CopiesIn, Live, Once
    <3>4. QED
      BY <1>1, <3>1, <3>2, <3>3, AccountMoved
  <2>3. InOrder'
    <3>1. UNCHANGED <<queue, handed>>
      BY <1>4 DEF vars
    <3>2. QED
      BY <1>2, <3>1
  <2>4. DiscardsRefused'
    BY <1>4, <1>3 DEF vars
  <2>5. QED
    BY <2>1, <2>2, <2>3, <2>4 DEF IInv
<1>5. ASSUME NEW t \in Thread, NEW op \in Op, Begin(t, op) PROVE IInv'
  <2>1. UNCHANGED <<queue, handed, discarded, refused>>
    BY <1>5 DEF Begin
  <2>2. QED
    BY <1>1, <1>2, <1>3, <1>5, <2>1, BeginControl, BeginAccount DEF IInv
<1>6. ASSUME NEW t \in Thread, Lock(t) \/ TryLock(t) PROVE IInv'
  <2>1. UNCHANGED <<queue, handed, discarded>>
    BY <1>6 DEF Lock, TryLock
  <2>2. DiscardsRefused'
    <3>1. CASE UNCHANGED refused
      BY <1>3, <2>1, <3>1
    <3>2. CASE call[t].op = "enqueue_try" /\ refused' = refused \cup {Offer(t)}
      <4>1. Pending(t)
        BY <1>6, <3>2 DEF Lock, TryLock, Pending, PutOps
      <4>2. QED
        BY <1>1, <2>1, <3>2, <4>1, DiscardCounted
    <3>3. QED
      BY <1>1, <1>6, <3>1, <3>2, LockControl
  <2>3. QED
    BY <1>1, <1>2, <1>6, <2>1, <2>2, LockControl, LockAccount DEF IInv
<1>7. ASSUME NEW t \in Thread, Body(t) PROVE IInv'
  <2>1. Outcome(t)
    BY <1>1, <1>7, BodyOutcome
  <2>2. DiscardsRefused'
    <3>1. CASE Refuses(t)
      <4>1. Pending(t)
        BY <2>1, <3>1 DEF Outcome, Refuses, Pending
      <4>2. QED
        BY <1>1, <3>1, <4>1, DiscardCounted DEF Refuses
    <3>2. CASE ~ Refuses(t)
      <4>1. UNCHANGED <<discarded, refused>>
        BY <2>1, <3>2 DEF Outcome, Puts, Overwrites, Takes, Clears, Sleeps, Leaves
      <4>2. QED
        BY <1>3, <4>1
    <3>3. QED
      BY <3>1, <3>2
  <2>3. QED
    BY <1>1, <2>1, <2>2, BodyControl, BodyAccount, BodyOrder DEF IInv
<1>8. ASSUME NEW t \in Thread, Notify(t) \/ Timeout(t) \/ Spurious(t) PROVE IInv'
  <2>1. UNCHANGED <<queue, handed, discarded, refused>>
    BY <1>8 DEF Notify, NotifyPop, NotifyPush, Timeout, Spurious, WakeUp
  <2>2. Control'
    BY <1>1, <1>8, NotifyControl, WakeControl
  <2>3. QED
    BY <1>1, <1>2, <1>3, <1>8, <2>1, <2>2, WakeAccount DEF IInv
<1>9. QED
  BY <1>4, <1>5, <1>6, <1>7, <1>8 DEF Next

\* The invariant holds in every reachable state.
LEMMA InvariantHolds == ASSUME LockedOnly PROVE Spec => []IInv
<1>1. Init => IInv
  <2> SUFFICES ASSUME Init PROVE IInv
    OBVIOUS
  <2>1. Control /\ Account /\ InOrder
    BY InitControl, InitAccount
  <2>2. refused = {} /\ discarded = 0
    BY DEF Init
  <2>3. DiscardsRefused
    BY <2>2, FS_EmptySet DEF DiscardsRefused
  <2>4. QED
    BY <2>1, <2>3 DEF IInv
<1>2. IInv /\ [Next]_vars => IInv'
  BY NextIInv
<1>3. QED
  BY <1>1, <1>2, PTL DEF Spec

\* Accounted, for any number of threads: every item whose call has returned is
\* in exactly one place (refused, in the queue, thrown away by an overrun or by
\* clear, handed to one consumer), and an item still being offered is in none.
THEOREM EveryItemAccounted ==
    ASSUME LockedOnly
    PROVE  Spec => []Accounted
<1>1. IInv => Accounted
  BY AccountIsAccounted DEF IInv
<1>2. Spec => []IInv
  BY InvariantHolds
<1>3. QED
  BY <1>1, <1>2, PTL

\* PerProducerOrder, for any number of threads: the items of one producer are
\* handed out in the order it offered them, each at most once.
THEOREM ProducerOrderKept ==
    ASSUME LockedOnly
    PROVE  Spec => []PerProducerOrder
<1>1. IInv => PerProducerOrder
  <2> SUFFICES ASSUME IInv, NEW i \in 1..Len(handed), NEW j \in 1..Len(handed), i < j
               PROVE  handed[j] \in Item /\ (handed[i][1] = handed[j][1] => handed[i][2] < handed[j][2])
    BY DEF PerProducerOrder
  <2>1. handed \in Seq(Item) /\ Live \in Seq(Item) /\ Chain(handed \o Live)
    BY DEF IInv, Control, TypeInv, Filled, InOrder, Live
  <2>2. /\ i \in 1..Len(handed \o Live) /\ j \in 1..Len(handed \o Live)
        /\ (handed \o Live)[i] = handed[i] /\ (handed \o Live)[j] = handed[j]
    BY <2>1
  <2>3. QED
    BY <2>1, <2>2 DEF Chain
<1>2. Spec => []IInv
  BY InvariantHolds
<1>3. QED
  BY <1>1, <1>2, PTL

\* TypeOK, for any number of threads: what enqueue discards is counted at most
\* once for each item.
THEOREM TypeCorrect ==
    ASSUME LockedOnly
    PROVE  Spec => []TypeOK
<1>1. IInv => TypeOK
  <2> SUFFICES ASSUME IInv PROVE TypeOK
    OBVIOUS
  <2>1. TypeInv /\ discarded \in 0..Cardinality(refused)
    BY DEF IInv, Control, DiscardsRefused
  <2>2. discarded \in 0..(MaxSent * Cardinality(Thread))
    <3>1. /\ Cardinality(refused) \in Nat /\ Cardinality(refused) <= MaxSent * Cardinality(Thread)
          /\ MaxSent \in Nat /\ Cardinality(Thread) \in Nat
      BY RefusedFinite, ThreadAssumption DEF IInv
    <3>2. MaxSent * Cardinality(Thread) \in Nat
      BY <3>1
    <3>3. QED
      BY <2>1, <3>1, <3>2
  <2>3. \A i \in 1..Len(handed) : handed[i] \in Item \cup {Vacant}
    BY <2>1 DEF TypeInv
  <2>4. QED
    BY <2>1, <2>2, <2>3 DEF TypeInv, TypeOK
<1>2. Spec => []IInv
  BY InvariantHolds
<1>3. QED
  BY <1>1, <1>2, PTL

\* A body is one method of the bounded FIFO, or leaves it as it is.
LEMMA BodyIsFifoStep ==
    ASSUME Control, NEW t \in Thread, Outcome(t)
    PROVE  [Fifo!Next]_(Fifo!fifoVars)
<1>1. call[t].at = "inside" /\ call[t].op \in Ops[t]
  BY DEF Outcome, Control, Calling
<1>2. call[t].op \in PutOps => Offer(t) \in Item
  BY <1>1, OfferItem
<1>3. CASE Puts(t)
  <2>1. Offer(t) \in Item /\ "put" \in Offered
    BY <1>2, <1>3 DEF Puts, Offered
  <2>2. Fifo!Put(Offer(t))
    BY <1>3, <2>1 DEF Puts, Live, Fifo!Put
  <2>3. QED
    BY <2>1, <2>2 DEF Fifo!Next
<1>4. CASE Overwrites(t)
  <2>1. Offer(t) \in Item /\ "over" \in Offered
    BY <1>1, <1>2, <1>4 DEF Overwrites, Offered, Called, PutOps
  <2>2. Fifo!PutOver(Offer(t))
    BY <1>4, <2>1 DEF Overwrites, Live, Fifo!PutOver
  <2>3. QED
    BY <2>1, <2>2 DEF Fifo!Next
<1>5. CASE Takes(t)
  <2>1. "take" \in Offered
    BY DEF Offered
  <2>2. Fifo!Take(t)
    BY <1>5, <2>1 DEF Takes, Live, Fifo!Take
  <2>3. QED
    BY <2>2 DEF Fifo!Next
<1>6. CASE Clears(t)
  <2>1. "clear" \in Offered
    BY <1>1, <1>6 DEF Clears, Offered, Called
  <2>2. Fifo!Clear
    BY <1>6, <2>1 DEF Clears, Live, Fifo!Clear
  <2>3. QED
    BY <2>2 DEF Fifo!Next
<1>7. CASE Refuses(t) \/ Sleeps(t) \/ Leaves(t)
  <2>1. UNCHANGED <<queue, out>>
    BY <1>7 DEF Refuses, Sleeps, Leaves
  <2>2. QED
    BY <2>1 DEF Fifo!fifoVars
<1>8. QED
  BY <1>3, <1>4, <1>5, <1>6, <1>7 DEF Outcome

\* RefinesBoundedFifo, for any number of threads, any capacity and every
\* interleaving of the locked methods: each takes effect at one instant inside
\* its call, as one method of the FIFO.
THEOREM LockedMethodsAreFifo ==
    ASSUME LockedOnly
    PROVE  Spec => RefinesBoundedFifo
<1>1. Init => Fifo!Init
  <2> SUFFICES ASSUME Init PROVE Fifo!Init
    OBVIOUS
  <2>1. Contents(queue) = <<>> /\ queue.overrun = 0
    BY RingAssumption DEF Init, EmptyRing, Size, Contents
  <2>2. QED
    BY <2>1 DEF Init, Fifo!Init
<1>2. IInv /\ [Next]_vars => [Fifo!Next]_(Fifo!fifoVars)
  <2> SUFFICES ASSUME IInv, [Next]_vars PROVE [Fifo!Next]_(Fifo!fifoVars)
    OBVIOUS
  <2>1. ASSUME UNCHANGED <<queue, out>> PROVE [Fifo!Next]_(Fifo!fifoVars)
    BY <2>1 DEF Fifo!fifoVars
  <2>2. ASSUME NEW t \in Thread, Body(t) PROVE [Fifo!Next]_(Fifo!fifoVars)
    BY <2>2, BodyOutcome, BodyIsFifoStep DEF IInv
  <2>3. UNCHANGED <<queue, out>> \/ \E t \in Thread : Body(t)
    BY DEF Next, vars, Begin, Lock, TryLock, Notify, NotifyPop, NotifyPush, Timeout, Spurious, WakeUp
  <2>4. QED
    BY <2>1, <2>2, <2>3
<1>3. Spec => []IInv
  BY InvariantHolds
<1>4. QED
  BY <1>1, <1>2, <1>3, PTL DEF Spec, RefinesBoundedFifo, Fifo!Spec

------------------------------------------------------------------------------
(* No lost wake-up.                                                         *)

\* the threads that will notify, or are about to test the condition themselves
Coming(place, waits) == Standing(place) \cup OnTheWay(waits)

PopCovered  == popCv # {} => Len(Live) <= Cardinality(Coming("notify_pop", TakeWaits))
PushCovered == pushCv # {} => Capacity - Len(Live) <= Cardinality(Coming("notify_push", PutWaits))

\* n things are still matched after a step in which t leaves those who match
\* them and w joins.
LEMMA StillMatched ==
    ASSUME NEW S, IsFiniteSet(S), NEW T, IsFiniteSet(T), NEW m \in Int, NEW n \in Int, m <= Cardinality(S), NEW t,
           \/ n <= 0
           \/ n <= m /\ S \subseteq T
           \/ n <= m + 1 /\ t \in T \ S /\ S \subseteq T
           \/ n <= m - 1 /\ S \ {t} \subseteq T
           \/ n <= m /\ S \ {t} \subseteq T /\ \E w \in T \ S : TRUE
    PROVE  n <= Cardinality(T)
<1>1. Cardinality(S) \in Nat /\ Cardinality(T) \in Nat
  BY FS_CardinalityType
<1>2. ASSUME NEW R \in SUBSET T PROVE Cardinality(R) <= Cardinality(T) /\ Cardinality(R) \in Nat
  <2>1. IsFiniteSet(R) /\ Cardinality(R) <= Cardinality(T)
    BY <1>2, FS_Subset
  <2>2. QED
    BY <2>1, FS_CardinalityType
<1>3. IsFiniteSet(S \ {t}) /\ Cardinality(S \ {t}) >= Cardinality(S) - 1
  <2>1. IsFiniteSet(S \ {t}) /\ Cardinality(S \ {t}) = IF t \in S THEN Cardinality(S) - 1 ELSE Cardinality(S)
    BY FS_RemoveElement
  <2>2. QED
    BY <1>1, <2>1
<1>4. Cardinality(S \ {t}) \in Nat
  BY <1>3, FS_CardinalityType
<1>5. CASE n <= 0
  BY <1>1, <1>5
<1>6. CASE n <= m /\ S \subseteq T
  BY <1>1, <1>2, <1>6
<1>7. CASE n <= m + 1 /\ t \in T \ S /\ S \subseteq T
  <2>1. Cardinality(S \cup {t}) = Cardinality(S) + 1
    BY <1>7, FS_AddElement
  <2>2. S \cup {t} \in SUBSET T
    BY <1>7
  <2>3. Cardinality(S \cup {t}) <= Cardinality(T)
    BY <1>2, <2>2
  <2>4. QED
    BY <1>1, <1>7, <2>1, <2>3
<1>8. CASE n <= m - 1 /\ S \ {t} \subseteq T
  BY <1>1, <1>2, <1>3, <1>4, <1>8
<1>9. CASE n <= m /\ S \ {t} \subseteq T /\ \E w \in T \ S : TRUE
  <2>1. PICK w \in T : w \notin S
    BY <1>9
  <2>2. Cardinality((S \ {t}) \cup {w}) = Cardinality(S \ {t}) + 1
    BY <1>3, <2>1, FS_AddElement
  <2>3. (S \ {t}) \cup {w} \in SUBSET T
    BY <1>9, <2>1
  <2>4. Cardinality((S \ {t}) \cup {w}) <= Cardinality(T)
    BY <1>2, <2>3
  <2>5. QED
    BY <1>1, <1>3, <1>4, <1>9, <2>2, <2>4
<1>10. QED
  BY <1>5, <1>6, <1>7, <1>8, <1>9

\* Who is coming is a finite set, counted in two parts by the properties.
LEMMA ComingType ==
    ASSUME NEW place, place \notin {"lock", "inside"}, NEW waits
    PROVE  /\ IsFiniteSet(Coming(place, waits)) /\ Coming(place, waits) \subseteq Thread
           /\ Cardinality(Coming(place, waits)) = Cardinality(Standing(place)) + Cardinality(OnTheWay(waits))
<1>1. Standing(place) \in SUBSET Thread /\ OnTheWay(waits) \in SUBSET Thread
  BY DEF Standing, OnTheWay
<1>2. IsFiniteSet(Standing(place)) /\ IsFiniteSet(OnTheWay(waits))
  BY <1>1, FS_Subset, ThreadAssumption
<1>3. Standing(place) \cap OnTheWay(waits) = {}
  BY DEF Standing, OnTheWay
<1>4. IsFiniteSet(Coming(place, waits))
  BY <1>2, FS_Union DEF Coming
<1>5. Cardinality(Standing(place) \cap OnTheWay(waits)) = 0
  BY <1>3, FS_EmptySet
<1>6. Cardinality(Standing(place)) \in Nat /\ Cardinality(OnTheWay(waits)) \in Nat
  BY <1>2, FS_CardinalityType
<1>7. Cardinality(Coming(place, waits)) = Cardinality(Standing(place)) + Cardinality(OnTheWay(waits))
  <2> DEFINE A == Standing(place)
             B == OnTheWay(waits)
  <2>1. IsFiniteSet(A) /\ IsFiniteSet(B)
    BY <1>2
  <2> HIDE DEF A, B
  <2>2. Cardinality(A \cup B) = Cardinality(A) + Cardinality(B) - Cardinality(A \cap B)
    BY <2>1, FS_Union
  <2>3. Coming(place, waits) = A \cup B /\ Cardinality(A \cap B) = 0
    BY <1>5 DEF A, B, Coming
  <2>4. Cardinality(A) \in Nat /\ Cardinality(B) \in Nat
    BY <1>6 DEF A, B
  <2>5. QED
    BY <2>2, <2>3, <2>4 DEF A, B
<1>8. QED
  BY <1>1, <1>4, <1>7 DEF Coming

\* Who is coming after a step of t that leaves the calls of the others alone.
LEMMA ComingMoved ==
    ASSUME NEW t \in Thread, \A u \in Thread \ {t} : call'[u] = call[u], NEW place, NEW waits
    PROVE  /\ Coming(place, waits) \ {t} \subseteq Coming(place, waits)'
           /\ t \in Coming(place, waits)
                  <=> call[t].at = place \/ (call[t].op \in waits /\ call[t].at \in {"lock", "inside"})
           /\ t \in Coming(place, waits)'
                  <=> call'[t].at = place \/ (call'[t].op \in waits /\ call'[t].at \in {"lock", "inside"})
BY DEF Coming, Standing, OnTheWay

\* What is coming is finite, after a step too.
LEMMA ComingFinite ==
    ASSUME NEW place, NEW waits
    PROVE  IsFiniteSet(Coming(place, waits)) /\ IsFiniteSet(Coming(place, waits)')
<1>1. Coming(place, waits) \in SUBSET Thread /\ Coming(place, waits)' \in SUBSET Thread
  BY DEF Coming, Standing, OnTheWay
<1>2. QED
  BY <1>1, FS_Subset, ThreadAssumption

\* What a body changes of who is coming and how many items there are.
LEMMA BodyComing ==
    ASSUME Control, NEW t \in Thread, Outcome(t), NEW place \in {"notify_pop", "notify_push"}, NEW waits
    PROVE  /\ Coming(place, waits) \ {t} \subseteq Coming(place, waits)'
           /\ t \in Coming(place, waits) <=> call[t].op \in waits
           /\ t \in Coming(place, waits)' <=> IF place = "notify_pop" THEN Puts(t) \/ Overwrites(t) ELSE Takes(t)
           /\ Len(Live) \in 0..Capacity /\ Len(Live') \in 0..Capacity
           /\ Puts(t) => Len(Live') = Len(Live) + 1
           /\ Takes(t) => Len(Live') = Len(Live) - 1
           /\ Overwrites(t) => Len(Live) = Capacity /\ Len(Live') = Capacity
           /\ Clears(t) => Len(Live') = 0
           /\ Refuses(t) \/ Sleeps(t) \/ Leaves(t) => Live' = Live
<1>1. call[t].at = "inside"
  BY DEF Outcome
<1>2. PICK there \in {"idle", "notify_pop", "notify_push", "waiting"} :
          /\ Unlock(t, there)
          /\ there = "notify_pop"  <=> Puts(t) \/ Overwrites(t)
          /\ there = "notify_push" <=> Takes(t)
  <2>1. call'[t].at \in {"idle", "notify_pop", "notify_push", "waiting"} /\ Unlock(t, call'[t].at)
    <3>1. PICK there \in {"idle", "notify_pop", "notify_push", "waiting"} : Unlock(t, there)
      BY DEF Outcome, Puts, Overwrites, Refuses, Takes, Clears, Sleeps, Leaves
    <3>2. call'[t].at = there
      BY <3>1, Moved DEF Unlock, Control, TypeInv, Place, Unowned
    <3>3. QED
      BY <3>1, <3>2
  <2>2. ASSUME NEW p \in Place, Unlock(t, p) PROVE call'[t].at = p
    BY <2>2, Moved DEF Unlock, Control, TypeInv
  <2>3. /\ Puts(t) \/ Overwrites(t) => call'[t].at = "notify_pop"
        /\ Takes(t) => call'[t].at = "notify_push"
        /\ Refuses(t) \/ Clears(t) \/ Leaves(t) => call'[t].at = "idle"
        /\ Sleeps(t) => call'[t].at = "waiting"
    BY <2>2 DEF Place, Unowned, Puts, Overwrites, Refuses, Takes, Clears, Sleeps, Leaves
  <2>4. QED
    BY <2>1, <2>3 DEF Outcome
<1>3. call'[t].at = there /\ call'[t].op = call[t].op /\ \A u \in Thread \ {t} : call'[u] = call[u]
  BY <1>2, Moved DEF Unlock, Control, TypeInv, Place, Unowned
<1>4. Len(Live) \in 0..Capacity /\ Live \in Seq(Item)
  BY LiveLength DEF Control, TypeInv, Filled, Live
<1>5. Len(Live') \in 0..Capacity
  BY ContentsAt, SizeType DEF Outcome, Live
<1>6. Puts(t) => Len(Live') = Len(Live) + 1
  BY <1>4 DEF Puts
<1>7. Takes(t) => Len(Live') = Len(Live) - 1
  BY <1>4 DEF Takes
<1>8. Overwrites(t) => Len(Live) = Capacity /\ Len(Live') = Capacity
  <2> SUFFICES ASSUME Overwrites(t) PROVE Len(Live) = Capacity /\ Len(Live') = Capacity
    OBVIOUS
  <2>1. Live # <<>> /\ Len(Live) = Capacity /\ Live' = Append(Tail(Live), Offer(t))
    BY DEF Overwrites
  <2>2. Tail(Live) \in Seq(Item) /\ Len(Tail(Live)) = Len(Live) - 1
    BY <1>4, <2>1
  <2>3. Len(Append(Tail(Live), Offer(t))) = Len(Tail(Live)) + 1
    BY <2>2
  <2>4. QED
    BY <1>4, <2>1, <2>2, <2>3
<1>9. Clears(t) => Len(Live') = 0
  BY DEF Clears
<1>10. Refuses(t) \/ Sleeps(t) \/ Leaves(t) => Live' = Live
  BY DEF Refuses, Sleeps, Leaves, Live
<1>11. /\ Coming(place, waits) \ {t} \subseteq Coming(place, waits)'
       /\ t \in Coming(place, waits)
              <=> call[t].at = place \/ (call[t].op \in waits /\ call[t].at \in {"lock", "inside"})
       /\ t \in Coming(place, waits)'
              <=> call'[t].at = place \/ (call'[t].op \in waits /\ call'[t].at \in {"lock", "inside"})
  BY <1>3, ComingMoved
<1>12. /\ t \in Coming(place, waits) <=> call[t].op \in waits
       /\ t \in Coming(place, waits)' <=> there = place
  BY <1>1, <1>3, <1>11
<1>13. there = place <=> IF place = "notify_pop" THEN Puts(t) \/ Overwrites(t) ELSE Takes(t)
  <2>1. CASE place = "notify_pop"
    BY <1>2, <2>1
  <2>2. CASE place = "notify_push"
    BY <1>2, <2>2
  <2>3. QED
    BY <2>1, <2>2
<1>14. QED
  BY <1>4, <1>5, <1>6, <1>7, <1>8, <1>9, <1>10, <1>11, <1>12, <1>13

\* A body leaves no sleeping consumer with an item that nobody comes for.
LEMMA BodyPop ==
    ASSUME Control, PopCovered, NEW t \in Thread, Outcome(t)
    PROVE  PopCovered'
<1> DEFINE S == Coming("notify_pop", TakeWaits)
<1>1. /\ S \ {t} \subseteq S'
      /\ t \in S <=> call[t].op \in TakeWaits
      /\ t \in S' <=> Puts(t) \/ Overwrites(t)
      /\ Len(Live) \in 0..Capacity /\ Len(Live') \in 0..Capacity
  <2> DEFINE place == "notify_pop"
  <2>1. /\ S \ {t} \subseteq S'
        /\ t \in S <=> call[t].op \in TakeWaits
        /\ t \in S' <=> IF place = "notify_pop" THEN Puts(t) \/ Overwrites(t) ELSE Takes(t)
        /\ Len(Live) \in 0..Capacity /\ Len(Live') \in 0..Capacity
    BY BodyComing
  <2>2. QED
    BY <2>1
<1>2. /\ Puts(t) => Len(Live') = Len(Live) + 1
      /\ Takes(t) => Len(Live') = Len(Live) - 1
      /\ Overwrites(t) => Len(Live) = Capacity /\ Len(Live') = Capacity
      /\ Clears(t) => Len(Live') = 0
      /\ Refuses(t) \/ Sleeps(t) \/ Leaves(t) => Live' = Live
  BY BodyComing
<1>3. PutOps \cap TakeWaits = {} /\ PutWaits \cap TakeWaits = {}
  BY DEF PutOps, PutWaits, TakeWaits
<1>4. IsFiniteSet(S) /\ IsFiniteSet(S')
  BY ComingFinite
<1> SUFFICES ASSUME popCv' # {} PROVE Len(Live') <= Cardinality(S')
  BY DEF PopCovered
<1>5. CASE Len(Live') = 0
  BY <1>1, <1>4, <1>5, FS_CardinalityType
<1>6. CASE Len(Live') # 0
  <2>1. popCv # {}
    BY <1>2, <1>6 DEF Outcome, Puts, Overwrites, Refuses, Takes, Clears, Sleeps, Leaves
  <2>2. Len(Live) <= Cardinality(S)
    BY <2>1 DEF PopCovered
  <2>3. \/ Len(Live') <= Len(Live) /\ S \subseteq S'
        \/ Len(Live') <= Len(Live) + 1 /\ t \in S' \ S /\ S \subseteq S'
        \/ Len(Live') <= Len(Live) - 1 /\ S \ {t} \subseteq S'
    <3>1. CASE Puts(t)
      BY <1>1, <1>2, <1>3, <3>1 DEF Puts
    <3>2. CASE Overwrites(t)
      BY <1>1, <1>2, <1>3, <3>2 DEF Overwrites
    <3>3. CASE Takes(t)
      BY <1>1, <1>2, <3>3
    <3>4. CASE Refuses(t)
      BY <1>1, <1>2, <1>3, <3>4 DEF Refuses
    <3>5. CASE Sleeps(t)
      <4>1. Live # <<>>
        BY <1>2, <1>6, <3>5
      <4>2. call[t].op \notin TakeWaits
        BY <1>3, <3>5, <4>1 DEF Sleeps
      <4>3. QED
        BY <1>1, <1>2, <3>5, <4>2
    <3>6. CASE Leaves(t)
      <4>1. Live # <<>>
        BY <1>2, <1>6, <3>6
      <4>2. call[t].op \notin TakeWaits
        BY <3>6, <4>1 DEF Leaves
      <4>3. QED
        BY <1>1, <1>2, <3>6, <4>2
    <3>7. QED
      BY <1>2, <1>6, <3>1, <3>2, <3>3, <3>4, <3>5, <3>6 DEF Outcome
  <2> HIDE DEF S
  <2>4. QED
    BY <1>1, <1>4, <2>2, <2>3, StillMatched
<1>7. QED
  BY <1>5, <1>6

\* A body other than clear leaves no sleeping producer with a free place that
\* nobody comes for.
LEMMA BodyPush ==
    ASSUME Control, PushCovered, NoClear, NEW t \in Thread, Outcome(t)
    PROVE  PushCovered'
<1> DEFINE S == Coming("notify_push", PutWaits)
           m == Capacity - Len(Live)
           n == Capacity - Len(Live')
<1>1. /\ S \ {t} \subseteq S'
      /\ t \in S <=> call[t].op \in PutWaits
      /\ t \in S' <=> Takes(t)
      /\ Capacity \in Int /\ Len(Live) \in 0..Capacity /\ Len(Live') \in 0..Capacity
      /\ m \in Int /\ n \in Int
  <2>1. /\ S \ {t} \subseteq S'
        /\ t \in S <=> call[t].op \in PutWaits
        /\ t \in S' <=> Takes(t)
        /\ Len(Live) \in 0..Capacity /\ Len(Live') \in 0..Capacity
    BY BodyComing
  <2>2. QED
    BY <2>1, RingAssumption
<1>2. /\ Puts(t) => n = m - 1
      /\ Takes(t) => n = m + 1
      /\ Overwrites(t) => n = 0
      /\ Refuses(t) \/ Sleeps(t) \/ Leaves(t) => n = m
  <2>1. /\ Puts(t) => Len(Live') = Len(Live) + 1
        /\ Takes(t) => Len(Live') = Len(Live) - 1
        /\ Overwrites(t) => Len(Live') = Capacity
        /\ Refuses(t) \/ Sleeps(t) \/ Leaves(t) => Live' = Live
    BY BodyComing
  <2>2. QED
    BY <1>1, <2>1
<1>3. PutOps \cap TakeWaits = {} /\ PutWaits \cap TakeWaits = {} /\ "size" \notin PutWaits
  BY DEF PutOps, PutWaits, TakeWaits
<1>4. IsFiniteSet(S) /\ IsFiniteSet(S')
  BY ComingFinite
<1>5. ~ Clears(t)
  BY DEF Clears, Outcome, NoClear, Control, Calling
<1> SUFFICES ASSUME pushCv' # {} PROVE n <= Cardinality(S')
  BY DEF PushCovered
<1>6. CASE n <= 0
  BY <1>1, <1>4, <1>6, FS_CardinalityType
<1>7. CASE n > 0
  <2>1. /\ Refuses(t) => Len(Live) = Capacity
        /\ Sleeps(t) /\ call[t].op \in PutWaits => Len(Live) = Capacity
    BY <1>3 DEF Refuses, Sleeps
  <2>2. ~ Refuses(t) /\ (Sleeps(t) => call[t].op \notin PutWaits)
    BY <1>1, <1>2, <1>7, <2>1
  <2>3. pushCv # {}
    BY <1>5, <2>2 DEF Outcome, Puts, Overwrites, Takes, Sleeps, Leaves
  <2>4. m <= Cardinality(S)
    BY <2>3 DEF PushCovered
  <2>5. \/ n <= m /\ S \subseteq S'
        \/ n <= m + 1 /\ t \in S' \ S /\ S \subseteq S'
        \/ n <= m - 1 /\ S \ {t} \subseteq S'
    <3>1. CASE Puts(t)
      BY <1>1, <1>2, <3>1
    <3>2. CASE Takes(t)
      BY <1>1, <1>2, <1>3, <3>2 DEF Takes
    <3>3. CASE Sleeps(t)
      BY <1>1, <1>2, <2>2, <3>3
    <3>4. CASE Leaves(t)
      BY <1>1, <1>2, <1>3, <3>4 DEF Leaves
    <3>5. ~ Overwrites(t)
      BY <1>1, <1>2, <1>7
    <3>6. QED
      BY <1>5, <2>2, <3>1, <3>2, <3>3, <3>4, <3>5 DEF Outcome
  <2> HIDE DEF S, m, n
  <2>6. QED
    BY <1>1, <1>4, <2>4, <2>5, StillMatched
<1>8. QED
  BY <1>1, <1>6, <1>7

\* The steps outside the bodies.
Outside(t) ==
    (\E op \in Op : Begin(t, op)) \/ Lock(t) \/ TryLock(t) \/ Notify(t) \/ Timeout(t) \/ Spurious(t)

\* They lose nobody who comes, but a notify that wakes up another thread.
LEMMA OutsideComing ==
    ASSUME Control, LockedOnly, NEW t \in Thread, Outside(t),
           NEW place \in {"notify_pop", "notify_push"}, NEW waits,
           waits = IF place = "notify_pop" THEN TakeWaits ELSE PutWaits,
           NEW cv, cv = IF place = "notify_pop" THEN popCv ELSE pushCv
    PROVE  LET S == Coming(place, waits)
               T == Coming(place, waits)'
           IN  cv # {} => S \subseteq T \/ (S \ {t} \subseteq T /\ \E w \in T \ S : TRUE)
<1> DEFINE S == Coming(place, waits)
           T == Coming(place, waits)'
<1> SUFFICES ASSUME cv # {} PROVE S \subseteq T \/ (S \ {t} \subseteq T /\ \E w \in T \ S : TRUE)
  OBVIOUS
<1>1. ASSUME NEW u \in Thread
      PROVE  /\ u \in S <=> call[u].at = place \/ (call[u].op \in waits /\ call[u].at \in {"lock", "inside"})
             /\ u \in T <=> call'[u].at = place \/ (call'[u].op \in waits /\ call'[u].at \in {"lock", "inside"})
  BY DEF Coming, Standing, OnTheWay
<1>2. S \subseteq Thread /\ T \subseteq Thread
  BY DEF Coming, Standing, OnTheWay
<1> HIDE DEF S, T
<1>3. CASE \E op \in Op : Begin(t, op)
  <2>1. call[t].at = "idle" /\ \A u \in Thread \ {t} : call'[u] = call[u]
    BY <1>3, BeginControl
  <2>2. QED
    BY <1>1, <1>2, <2>1
<1>4. CASE Lock(t) \/ TryLock(t)
  <2>1. "enqueue_try" \notin waits
    BY DEF TakeWaits, PutWaits
  <2>2. /\ call[t].at = "lock" /\ call \in [Thread -> Call]
        /\ \/ call' = [call EXCEPT ![t].at = "inside"]
           \/ call[t].op = "enqueue_try" /\ call' = [call EXCEPT ![t].at = "idle"]
    BY <1>4, LockControl DEF Control, TypeInv
  <2>3. /\ (call'[t].op = call[t].op /\ call'[t].at = "inside") \/ call[t].op = "enqueue_try"
        /\ \A u \in Thread \ {t} : call'[u] = call[u]
    <3>1. CASE call' = [call EXCEPT ![t].at = "inside"]
      BY <2>2, <3>1, Moved DEF Place, Unowned
    <3>2. CASE call[t].op = "enqueue_try" /\ call' = [call EXCEPT ![t].at = "idle"]
      BY <2>2, <3>2, Moved DEF Place, Unowned
    <3>3. QED
      BY <2>2, <3>1, <3>2
  <2>4. QED
    BY <1>1, <1>2, <2>1, <2>2, <2>3
<1>5. CASE Notify(t)
  <2>1. call[t].at \in {"notify_pop", "notify_push"}
    BY <1>5, NotifyControl
  <2>2. CASE call[t].at # place
    <3>1. t \notin S
      BY <1>1, <2>1, <2>2
    <3>2. \/ \A u \in Thread \ {t} : call'[u] = call[u]
          \/ \E w \in Thread \ {t} : /\ call[w].at = "waiting" /\ call'[w].at = "lock"
                                      /\ \A u \in Thread \ {t, w} : call'[u] = call[u]
      BY <1>5, NotifyControl DEF Awakes
    <3>3. QED
      BY <1>1, <1>2, <3>1, <3>2
  <2>3. CASE call[t].at = place
    <3>1. PICK w \in Thread \ {t} :
              /\ Awakes(w, cv, call[w].late)
              /\ \A u \in Thread \ {t, w} : call'[u] = call[u]
      BY <1>5, <2>3, NotifyControl
    <3>2. w \in cv /\ call[w].at = "waiting" /\ call'[w].at = "lock" /\ call'[w].op = call[w].op
      BY <3>1 DEF Awakes
    <3>3. call[w].op \in waits
      BY <3>2 DEF Control, Sleeping
    <3>4. w \in T \ S
      BY <1>1, <3>2, <3>3
    <3>5. QED
      BY <1>1, <1>2, <3>1, <3>4
  <2>4. QED
    BY <2>2, <2>3
<1>6. CASE Timeout(t) \/ Spurious(t)
  <2>1. call[t].at = "waiting" /\ \A u \in Thread \ {t} : call'[u] = call[u]
    BY <1>6, WakeControl DEF Awakes
  <2>2. QED
    BY <1>1, <1>2, <2>1
<1>7. QED
  BY <1>3, <1>4, <1>5, <1>6 DEF Outside

\* Every step keeps the matches of both condition variables.
LEMMA OutsideCovered ==
    ASSUME Control, LockedOnly, NEW t \in Thread, Outside(t)
    PROVE  (PopCovered => PopCovered') /\ (PushCovered => PushCovered')
<1>1. Live' = Live /\ popCv' \subseteq popCv /\ pushCv' \subseteq pushCv
  BY DEF Outside, Live, Begin, Lock, TryLock, Notify, NotifyPop, NotifyPush, Timeout, Spurious, WakeUp
<1>2. Len(Live) \in Int /\ Capacity - Len(Live) \in Int
  BY LiveLength, RingAssumption DEF Control, TypeInv
<1>3. ASSUME PopCovered, popCv' # {}
      PROVE  Len(Live') <= Cardinality(Coming("notify_pop", TakeWaits)')
  <2> DEFINE S == Coming("notify_pop", TakeWaits)
             T == Coming("notify_pop", TakeWaits)'
  <2>1. popCv # {} /\ Len(Live) <= Cardinality(S)
    BY <1>1, <1>3 DEF PopCovered
  <2>2. S \subseteq T \/ (S \ {t} \subseteq T /\ \E w \in T \ S : TRUE)
    BY <2>1, OutsideComing
  <2>3. IsFiniteSet(S) /\ IsFiniteSet(T)
    BY ComingFinite
  <2> HIDE DEF S, T
  <2>4. Len(Live) <= Cardinality(T)
    BY <1>2, <2>1, <2>2, <2>3, StillMatched
  <2>5. QED
    BY <1>1, <2>4 DEF T
<1>4. ASSUME PushCovered, pushCv' # {}
      PROVE  Capacity - Len(Live') <= Cardinality(Coming("notify_push", PutWaits)')
  <2> DEFINE S == Coming("notify_push", PutWaits)
             T == Coming("notify_push", PutWaits)'
             m == Capacity - Len(Live)
  <2>1. pushCv # {} /\ m <= Cardinality(S)
    BY <1>1, <1>4 DEF PushCovered
  <2>2. S \subseteq T \/ (S \ {t} \subseteq T /\ \E w \in T \ S : TRUE)
    BY <2>1, OutsideComing
  <2>3. IsFiniteSet(S) /\ IsFiniteSet(T) /\ m \in Int
    BY <1>2, ComingFinite
  <2> HIDE DEF S, T, m
  <2>4. m <= Cardinality(T)
    BY <2>1, <2>2, <2>3, StillMatched
  <2>5. QED
    BY <1>1, <2>4 DEF T, m
<1>5. QED
  BY <1>3, <1>4 DEF PopCovered, PushCovered

\* NoLostPop, for any number of threads: while a consumer sleeps in _popCv,
\* every item in the queue is matched by a notify still to come or by a
\* consumer about to look.
THEOREM NoPopIsLost ==
    ASSUME LockedOnly
    PROVE  Spec => []NoLostPop
<1>1. Init => PopCovered
  BY DEF Init, PopCovered
<1>2. IInv /\ PopCovered /\ [Next]_vars => PopCovered'
  <2> SUFFICES ASSUME IInv, PopCovered, [Next]_vars PROVE PopCovered'
    OBVIOUS
  <2>1. Control
    BY DEF IInv
  <2>2. ASSUME NEW t \in Thread, Body(t) PROVE PopCovered'
    BY <2>1, <2>2, BodyOutcome, BodyPop
  <2>3. ASSUME NEW t \in Thread, Outside(t) PROVE PopCovered'
    BY <2>1, <2>3, OutsideCovered
  <2>4. CASE UNCHANGED vars
    BY <2>4 DEF vars, PopCovered, Live, Coming, Standing, OnTheWay
  <2>5. QED
    BY <2>2, <2>3, <2>4 DEF Next, Outside
<1>3. IInv /\ PopCovered => NoLostPop
  <2> SUFFICES ASSUME IInv, PopCovered, popCv # {}
               PROVE  Size(queue) <= Cardinality(Standing("notify_pop")) + Cardinality(OnTheWay(TakeWaits))
    BY DEF NoLostPop, TakeWaits
  <2>1. Len(Live) = Size(queue)
    BY LiveLength DEF IInv, Control, TypeInv
  <2>2. QED
    BY <2>1, ComingType DEF PopCovered
<1>4. Spec => []IInv
  BY InvariantHolds
<1>5. QED
  BY <1>1, <1>2, <1>3, <1>4, PTL DEF Spec

\* NoLostPush, for any number of threads: while a producer sleeps in _pushCv,
\* every free place is matched by a notify still to come or by a producer about
\* to look.  Without clear and dequeue(T&), which notify nobody.
THEOREM NoPushIsLost ==
    ASSUME LockedOnly, NoClear
    PROVE  Spec => []NoLostPush
<1>1. Init => PushCovered
  BY DEF Init, PushCovered
<1>2. IInv /\ PushCovered /\ [Next]_vars => PushCovered'
  <2> SUFFICES ASSUME IInv, PushCovered, [Next]_vars PROVE PushCovered'
    OBVIOUS
  <2>1. Control
    BY DEF IInv
  <2>2. ASSUME NEW t \in Thread, Body(t) PROVE PushCovered'
    BY <2>1, <2>2, BodyOutcome, BodyPush
  <2>3. ASSUME NEW t \in Thread, Outside(t) PROVE PushCovered'
    BY <2>1, <2>3, OutsideCovered
  <2>4. CASE UNCHANGED vars
    BY <2>4 DEF vars, PushCovered, Live, Coming, Standing, OnTheWay
  <2>5. QED
    BY <2>2, <2>3, <2>4 DEF Next, Outside
<1>3. IInv /\ PushCovered => NoLostPush
  <2> SUFFICES ASSUME IInv, PushCovered, pushCv # {}
               PROVE  Capacity - Size(queue) <= Cardinality(Standing("notify_push")) + Cardinality(OnTheWay(PutWaits))
    BY DEF NoLostPush, PutWaits
  <2>1. Len(Live) = Size(queue)
    BY LiveLength DEF IInv, Control, TypeInv
  <2>2. QED
    BY <2>1, ComingType DEF PushCovered
<1>4. Spec => []IInv
  BY InvariantHolds
<1>5. QED
  BY <1>1, <1>2, <1>3, <1>4, PTL DEF Spec
==============================================================================
