---------------------------- MODULE BlockingQueue ----------------------------
(***************************************************************************)
(* origin::container::BlockingQueue<T>, used by one thread: the sequence   *)
(* of the method calls its owner makes.  (ConcurrentBlockingQueue calls it *)
(* under a mutex.)                                                         *)
(***************************************************************************)
EXTENDS RingBuffer, Integers

CONSTANTS
    Client,     \* the owner's item variables, passed as T& item
    MaxOverrun  \* bound of the overrun counter

ASSUME MaxOverrunAssumption == MaxOverrun \in Nat

VARIABLES
    queue,  \* the object
    out,    \* out[c]: what the variable c holds
    ret     \* how the last call ended: <<kind, number>>

vars == <<queue, out, ret>>

Op == {"none", "enqueue", "overrun", "dequeue", "front", "at", "clear", "size"}

\* what a call returns: 0 and 1 for false and true, a number, or -1 for an
\* std::out_of_range
Ret == [op : Op, val : {-1} \cup 0..(Capacity + 1)]

Returns(op, val) == ret' = [op |-> op, val |-> val]

Init ==
    /\ queue = EmptyRing
    /\ out = [c \in Client |-> Vacant]
    /\ ret = [op |-> "none", val |-> 0]

\* emplace_back(args), enqueue(item)
Enqueue(x) ==
    /\ IF Full(queue)
       THEN Returns("enqueue", 0) /\ UNCHANGED queue
       ELSE Returns("enqueue", 1) /\ queue' = Put(queue, x)
    /\ UNCHANGED out

\* emplace_back_overrun(args), enqueue_overrun(item)
EnqueueOverrun(x) ==
    /\ queue.overrun < MaxOverrun
    /\ queue' = PutOverrun(queue, x)
    /\ Returns("overrun", 1)
    /\ UNCHANGED out

\* dequeue(item)
Dequeue(c) ==
    IF Empty(queue)
    THEN Returns("dequeue", 0) /\ UNCHANGED <<queue, out>>
    ELSE /\ out' = [out EXCEPT ![c] = queue.items[queue.head]]
         /\ queue' = Take(queue)
         /\ Returns("dequeue", 1)

\* dequeue()
DequeueDiscard ==
    /\ IF Empty(queue)
       THEN Returns("dequeue", 0) /\ UNCHANGED queue
       ELSE Returns("dequeue", 1) /\ queue' = Drop(queue)
    /\ UNCHANGED out

\* front(item)
Front(c) ==
    /\ IF Empty(queue)
       THEN Returns("front", 0) /\ UNCHANGED out
       ELSE Returns("front", 1) /\ out' = [out EXCEPT ![c] = queue.items[queue.head]]
    /\ UNCHANGED queue

\* at(idx), operator[](idx): the caller copies the element into its variable
ReadAt(c, idx) ==
    /\ IF idx >= Size(queue)
       THEN Returns("at", -1) /\ UNCHANGED out
       ELSE Returns("at", 1) /\ out' = [out EXCEPT ![c] = At(queue, idx)]
    /\ UNCHANGED queue

Clear ==
    /\ queue' = Cleared(queue)
    /\ Returns("clear", 1)
    /\ UNCHANGED out

GetSize ==
    /\ Returns("size", Size(queue))
    /\ UNCHANGED <<queue, out>>

Next ==
    \/ \E x \in Item : Enqueue(x) \/ EnqueueOverrun(x)
    \/ \E c \in Client : Dequeue(c) \/ Front(c) \/ \E idx \in Slot : ReadAt(c, idx)
    \/ DequeueDiscard
    \/ Clear
    \/ GetSize

Spec == Init /\ [][Next]_vars

------------------------------------------------------------------------------
TypeOK ==
    /\ queue \in Ring
    /\ out \in [Client -> Item \cup {Vacant}]
    /\ ret \in Ret

\* Every slot between head and tail holds an item that a caller put there:
\* no wrap of an index lets a reader reach a moved-from slot
\* (blocking_queue.hpp, _head and _tail).
LiveSlots == \A idx \in Slot : idx < Size(queue) => At(queue, idx) \in Item

AllMethods == {"put", "over", "take", "drop", "read", "clear"}

Fifo == INSTANCE BoundedFifo WITH
    contents <- Contents(queue), lost <- queue.overrun, Methods <- AllMethods

\* The ring is a bounded FIFO: dequeue, front, at and operator[] hand out the
\* items in the order of their enqueue, enqueue refuses only at _capacity
\* items, and an overrun costs exactly the oldest item.
RefinesBoundedFifo == Fifo!Spec

\* What a caller is told agrees with the FIFO: enqueue refuses exactly at
\* _capacity items, dequeue and front exactly on an empty queue, and size()
\* counts the items, wherever head and tail stand
\* (blocking_queue.hpp:72, 94, 104, 115, 152-161).
Answers ==
    [][LET n == Len(Contents(queue))
       IN  /\ ret'.op = "enqueue" => (ret'.val = 0 <=> n = Capacity)
           /\ ret'.op \in {"dequeue", "front"} => (ret'.val = 0 <=> n = 0)
           /\ ret'.op = "size" => ret'.val = n]_vars
==============================================================================
