----------------------------- MODULE RingBuffer ------------------------------
(***************************************************************************)
(* The data of origin::container::BlockingQueue<T>                         *)
(* (common/container/blocking_queue.hpp) as a record, and what each of its *)
(* methods does to it.  One slot more than the capacity is allocated, so   *)
(* that a full ring (tail one behind head) differs from an empty one.      *)
(***************************************************************************)
EXTENDS Naturals, Sequences

CONSTANTS
    Item,      \* the values that are put into the queue
    Capacity,  \* _capacity; the constructor throws on 0
    Vacant     \* a slot nobody filled: default-constructed or moved from

ASSUME RingAssumption == Capacity \in Nat \ {0} /\ Vacant \notin Item

MaxItems == Capacity + 1
Slot == 0..Capacity

Ring == [items : [Slot -> Item \cup {Vacant}], head : Slot, tail : Slot, overrun : Nat]

EmptyRing == [items |-> [s \in Slot |-> Vacant], head |-> 0, tail |-> 0, overrun |-> 0]

\* the slot idx places after slot s
Nth(s, idx) == (s + idx) % MaxItems

After(s) == Nth(s, 1)

Size(q) == IF q.tail >= q.head THEN q.tail - q.head ELSE MaxItems - (q.head - q.tail)
\* mutants: tests for empty and full that never hold, or hold too early
EmptyNever(q) == FALSE
FullNever(q) == FALSE
FullEarly(q) == After(After(q.tail)) = q.head

Empty(q) == q.head = q.tail
Full(q) == After(q.tail) = q.head

\* at(idx), operator[](idx): the idx-th oldest item, counted from 0
At(q, idx) == q.items[Nth(q.head, idx)]

\* the items a reader of at(0), at(1), ... sees
Contents(q) == [k \in 1..Size(q) |-> At(q, k - 1)]

\* enqueue and emplace_back, on a ring that is not full
Put(q, x) == [q EXCEPT !.items[q.tail] = x, !.tail = After(q.tail)]

\* mutant: an overrun that is not counted
PutOverrunUncounted(q, x) ==
    LET p == Put(q, x)
    IN  IF p.head = p.tail THEN [p EXCEPT !.head = After(p.head)] ELSE p

\* enqueue_overrun and emplace_back_overrun: the write comes first, then the
\* head gives way if the tail ran into it
PutOverrun(q, x) ==
    LET p == Put(q, x)
    IN  IF p.head = p.tail
        THEN [p EXCEPT !.head = After(p.head), !.overrun = p.overrun + 1]
        ELSE p

\* dequeue(item), on a ring that is not empty: the slot is moved from
Take(q) == [q EXCEPT !.items[q.head] = Vacant, !.head = After(q.head)]

\* dequeue(): the slot keeps its value
Drop(q) == [q EXCEPT !.head = After(q.head)]

\* clear: the slots keep their values
Cleared(q) == [q EXCEPT !.head = 0, !.tail = 0, !.overrun = 0]
==============================================================================
