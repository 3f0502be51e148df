----------------------------- MODULE BoundedFifo -----------------------------
(***************************************************************************)
(* What the queues of common/container promise their callers, without the  *)
(* ring, its indices or its lock: a sequence of at most Capacity items,    *)
(* taken in the order they were put.  BlockingQueue and                    *)
(* ConcurrentBlockingQueue are shown to implement it.                      *)
(***************************************************************************)
EXTENDS Naturals, Sequences

CONSTANTS
    Client,    \* the callers, each with an out-parameter of its own
    Item,      \* the values that are put into the queue
    Capacity,  \* how many items the queue holds, at least one
    Vacant,    \* what an out-parameter holds before its first item
    Methods    \* what the queue offers of "put", "over", "take", "drop", "read", "clear"

VARIABLES
    contents,  \* the items in the queue, oldest first
    lost,      \* how many items were overwritten since the last clear
    out        \* out[c]: the last item handed to c

fifoVars == <<contents, lost, out>>

Init ==
    /\ contents = <<>>
    /\ lost = 0
    /\ out = [c \in Client |-> Vacant]

\* x becomes the newest item of a queue with space
Put(x) ==
    /\ "put" \in Methods
    /\ Len(contents) < Capacity
    /\ contents' = Append(contents, x)
    /\ UNCHANGED <<lost, out>>

\* x becomes the newest item of a full queue, whose oldest item is lost
PutOver(x) ==
    /\ "over" \in Methods
    /\ Len(contents) = Capacity
    /\ contents' = Append(Tail(contents), x)
    /\ lost' = lost + 1
    /\ UNCHANGED out

\* c receives the oldest item, which leaves the queue
Take(c) ==
    /\ "take" \in Methods
    /\ contents # <<>>
    /\ out' = [out EXCEPT ![c] = Head(contents)]
    /\ contents' = Tail(contents)
    /\ UNCHANGED lost

\* the oldest item leaves the queue, handed to nobody
Drop ==
    /\ "drop" \in Methods
    /\ contents # <<>>
    /\ contents' = Tail(contents)
    /\ UNCHANGED <<lost, out>>

\* c receives a copy of the k-th oldest item
Read(c, k) ==
    /\ "read" \in Methods
    /\ k \in 1..Len(contents)
    /\ out' = [out EXCEPT ![c] = contents[k]]
    /\ UNCHANGED <<contents, lost>>

Clear ==
    /\ "clear" \in Methods
    /\ contents' = <<>>
    /\ lost' = 0
    /\ UNCHANGED out

Next ==
    \/ \E x \in Item : Put(x) \/ PutOver(x)
    \/ \E c \in Client : Take(c) \/ \E k \in 1..Capacity : Read(c, k)
    \/ Drop
    \/ Clear

Spec == Init /\ [][Next]_fifoVars
==============================================================================
