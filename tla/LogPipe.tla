------------------------------- MODULE LogPipe -------------------------------
(***************************************************************************)
(* What asynchronous logging promises the callers of log and flush: every  *)
(* accepted request is carried out once, before the pipe closes.  With one *)
(* worker (Ordered) the requests are carried out in the order of their     *)
(* acceptance, which is what makes a flush cover the logs before it; with  *)
(* several workers in any order.  TaskPool is shown to implement it.       *)
(***************************************************************************)
EXTENDS Naturals, Sequences

CONSTANTS
    Request,  \* the calls of log and flush
    Ordered   \* whether requests are carried out in order

VARIABLES
    accepted,  \* the requests, in the order of their acceptance
    done,      \* the requests carried out, in that order
    open       \* whether requests are still accepted and carried out

pipeVars == <<accepted, done, open>>

Members(s) == {s[i] : i \in 1..Len(s)}

Init == accepted = <<>> /\ done = <<>> /\ open = TRUE

Accept(r) ==
    /\ open
    /\ r \notin Members(accepted)
    /\ accepted' = Append(accepted, r)
    /\ UNCHANGED <<done, open>>

\* one of the accepted requests is carried out; the first one, if Ordered
CarryOut(r) ==
    /\ open
    /\ r \in Members(accepted) \ Members(done)
    /\ Ordered => r = accepted[Len(done) + 1]
    /\ done' = Append(done, r)
    /\ UNCHANGED <<accepted, open>>

Close ==
    /\ open
    /\ Members(done) = Members(accepted)
    /\ open' = FALSE
    /\ UNCHANGED <<accepted, done>>

Next == (\E r \in Request : Accept(r) \/ CarryOut(r)) \/ Close

Spec == Init /\ [][Next]_pipeVars
==============================================================================
