------------------------------ MODULE LogWindow ------------------------------
(***************************************************************************)
(* What a rotating log file promises while the file system obeys: it keeps *)
(* a window of the logs.  Logs are numbered as they are made; new ones     *)
(* enter at one end, retention takes the oldest from the other, and a      *)
(* crash takes only logs that are newer than those made durable.           *)
(***************************************************************************)
EXTENDS Naturals

VARIABLES
    window,  \* the numbers of the logs kept
    durable  \* those that a crash cannot take

Init ==
    /\ window = {}
    /\ durable = {}

\* log: a newer log than all that are kept
Add ==
    \E n \in window' :
        /\ window' \ {n} = window
        /\ \A m \in window : m < n
        /\ UNCHANGED durable

\* flush, or the file is closed
Secure ==
    /\ durable' = window
    /\ UNCHANGED window

\* retention: a durable log goes and all that are older
DropOldest ==
    \E m \in durable :
        /\ window' = {n \in window : n > m}
        /\ durable' = {n \in durable : n > m}

\* crash: some of the newest go, none of them durable
DropUnsecured ==
    /\ durable \subseteq window'
    /\ window' \subseteq window
    /\ \A m \in window', n \in window \ window' : m < n
    /\ durable' = window'

Next == Add \/ Secure \/ DropOldest \/ DropUnsecured

Spec == Init /\ [][Next]_<<window, durable>>
==============================================================================
