------------------------------ MODULE MCCInterface ------------------------------
(* Instance of CInterface for TLC: the root logger has a file, an             *)
(* asynchronous logger that file and a stream.                               *)
EXTENDS CInterface

CONSTANTS root, async, stream, file, pool

Wiring == [l \in Logger |-> IF l = root THEN <<file>> ELSE <<file, stream>>]
==============================================================================
