------------------------------ MODULE MCRegistry ------------------------------
(* Instance of Registry for TLC: the first root logger, and a synchronous and *)
(* an asynchronous logger that share a name.                                  *)
EXTENDS Registry, TLC

CONSTANTS r, s, a, t1, t2

Naming == [l \in Logger |-> IF l = FirstRoot THEN "root" ELSE "shared"]

\* shutdown, and the calls that run into it; the functions in one step, which are
\* not given to a thread, run into all of them
Roles == t1 :> {"looked", "log", "raw", "init", "set_all", "flush_all"} @@ t2 :> {"removed", "pattern"}

Symmetry == Permutations(Value)
==============================================================================
