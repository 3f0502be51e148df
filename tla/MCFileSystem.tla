----------------------------- MODULE MCFileSystem ----------------------------
(* A directory d with the entries a and b, where a may be a directory too.   *)
EXTENDS FileSystem, TLC

CONSTANTS d, a, b, t1, t2

ParentOf == d :> Root @@ a :> d @@ b :> d
\* one operation, and two that may run in the middle of it
Turns == t1 :> 1 @@ t2 :> 2
AllOps == [t \in Thread |-> Operations]
==============================================================================
