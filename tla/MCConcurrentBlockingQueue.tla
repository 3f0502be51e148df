---------------------- MODULE MCConcurrentBlockingQueue ----------------------
(***************************************************************************)
(* Instances of ConcurrentBlockingQueue for TLC.  Each .cfg chooses which  *)
(* methods the threads call; the other values are shared.                  *)
(***************************************************************************)
EXTENDS ConcurrentBlockingQueue, TLC

CONSTANTS p1, p2, c1, c2

Items == Thread \X (1..MaxSent)

(* What the producers p1, p2 and the consumers c1, c2 may call.              *)

\* blocking calls, and a consumer that gives up
BlockingOps == (p1 :> {"enqueue_wait"} @@ p2 :> {"enqueue_wait"}
                @@ c1 :> {"dequeue_wait"} @@ c2 :> {"dequeue_wait_for"})
\* calls that time out, give up or overwrite
GivingUpOps == (p1 :> {"enqueue_wait_for", "enqueue_overrun"} @@ p2 :> {"enqueue_wait_for", "enqueue_try"}
                @@ c1 :> {"dequeue_wait_for"})
\* one consumer that polls, or two of them
PollingOps == [t \in Thread |-> IF t \in {p1, p2} THEN {"enqueue", "enqueue_try"} ELSE {"dequeue", "clear", "size"}]
RacingOps  == [t \in Thread |-> IF t = p1 THEN {"enqueue"} ELSE {"dequeue"}]
==============================================================================
