--------------------------- MODULE MCBlockingQueue ---------------------------
(* Instance of BlockingQueue for TLC; the values are in MCBlockingQueue.cfg. *)
EXTENDS BlockingQueue
==============================================================================
