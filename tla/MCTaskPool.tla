----------------------------- MODULE MCTaskPool ------------------------------
(* Instances of TaskPool for TLC: with one worker, the default of            *)
(* task_pool.h, and with several; the values are in the .cfg files.          *)
EXTENDS TaskPool
==============================================================================
