----------------------------- MODULE MCScheduler -----------------------------
(***************************************************************************)
(* Model checking of Scheduler.  Six tasks, started at any moment, give    *)
(* every shape of the queue: empty, one waiting, several in any rotation,  *)
(* and a new task pushed into each of them.                                *)
(***************************************************************************)
EXTENDS Scheduler
=============================================================================
