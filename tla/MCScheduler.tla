---------------------------- MODULE MCScheduler ----------------------------
(* Three processes: added by the main process before the scheduler runs or *)
(* by one another while it does.                                           *)
EXTENDS Scheduler
=============================================================================
