---------------------------- MODULE MCScheduler ----------------------------
(* Small instances of the scheduler.  "legacy" is a row whose task is no    *)
(* longer registered; "hourly" always fires after the same delay, "cron"    *)
(* after one that depends on the wall clock.                                *)
EXTENDS Scheduler

MCDelays == [s \in Schedules |-> IF s = "cron" THEN {1, 2} ELSE {2}]
=============================================================================
