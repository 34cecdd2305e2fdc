---------------------------- MODULE MCSchedulerTick ----------------------------
(* Instances of SchedulerTick for TLC. *)
EXTENDS SchedulerTick, TLC

CONSTANTS s1, s2, p1, p2, e1, e2
===============================================================================
