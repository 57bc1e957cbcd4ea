--------------------------- MODULE MCSchedulerLoop --------------------------
(* Instances of SchedulerLoop for TLC: small days.                         *)
EXTENDS SchedulerLoop

MCCheckinSets == {{1}, {5}, {4, 12}}
=============================================================================
