----------------------- MODULE MCSchedulePublication -----------------------
(* Small instances of SchedulePublication: a day of two ticks.  *)
EXTENDS SchedulePublication
=============================================================================
