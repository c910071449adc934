------------------------ MODULE MCBatteryScheduler ------------------------
(* BatteryScheduler with days of two steps and three powers. *)
EXTENDS BatteryScheduler
=============================================================================
