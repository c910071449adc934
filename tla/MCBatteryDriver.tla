-------------------------- MODULE MCBatteryDriver --------------------------
(* BatteryDriver with few levels of charge. *)
EXTENDS BatteryDriver
=============================================================================
