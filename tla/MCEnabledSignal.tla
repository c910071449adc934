-------------------------- MODULE MCEnabledSignal --------------------------
(* EnabledSignal with a register of a few coils. *)
EXTENDS EnabledSignal
=============================================================================
