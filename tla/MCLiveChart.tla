----------------------------- MODULE MCLiveChart -----------------------------
(* LiveChart with two meters, the total and three ticks. *)
EXTENDS LiveChart
=============================================================================
