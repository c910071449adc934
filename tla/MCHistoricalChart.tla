-------------------------- MODULE MCHistoricalChart --------------------------
(* HistoricalChart with one production meter. *)
EXTENDS HistoricalChart
=============================================================================
