---------------------------- MODULE MCFmsExchange ----------------------------
(* FmsExchange with few files, failures, crashes and publications. *)
EXTENDS FmsExchange
=============================================================================
