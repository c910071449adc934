------------------------- MODULE MCWampConnection -------------------------
(* WampConnection with a few lost connections and publications. *)
EXTENDS WampConnection
=============================================================================
