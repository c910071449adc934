----------------------------- MODULE MCWebPanels -----------------------------
(* WebPanels with one battery: nothing that happens to one concerns another. *)
EXTENDS WebPanels
=============================================================================
