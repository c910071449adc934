------------------------ MODULE MCOptimizationQueue ------------------------
(* OptimizationQueue on a small instance: one initial publication and two     *)
(* updates, intervals of two seconds and a clock of a few seconds.            *)
EXTENDS OptimizationQueue
=============================================================================
