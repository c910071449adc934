---------------------------- MODULE JobService ----------------------------
(* What the optimization queue promises for the jobs it accepts: each one is *)
(* started exactly once, after it was accepted, and no two run at a time.    *)
CONSTANT Jobs

VARIABLES waiting,  \* accepted, not started
          current,  \* the job that runs, if any
          started   \* every job started so far

vars == <<waiting, current, started>>

Init == waiting = {} /\ current = {} /\ started = {}

Accept(j) ==
    /\ j \notin waiting \cup started
    /\ waiting' = waiting \cup {j}
    /\ UNCHANGED <<current, started>>

Start(j) ==
    /\ current = {}
    /\ j \in waiting
    /\ waiting' = waiting \ {j}
    /\ current' = {j}
    /\ started' = started \cup {j}

Finish ==
    /\ current # {}
    /\ current' = {}
    /\ UNCHANGED <<waiting, started>>

Next == Finish \/ \E j \in Jobs : Accept(j) \/ Start(j)

Spec == Init /\ [][Next]_vars
=============================================================================
