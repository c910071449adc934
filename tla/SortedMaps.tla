----------------------------- MODULE SortedMaps -----------------------------
(* The operations of a java.util.NavigableMap from times to jobs that the   *)
(* scheduler uses, as functions: put, remove, floorKey and ceilingKey.      *)
EXTENDS Integers

EmptyMap == [k \in {} |-> {}]

Put(m, k, d) == [x \in DOMAIN m \cup {k} |-> IF x = k THEN d ELSE m[x]]

\* Mutant: pollFirst()-like removal, of every key up to k.
WithoutHead(m, k) == [x \in {y \in DOMAIN m : y > k} |-> m[x]]
Without(m, k) == [x \in DOMAIN m \ {k} |-> m[x]]

\* The keys floorKey(t) returns: the greatest one up to t, none when it returns null.
FloorKeys(m, t) ==
    {k \in DOMAIN m : k <= t /\ \A j \in DOMAIN m : j <= t => j <= k}

\* floorKey(t) = null
NothingDue(m, t) == \A k \in DOMAIN m : k > t

\* ceilingKey(t) = null
NothingFrom(m, t) == \A k \in DOMAIN m : k < t

\* Math.max
Larger(a, b) == IF a > b THEN a ELSE b
=============================================================================
