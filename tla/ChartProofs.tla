----------------------------- MODULE ChartProofs -----------------------------
(***************************************************************************)
(* Proofs about the charts of the web page, LiveChart and HistoricalChart, *)
(* for every set of lines, ticks and meters, every duration and every      *)
(* bound.                                                                  *)
(*                                                                         *)
(* Live chart: timers and transitions belong together, and in the list of  *)
(* timers nothing waits behind the lines; so the last transition of a      *)
(* redraw to end is that of a line, and the next redraw finds nothing of   *)
(* it.  Historical chart: the ages of what the server passes on, and the   *)
(* position at which the loop over two files is.                           *)
(***************************************************************************)
EXTENDS LiveChart, HistoricalChart, TLAPS, FiniteSetTheorems, SequenceTheorems

---------------------------------------------------------------------------
(* Numbers in order: the files of the historical chart and the timers of the live one. *)

\* A finite set of numbers in order: every element once, each smaller than the next.
LEMMA AscendingEnumerates ==
    ASSUME NEW S, IsFiniteSet(S), S \subseteq Int
    PROVE  /\ Cardinality(S) \in Nat
           /\ Ascending(S) \in [1..Cardinality(S) -> S]
           /\ \A i, j \in 1..Cardinality(S) : i < j => Ascending(S)[i] < Ascending(S)[j]
           /\ \A x \in S : \E i \in 1..Cardinality(S) : Ascending(S)[i] = x
<1> DEFINE n == Cardinality(S)
           below(x) == {y \in S : y < x}
           rank == [x \in S |-> Cardinality(below(x)) + 1]
<1>1. n \in Nat  BY FS_CardinalityType
<1>2. \A x \in S : IsFiniteSet(below(x)) /\ Cardinality(below(x)) \in Nat /\ Cardinality(below(x)) < n
  <2> SUFFICES ASSUME NEW x \in S
               PROVE  IsFiniteSet(below(x)) /\ Cardinality(below(x)) \in Nat /\ Cardinality(below(x)) < n
      OBVIOUS
  <2>1. below(x) \in SUBSET S /\ below(x) # S  OBVIOUS
  <2> HIDE DEF below
  <2>2. IsFiniteSet(below(x)) /\ Cardinality(below(x)) <= n /\ n # Cardinality(below(x))
        BY <2>1, FS_Subset
  <2>3. Cardinality(below(x)) \in Nat  BY <2>2, FS_CardinalityType
  <2> QED  BY <1>1, <2>2, <2>3
<1>3. ASSUME NEW x \in S, NEW y \in S, x < y PROVE rank[x] < rank[y]
  <2>0. x \in Int /\ y \in Int  OBVIOUS
  <2>1. x \in below(y) /\ x \notin below(x)  BY <1>3, <2>0
  <2>4. below(x) \in SUBSET below(y)
    <3>1. ASSUME NEW z \in S, z < x PROVE z < y
      <4>1. z \in Int  OBVIOUS
      <4> QED  BY <1>3, <2>0, <3>1, <4>1
    <3> QED  BY <3>1
  <2>2. below(x) # below(y)  BY <2>1
  <2> HIDE DEF below
  <2>3. Cardinality(below(x)) <= Cardinality(below(y)) /\ Cardinality(below(x)) # Cardinality(below(y))
        BY <1>2, <2>2, <2>4, FS_Subset
  <2> QED  BY <1>2, <2>3
<1>4. rank \in [S -> 1..n]  BY <1>1, <1>2
<1>5. \A x, y \in S : rank[x] = rank[y] => x = y
  <2> HIDE DEF rank
  <2> SUFFICES ASSUME NEW x \in S, NEW y \in S, rank[x] = rank[y], x # y PROVE FALSE  OBVIOUS
  <2>1. x < y \/ y < x  OBVIOUS
  <2>2. rank[x] \in Int /\ rank[y] \in Int  BY <1>4
  <2> QED  BY <1>3, <2>1, <2>2
<1>6. \A i \in 1..n : \E x \in S : rank[x] = i
  <2> HIDE DEF rank
  <2>1. rank \in Injection(S, 1..n)  BY <1>4, <1>5 DEF Injection, IsInjective
  <2>2. IsFiniteSet(1..n) /\ Cardinality(1..n) = n  BY <1>1, FS_Interval
  <2>3. rank \in Surjection(S, 1..n)  BY <2>1, <2>2, FS_Injection
  <2> QED  BY <2>3 DEF Surjection
<1>7. \A i \in 1..n : Ascending(S)[i] \in S /\ rank[Ascending(S)[i]] = i
  <2> SUFFICES ASSUME NEW i \in 1..n PROVE Ascending(S)[i] \in S /\ rank[Ascending(S)[i]] = i
      OBVIOUS
  <2>1. Ascending(S)[i] = CHOOSE x \in S : Cardinality(below(x)) = i - 1  BY DEF Ascending
  <2>2. PICK z \in S : rank[z] = i  BY <1>6
  <2>3. Cardinality(below(z)) = i - 1  BY <1>2, <2>2
  <2>4. Ascending(S)[i] \in S /\ Cardinality(below(Ascending(S)[i])) = i - 1  BY <2>1, <2>3
  <2> QED  BY <2>4
<1>8. Ascending(S) \in [1..n -> S]
  <2> DEFINE pick(i) == CHOOSE x \in S : Cardinality(below(x)) = i - 1
  <2>1. Ascending(S) = [i \in 1..n |-> pick(i)]  BY DEF Ascending
  <2> HIDE DEF pick
  <2>2. \A i \in 1..n : pick(i) \in S  BY <1>7, <2>1
  <2> QED  BY <2>1, <2>2
<1>9. ASSUME NEW i \in 1..n, NEW j \in 1..n, i < j PROVE Ascending(S)[i] < Ascending(S)[j]
  <2> DEFINE x == Ascending(S)[i]
             y == Ascending(S)[j]
  <2> HIDE DEF rank
  <2>1. x \in S /\ y \in S /\ rank[x] = i /\ rank[y] = j  BY <1>7
  <2> HIDE DEF x, y
  <2>2. x \in Int /\ y \in Int  BY <2>1
  <2>3. ~(y < x)
    <3>1. y < x => rank[y] < rank[x]  BY <1>3, <2>1
    <3> QED  BY <1>9, <2>1, <3>1
  <2>4. x # y  BY <1>9, <2>1
  <2> QED  BY <2>2, <2>3, <2>4 DEF x, y
<1>10. ASSUME NEW x \in S PROVE \E i \in 1..n : Ascending(S)[i] = x
  <2> HIDE DEF rank
  <2>1. rank[x] \in 1..n  BY <1>4
  <2>2. Ascending(S)[rank[x]] \in S /\ rank[Ascending(S)[rank[x]]] = rank[x]  BY <1>7, <2>1
  <2> QED  BY <1>5, <2>1, <2>2
<1> QED  BY <1>1, <1>8, <1>9, <1>10

---------------------------------------------------------------------------
(* The invariant of the live chart. *)

\* The calls of the timer a transition keeps until it ends.
Own == {"schedule", "start", "tick"}

\* The calls that wait for a transition in a state.
Fits(state, call) ==
    \/ call = "schedule" /\ state = "CREATED"
    \/ call \in {"start", "first tick"} /\ state = "STARTED"
    \/ call = "tick" /\ state = "RUNNING"

\* Two calls that one transition never waits for at once.
Alike(call, other) ==
    \/ call \in Own /\ other \in Own
    \/ call = "first tick" /\ other = "first tick"

\* The lines that have not ended.
Counting == {t \in transitions : t.end = "count"}

\* All transitions are of the latest redraw, one of each element at most; one that removes
\* its tick is of a tick that is not wanted.
TransitionsSound ==
    /\ transitions \subseteq Transition /\ IsFiniteSet(transitions)
    /\ \A t \in transitions :
           /\ t.ago = 0 /\ (t.end = "count" <=> t.node \in Lines)
           /\ t.end = "remove" => t.node \in Ticks /\ t.node \notin values
    /\ \A t, u \in transitions : t.node = u.node => t = u

\* The redraws before it are forgotten, and its n counts the lines.
RedrawSound ==
    /\ redraws \in Seq([n : 0..Cardinality(Lines), age : 0..Duration]) /\ Len(redraws) = 1
    /\ redraws[1].n = Cardinality(Counting)

\* A tick is wanted, or a transition removes it.
DocumentSound ==
    /\ document \subseteq Ticks /\ values \subseteq document
    /\ \A x \in document : x \in values \/ \E t \in transitions : t.node = x /\ t.end = "remove"

\* The list and the place of the frame in it.
TimersType ==
    /\ timers \in Seq(Timer) /\ cursor \in 0..(Len(timers) + 1) /\ alarm \in BOOLEAN

\* Whose timers there are.
TimersServe ==
    \A i \in DOMAIN timers : timers[i].call # "none" =>
        \E t \in transitions : TimerOf(t, timers[i].call) = timers[i] /\ Fits(t.state, timers[i].call)

\* No call waits twice.
OneOfEach ==
    \A i, k \in DOMAIN timers :
        /\ timers[i].node = timers[k].node
        /\ Alike(timers[i].call, timers[k].call)
        => i = k

\* No transition is forgotten.
Served ==
    \A t \in transitions :
        /\ \E i \in DOMAIN timers : timers[i].node = t.node /\ timers[i].call \in Own
        /\ t.state = "STARTED" => \E i \in DOMAIN timers : timers[i].node = t.node /\ timers[i].call = "first tick"

\* Whatever waits with a line waits before it or is a line.
LinesLast ==
    \A i, k \in DOMAIN timers :
        /\ i < k /\ timers[i].node \in Lines
        /\ Alike(timers[i].call, timers[k].call)
        => timers[k].node \in Lines

\* What the frame has called and what it will call.
AtCursor ==
    \A i \in DOMAIN timers :
        /\ timers[i].call \in {"schedule", "first tick"} => i >= cursor
        /\ timers[i].call = "start" => i < cursor
        /\ timers[i].call = "tick" => IF i < cursor THEN redraws[1].age < Duration
                                      ELSE \A t \in transitions : t.state = "RUNNING"

IInv ==
    /\ TransitionsSound /\ RedrawSound /\ DocumentSound /\ TimersType
    /\ TimersServe /\ OneOfEach /\ Served /\ LinesLast /\ AtCursor

---------------------------------------------------------------------------
(* A redraw of the live chart. *)

\* The elements of a finite set, each once.
LEMMA SetToSeqEnumerates ==
    ASSUME NEW S, IsFiniteSet(S)
    PROVE  /\ Cardinality(S) \in Nat /\ SetToSeq(S) \in [1..Cardinality(S) -> S]
           /\ \A k \in 1..Cardinality(S) : SetToSeq(S)[k] \in S
           /\ \A k, l \in 1..Cardinality(S) : SetToSeq(S)[k] = SetToSeq(S)[l] => k = l
           /\ \A x \in S : \E k \in 1..Cardinality(S) : SetToSeq(S)[k] = x
<1> DEFINE n == Cardinality(S)
           s == SetToSeq(S)
<1>1. n \in Nat /\ ExistsBijection(1..n, S)  BY FS_CardinalityType
<1>2. \E f \in [1..n -> S] : IsInjective(f)
      BY <1>1 DEF ExistsBijection, Bijection, Injection
<1>3. s \in [1..n -> S] /\ IsInjective(s)  BY <1>2 DEF SetToSeq
<1> HIDE DEF s
<1>4. s \in Injection(1..n, S)  BY <1>3 DEF Injection
<1>5. IsFiniteSet(1..n) /\ Cardinality(1..n) = n  BY <1>1, FS_Interval
<1>6. s \in Surjection(1..n, S)  BY <1>4, <1>5, FS_Injection
<1>7. \A k, l \in 1..n : s[k] = s[l] => k = l  BY <1>3 DEF IsInjective
<1>8. \A x \in S : \E k \in 1..n : s[k] = x  BY <1>6 DEF Surjection
<1> QED  BY <1>1, <1>3, <1>7, <1>8 DEF s

\* A sequence of the transitions in C, each once, all of different elements.
Lists(s, C) ==
    /\ s \in Seq(Transition) /\ Len(s) \in Nat /\ DOMAIN s = 1..Len(s)
    /\ \A i \in 1..Len(s) : s[i] \in C
    /\ \A t \in C : \E i \in 1..Len(s) : s[i] = t
    /\ \A i, k \in 1..Len(s) : s[i].node = s[k].node => i = k

\* The transitions of a selection.
CreatedFor(nodes, end) == {Created(x, end) : x \in nodes}

\* A transition that was just created (d3_transition: ids, time and listener set).
LEMMA CreatedFacts ==
    ASSUME NEW x \in Node, NEW end \in Listener
    PROVE  /\ Created(x, end) \in Transition
           /\ Created(x, end).node = x /\ Created(x, end).ago = 0
           /\ Created(x, end).end = end /\ Created(x, end).state = "CREATED"
BY DEF Created, Transition

\* The transitions of a selection: one for each element.
LEMMA EachLists ==
    ASSUME NEW S \in SUBSET Node, IsFiniteSet(S), NEW end \in Listener
    PROVE  Lists(Each(S, end), CreatedFor(S, end))
<1> DEFINE n == Cardinality(S)
           e == SetToSeq(S)
           s == Each(S, end)
<1>1. /\ n \in Nat /\ \A k \in 1..n : e[k] \in S
      /\ \A k, l \in 1..n : e[k] = e[l] => k = l
      /\ \A x \in S : \E k \in 1..n : e[k] = x
      BY SetToSeqEnumerates
<1>2. s = [k \in 1..n |-> Created(e[k], end)]  BY DEF Each
<1> HIDE DEF n, e, s
<1>3. \A k \in 1..n : s[k] = Created(e[k], end) /\ s[k] \in Transition /\ s[k].node = e[k]
      BY <1>1, <1>2, CreatedFacts
<1>4. s \in Seq(Transition) /\ Len(s) = n /\ DOMAIN s = 1..n
  <2>1. s \in [1..n -> Transition]
    <3>1. DOMAIN s = 1..n /\ \A k \in 1..n : s[k] \in Transition  BY <1>2, <1>3
    <3>2. s = [k \in 1..n |-> s[k]]  BY <1>2
    <3> QED  BY <3>1, <3>2
  <2> QED  BY <1>1, <2>1, LenProperties, SeqDef
<1>5. \A k \in 1..n : s[k] \in CreatedFor(S, end)  BY <1>1, <1>3 DEF CreatedFor
<1>6. \A t \in CreatedFor(S, end) : \E k \in 1..n : s[k] = t  BY <1>1, <1>3 DEF CreatedFor
<1>7. \A k, l \in 1..n : s[k].node = s[l].node => k = l  BY <1>1, <1>3
<1> QED  BY <1>1, <1>4, <1>5, <1>6, <1>7 DEF Lists, s

\* Concatenation and, below, assignment, as relations for the provers to match.
Joins(u, s, t) == u = s \o t

\* Two such sequences of different elements, one after the other.
LEMMA ConcatLists ==
    ASSUME NEW C, NEW D, NEW s, NEW t, Lists(s, C), Lists(t, D), \A x \in C, y \in D : x.node # y.node,
           NEW u, Joins(u, s, t)
    PROVE  /\ Lists(u, C \cup D) /\ Len(u) = Len(s) + Len(t)
           /\ \A i \in 1..Len(u) : (i <= Len(s) => u[i] \in C) /\ (~ (i <= Len(s)) => u[i] \in D)
<1> DEFINE m == Len(s)
           n == Len(t)
<1>1. /\ s \in Seq(Transition) /\ m \in Nat /\ \A i \in 1..m : s[i] \in C
      /\ \A x \in C : \E i \in 1..m : s[i] = x
      /\ \A i, k \in 1..m : s[i].node = s[k].node => i = k
      BY DEF Lists
<1>2. /\ t \in Seq(Transition) /\ n \in Nat /\ \A i \in 1..n : t[i] \in D
      /\ \A x \in D : \E i \in 1..n : t[i] = x
      /\ \A i, k \in 1..n : t[i].node = t[k].node => i = k
      BY DEF Lists
<1>3. /\ u \in Seq(Transition) /\ Len(u) = m + n
      /\ \A i \in 1..(m + n) : u[i] = IF i <= m THEN s[i] ELSE t[i - m]
      BY <1>1, <1>2, ConcatProperties DEF Joins
<1> HIDE DEF m, n
<1>4. \A i \in 1..m : i \in 1..(m + n) /\ i <= m /\ u[i] = s[i]  BY <1>1, <1>2, <1>3
<1>5. \A i \in 1..n : m + i \in 1..(m + n) /\ ~ (m + i <= m) /\ u[m + i] = t[i]
  <2> TAKE i \in 1..n
  <2>1. m + i \in 1..(m + n) /\ ~ (m + i <= m) /\ (m + i) - m = i  BY <1>1, <1>2
  <2> QED  BY <1>3, <2>1
<1>6. \A i \in 1..(m + n) : \/ i \in 1..m /\ i <= m
                            \/ ~ (i <= m) /\ \E k \in 1..n : i = m + k
  <2> TAKE i \in 1..(m + n)
  <2>1. CASE i <= m  BY <1>1, <1>2, <2>1
  <2>2. CASE ~ (i <= m)
    <3>1. i - m \in 1..n /\ i = m + (i - m)  BY <1>1, <1>2, <2>2
    <3> QED  BY <2>2, <3>1
  <2> QED  BY <2>1, <2>2
<1>7. \A i \in 1..(m + n) : (i <= m => u[i] \in C) /\ (~ (i <= m) => u[i] \in D)
  <2> TAKE i \in 1..(m + n)
  <2>1. CASE i \in 1..m /\ i <= m  BY <1>1, <1>4, <2>1
  <2>2. ASSUME ~ (i <= m), NEW k \in 1..n, i = m + k PROVE u[i] \in D  BY <1>2, <1>5, <2>2
  <2> QED  BY <1>6, <2>1, <2>2
<1>8. \A x \in C \cup D : \E i \in 1..(m + n) : u[i] = x
  <2>1. \A x \in C : \E i \in 1..(m + n) : u[i] = x  BY <1>1, <1>4
  <2>2. \A x \in D : \E i \in 1..(m + n) : u[i] = x  BY <1>2, <1>5
  <2> QED  BY <2>1, <2>2
<1>9. ASSUME NEW i \in 1..(m + n), NEW k \in 1..(m + n), u[i].node = u[k].node PROVE i = k
  <2>1. CASE i \in 1..m /\ k \in 1..m  BY <1>1, <1>4, <1>9, <2>1
  <2>2. CASE ~ (i <= m) /\ ~ (k <= m)
    <3>1. PICK a \in 1..n : i = m + a  BY <1>6, <2>2
    <3>2. PICK b \in 1..n : k = m + b  BY <1>6, <2>2
    <3>3. t[a].node = t[b].node  BY <1>5, <1>9, <3>1, <3>2
    <3>4. a = b  BY <1>2, <3>3
    <3> QED  BY <3>1, <3>2, <3>4
  <2>3. CASE i <= m /\ ~ (k <= m)  BY <1>7, <1>9, <2>3
  <2>4. CASE ~ (i <= m) /\ k <= m  BY <1>7, <1>9, <2>4
  <2> QED  BY <1>6, <2>1, <2>2, <2>3, <2>4
<1>10. m + n \in Nat /\ DOMAIN u = 1..(m + n)  BY <1>1, <1>2, <1>3
<1> QED  BY <1>3, <1>7, <1>8, <1>9, <1>10 DEF Lists, m, n

\* When the second one is about lines and the first is not, the lines come last.
LEMMA LinesAppended ==
    ASSUME NEW C, NEW D, NEW s, NEW t, Lists(s, C), Lists(t, D),
           \A x \in C : x.node \notin Lines, \A x \in D : x.node \in Lines,
           NEW u, Joins(u, s, t)
    PROVE  /\ Lists(u, C \cup D)
           /\ \A i, k \in 1..Len(u) : i < k /\ u[i].node \in Lines => u[k].node \in Lines
<1>1. \A x \in C, y \in D : x.node # y.node  OBVIOUS
<1>2. /\ Lists(u, C \cup D) /\ Len(u) = Len(s) + Len(t)
      /\ \A i \in 1..Len(u) : (i <= Len(s) => u[i] \in C) /\ (~ (i <= Len(s)) => u[i] \in D)
      BY <1>1, ConcatLists
<1>5. Len(s) \in Nat /\ Len(u) \in Nat  BY <1>2 DEF Lists
<1>3. ASSUME NEW i \in 1..Len(u), NEW k \in 1..Len(u), i < k, u[i].node \in Lines PROVE u[k].node \in Lines
  <2>1. ~ (i <= Len(s))  BY <1>2, <1>3
  <2>2. ~ (k <= Len(s))  BY <1>3, <1>5, <2>1
  <2> QED  BY <1>2, <2>2
<1> QED  BY <1>2, <1>3

\* The transitions of a redraw: those of the lines come last.
LEMMA ScheduledLists ==
    ASSUME NEW wanted \in SUBSET Ticks, document \subseteq Ticks
    PROVE  LET axes == {Created(Axis, "none")} \cup CreatedFor(wanted, "none")
                           \cup CreatedFor(document \ wanted, "remove")
               s == Scheduled(wanted)
           IN  /\ Lists(s, axes \cup CreatedFor(Lines, "count"))
               /\ \A i, k \in 1..Len(s) : i < k /\ s[i].node \in Lines => s[k].node \in Lines
<1> DEFINE A == {Created(Axis, "none")}
           W == CreatedFor(wanted, "none")
           R == CreatedFor(document \ wanted, "remove")
           C == CreatedFor(Lines, "count")
           a == <<Created(Axis, "none")>>
           w == Each(wanted, "none")
           r == Each(document \ wanted, "remove")
           c == Each(Lines, "count")
           L == document \ wanted
<1>1. /\ Axis \in Node /\ wanted \subseteq Node /\ L \subseteq Node /\ Lines \subseteq Node
      /\ "none" \in Listener /\ "remove" \in Listener /\ "count" \in Listener
      BY DEF Node, Listener
<1>2. IsFiniteSet(wanted) /\ IsFiniteSet(L) /\ IsFiniteSet(Lines)
  <2>1. L \in SUBSET Ticks  OBVIOUS
  <2> QED  BY <2>1, LiveChartAssumption, FS_Subset
<1>3. Lists(w, W) /\ Lists(r, R) /\ Lists(c, C)  BY <1>1, <1>2, EachLists
<1>4. Lists(a, A)
  <2>1. Created(Axis, "none") \in Transition  BY <1>1, CreatedFacts
  <2> DEFINE x == Created(Axis, "none")
  <2> HIDE DEF x
  <2>2. Lists(<<x>>, {x})  BY <2>1 DEF Lists, x
  <2> QED  BY <2>2 DEF x
<1>5. /\ \A t \in A : t.node = Axis
      /\ \A t \in W : t.node \in wanted
      /\ \A t \in R : t.node \in L
      /\ \A t \in C : t.node \in Lines
      BY <1>1, CreatedFacts DEF CreatedFor
<1>6. Axis \notin Ticks /\ Axis \notin Lines /\ Lines \cap Ticks = {}  BY LiveChartAssumption
<1> HIDE DEF A, W, R, C, a, w, r, c, L
<1>7. Lists(a \o w, A \cup W)
  <2>1. \A x \in A, y \in W : x.node # y.node  BY <1>5, <1>6
  <2>2. Joins(a \o w, a, w)  BY DEF Joins
  <2> QED  BY <1>3, <1>4, <2>1, <2>2, ConcatLists
<1>8. Lists((a \o w) \o r, (A \cup W) \cup R)
  <2>1. \A x \in A \cup W, y \in R : x.node # y.node  BY <1>5, <1>6 DEF L
  <2>2. Joins((a \o w) \o r, a \o w, r)  BY DEF Joins
  <2> QED  BY <1>3, <1>7, <2>1, <2>2, ConcatLists
<1>9. \A x \in (A \cup W) \cup R : x.node \notin Lines  BY <1>5, <1>6 DEF L
<1> DEFINE o == (a \o w) \o r
           O == (A \cup W) \cup R
           s == o \o c
<1>10. /\ Lists(s, O \cup C)
       /\ \A i, k \in 1..Len(s) : i < k /\ s[i].node \in Lines => s[k].node \in Lines
  <2>1. Lists(o, O) /\ Lists(c, C) /\ \A x \in O : x.node \notin Lines  BY <1>3, <1>8, <1>9
  <2>2. Joins(s, o, c)  BY DEF Joins
  <2> HIDE DEF o, O, s
  <2> QED  BY <1>5, <2>1, <2>2, LinesAppended
<1>11. Scheduled(wanted) = s  BY DEF Scheduled, OnAxes, a, w, r, c, L
<1> HIDE DEF s
<1> QED  BY <1>10, <1>11 DEF A, W, R, C, L

\* The elements of a redraw: of all lines, of the ticks that leave, and the rest.
LEMMA ScheduledFacts ==
    ASSUME NEW wanted \in SUBSET Ticks, document \subseteq Ticks
    PROVE  LET s == Scheduled(wanted)
           IN  /\ s \in Seq(Transition) /\ Len(s) \in Nat /\ DOMAIN s = 1..Len(s)
               /\ \A i \in 1..Len(s) :
                      /\ s[i].ago = 0 /\ s[i].state = "CREATED" /\ (s[i].end = "count" <=> s[i].node \in Lines)
                      /\ s[i].end = "remove" => s[i].node \in Ticks /\ s[i].node \notin wanted
                      /\ s[i].end = "count" => s[i] \in CreatedFor(Lines, "count")
               /\ \A i, k \in 1..Len(s) : s[i].node = s[k].node => i = k
               /\ \A x \in Lines : \E i \in 1..Len(s) : s[i] = Created(x, "count")
               /\ \A x \in document \ wanted : \E i \in 1..Len(s) : s[i].node = x /\ s[i].end = "remove"
               /\ \A i, k \in 1..Len(s) : i < k /\ s[i].node \in Lines => s[k].node \in Lines
<1> DEFINE axes == {Created(Axis, "none")} \cup CreatedFor(wanted, "none") \cup CreatedFor(document \ wanted, "remove")
           C == CreatedFor(Lines, "count")
           s == Scheduled(wanted)
<1>1. /\ Lists(s, axes \cup C)
      /\ \A i, k \in 1..Len(s) : i < k /\ s[i].node \in Lines => s[k].node \in Lines
      BY ScheduledLists
<1>2. /\ Axis \in Node /\ wanted \subseteq Node /\ document \subseteq Node /\ Lines \subseteq Node
      /\ "none" \in Listener /\ "remove" \in Listener /\ "count" \in Listener
      BY DEF Node, Listener
<1>3. Axis \notin Ticks /\ Axis \notin Lines /\ Lines \cap Ticks = {}  BY LiveChartAssumption
<1>4. ASSUME NEW t \in axes \cup C
      PROVE  /\ t.ago = 0 /\ t.state = "CREATED" /\ (t.end = "count" <=> t.node \in Lines)
             /\ t.end = "remove" => t.node \in Ticks /\ t.node \notin wanted
             /\ t.end = "count" => t \in C
  <2>1. CASE t = Created(Axis, "none")  BY <1>2, <1>3, <2>1, CreatedFacts
  <2>2. ASSUME NEW x \in wanted, t = Created(x, "none") PROVE <1>4!2
        BY <1>2, <1>3, <2>2, CreatedFacts
  <2>3. ASSUME NEW x \in document \ wanted, t = Created(x, "remove") PROVE <1>4!2
        BY <1>2, <1>3, <2>3, CreatedFacts
  <2>4. ASSUME NEW x \in Lines, t = Created(x, "count") PROVE <1>4!2
        BY <1>2, <1>3, <2>4, CreatedFacts DEF CreatedFor
  <2> QED  BY <2>1, <2>2, <2>3, <2>4 DEF CreatedFor
<1>5. \A x \in Lines : Created(x, "count") \in axes \cup C  BY DEF CreatedFor
<1>6. \A x \in document \ wanted :
         /\ Created(x, "remove") \in axes \cup C
         /\ Created(x, "remove").node = x /\ Created(x, "remove").end = "remove"
      BY <1>2, CreatedFacts DEF CreatedFor
<1> HIDE DEF axes, s
<1>7. /\ s \in Seq(Transition) /\ Len(s) \in Nat /\ DOMAIN s = 1..Len(s)
      /\ \A i \in 1..Len(s) : s[i] \in axes \cup C
      /\ \A t \in axes \cup C : \E i \in 1..Len(s) : s[i] = t
      /\ \A i, k \in 1..Len(s) : s[i].node = s[k].node => i = k
      BY <1>1 DEF Lists
<1> HIDE DEF C
<1>8. \A x \in Lines : \E i \in 1..Len(s) : s[i] = Created(x, "count")  BY <1>5, <1>7
<1>9. \A x \in document \ wanted : \E i \in 1..Len(s) : s[i].node = x /\ s[i].end = "remove"  BY <1>6, <1>7
<1>10. \A i \in 1..Len(s) :
                      /\ s[i].ago = 0 /\ s[i].state = "CREATED" /\ (s[i].end = "count" <=> s[i].node \in Lines)
                      /\ s[i].end = "remove" => s[i].node \in Ticks /\ s[i].node \notin wanted
                      /\ s[i].end = "count" => s[i] \in C
       BY <1>4, <1>7
<1> QED  BY <1>1, <1>7, <1>8, <1>9, <1>10 DEF s, C

\* After a redraw: its transitions, and their timers behind timers that are stopped.
FreshTimers(stopped) ==
    /\ stopped \in Seq(Timer) /\ \A i \in 1..Len(stopped) : stopped[i].call = "none"
    /\ timers = stopped \o Schedule(Scheduled(values))
    /\ cursor \in 0..(Len(stopped) + 1)
Fresh ==
    /\ document \subseteq Ticks /\ values \subseteq document
    /\ transitions = Range(Scheduled(values))
    /\ redraws = <<[n |-> Cardinality(Lines), age |-> 0]>>
    /\ \E stopped : FreshTimers(stopped)
    /\ alarm \in BOOLEAN

\* What a redraw leaves of the transitions, of the document and of its own n.
LEMMA FreshTransitions ==
    Fresh => TransitionsSound /\ DocumentSound /\ RedrawSound
<1> SUFFICES ASSUME Fresh PROVE TransitionsSound /\ DocumentSound /\ RedrawSound  OBVIOUS
<1> DEFINE s == Scheduled(values)
<1>1. document \subseteq Ticks /\ values \subseteq document /\ values \in SUBSET Ticks /\ transitions = Range(s)
      BY DEF Fresh
<1>2. /\ s \in Seq(Transition) /\ Len(s) \in Nat /\ DOMAIN s = 1..Len(s)
      /\ \A i \in 1..Len(s) :
             /\ s[i].ago = 0 /\ s[i].state = "CREATED" /\ (s[i].end = "count" <=> s[i].node \in Lines)
             /\ s[i].end = "remove" => s[i].node \in Ticks /\ s[i].node \notin values
             /\ s[i].end = "count" => s[i] \in CreatedFor(Lines, "count")
      /\ \A i, k \in 1..Len(s) : s[i].node = s[k].node => i = k
      /\ \A x \in Lines : \E i \in 1..Len(s) : s[i] = Created(x, "count")
      /\ \A x \in document \ values : \E i \in 1..Len(s) : s[i].node = x /\ s[i].end = "remove"
      BY <1>1, ScheduledFacts
<1> HIDE DEF s
<1>3. \A t : t \in transitions <=> \E i \in 1..Len(s) : t = s[i]  BY <1>1, <1>2 DEF Range
<1>4. transitions \subseteq Transition  BY <1>2, <1>3
<1>5. IsFiniteSet(transitions)
  <2>1. IsFiniteSet(1..Len(s))  BY <1>2, FS_Interval
  <2>2. s \in [1..Len(s) -> transitions]  BY <1>2, <1>3
  <2>3. s \in Surjection(1..Len(s), transitions)  BY <1>3, <2>2 DEF Surjection
  <2> QED  BY <2>1, <2>3, FS_Surjection
<1>6. TransitionsSound  BY <1>2, <1>3, <1>4, <1>5 DEF TransitionsSound
<1>7. DocumentSound  BY <1>1, <1>2, <1>3 DEF DocumentSound
<1>8. RedrawSound
  <2>1. \A x \in Lines : Created(x, "count").node = x /\ Created(x, "count").end = "count"
        BY CreatedFacts DEF Node, Listener
  <2>2. Counting = CreatedFor(Lines, "count")
    <3>1. ASSUME NEW t \in Counting PROVE t \in CreatedFor(Lines, "count")
          BY <1>2, <1>3 DEF Counting
    <3>2. ASSUME NEW x \in Lines PROVE Created(x, "count") \in Counting
          BY <1>2, <1>3, <2>1 DEF Counting
    <3> QED  BY <3>1, <3>2 DEF CreatedFor
  <2> DEFINE f == [x \in Lines |-> Created(x, "count")]
  <2>3. f \in Bijection(Lines, Counting)
    <3>1. f \in [Lines -> Counting]  BY <2>2 DEF CreatedFor
    <3>2. IsInjective(f)  BY <2>1 DEF IsInjective
    <3>3. \A t \in Counting : \E x \in Lines : f[x] = t  BY <2>2 DEF CreatedFor
    <3> HIDE DEF f
    <3> QED  BY <3>1, <3>2, <3>3 DEF Bijection, Injection, Surjection
  <2>4. ExistsBijection(Lines, Counting)  BY <2>3 DEF ExistsBijection
  <2>5. Cardinality(Counting) = Cardinality(Lines) /\ Cardinality(Lines) \in Nat
        BY <2>4, LiveChartAssumption, FS_Bijection, FS_CardinalityType
  <2>6. redraws = <<[n |-> Cardinality(Lines), age |-> 0]>>  BY DEF Fresh
  <2>7. [n |-> Cardinality(Lines), age |-> 0] \in [n : 0..Cardinality(Lines), age : 0..Duration]
        BY <2>5, LiveChartAssumption
  <2> QED  BY <2>5, <2>6, <2>7 DEF RedrawSound
<1> QED  BY <1>6, <1>7, <1>8

\* Their timers.
LEMMA ScheduleTimers ==
    ASSUME NEW s \in Seq(Transition)
    PROVE  /\ Schedule(s) \in Seq(Timer) /\ Len(Schedule(s)) = Len(s)
           /\ \A i \in 1..Len(s) : /\ Schedule(s)[i] = TimerOf(s[i], "schedule")
                                 /\ Schedule(s)[i].node = s[i].node /\ Schedule(s)[i].call = "schedule"
<1> DEFINE e == Schedule(s)
           n == Len(s)
<1>1. n \in Nat /\ DOMAIN s = 1..n /\ \A i \in 1..n : s[i] \in Transition  OBVIOUS
<1>2. e = [i \in 1..n |-> TimerOf(s[i], "schedule")]  BY <1>1 DEF Schedule
<1>3. \A t \in Transition : /\ TimerOf(t, "schedule") \in Timer /\ TimerOf(t, "schedule").node = t.node
                            /\ TimerOf(t, "schedule").call = "schedule"
      BY DEF Transition, Timer, TimerOf
<1> HIDE DEF e, n
<1>4. e \in [1..n -> Timer]
  <2>1. \A i \in 1..n : TimerOf(s[i], "schedule") \in Timer  BY <1>1, <1>3
  <2> QED  BY <1>2, <2>1
<1>5. e \in Seq(Timer) /\ Len(e) = n  BY <1>1, <1>4, LenProperties, SeqDef
<1>6. \A i \in 1..n : e[i] = TimerOf(s[i], "schedule")  BY <1>2
<1> QED  BY <1>1, <1>3, <1>5, <1>6 DEF e, n

\* The timers behind those there were: each stays where it is or is a new one.
LEMMA ConcatTimers ==
    ASSUME NEW s \in Seq(Timer), NEW t \in Seq(Timer), NEW u, Joins(u, s, t)
    PROVE  /\ u \in Seq(Timer) /\ Len(u) = Len(s) + Len(t) /\ DOMAIN u = 1..Len(u)
           /\ \A i \in 1..Len(s) : i \in DOMAIN u /\ u[i] = s[i]
           /\ \A i \in 1..Len(t) : Len(s) + i \in DOMAIN u /\ u[Len(s) + i] = t[i]
           /\ \A i \in DOMAIN u : i \in 1..Len(s) \/ \E k \in 1..Len(t) : i = Len(s) + k
<1> DEFINE m == Len(s)
           n == Len(t)
<1>1. m \in Nat /\ n \in Nat  OBVIOUS
<1>2. /\ u \in Seq(Timer) /\ Len(u) = m + n
      /\ \A i \in 1..(m + n) : u[i] = IF i <= m THEN s[i] ELSE t[i - m]
      BY ConcatProperties DEF Joins
<1>3. DOMAIN u = 1..(m + n)  BY <1>2
<1> HIDE DEF m, n
<1>4. \A i \in 1..m : i \in 1..(m + n) /\ u[i] = s[i]  BY <1>1, <1>2
<1>5. ASSUME NEW i \in 1..n PROVE m + i \in 1..(m + n) /\ u[m + i] = t[i]
  <2>1. m + i \in 1..(m + n) /\ ~ (m + i <= m) /\ (m + i) - m = i  BY <1>1
  <2> QED  BY <1>2, <2>1
<1>6. ASSUME NEW i \in 1..(m + n), i \notin 1..m PROVE \E k \in 1..n : i = m + k
  <2>1. i - m \in 1..n /\ i = m + (i - m)  BY <1>1, <1>6
  <2> QED  BY <2>1
<1> QED  BY <1>2, <1>3, <1>4, <1>5, <1>6 DEF m, n

\* The timers a redraw adds: each of a transition of its own, in the order of the lines.
LEMMA FreshTimersSound ==
    ASSUME Fresh, NEW stopped, FreshTimers(stopped)
    PROVE  TimersType /\ TimersServe /\ OneOfEach /\ Served /\ LinesLast /\ AtCursor
<1> DEFINE s == Scheduled(values)
           m == Len(stopped)
           n == Len(s)
           e == Schedule(s)
<1>1. document \subseteq Ticks /\ values \subseteq document /\ values \in SUBSET Ticks /\ transitions = Range(s)
      BY DEF Fresh
<1>2. /\ s \in Seq(Transition) /\ n \in Nat /\ DOMAIN s = 1..n
      /\ \A i \in 1..n : s[i].ago = 0 /\ s[i].state = "CREATED"
      /\ \A i, k \in 1..n : s[i].node = s[k].node => i = k
      /\ \A i, k \in 1..n : i < k /\ s[i].node \in Lines => s[k].node \in Lines
      BY <1>1, ScheduledFacts
<1>3. /\ e \in Seq(Timer) /\ Len(e) = n
      /\ \A i \in 1..n : /\ e[i] = TimerOf(s[i], "schedule")
                       /\ e[i].node = s[i].node /\ e[i].call = "schedule"
      BY <1>2, ScheduleTimers
<1> HIDE DEF s, e
<1>7. /\ stopped \in Seq(Timer) /\ m \in Nat /\ \A i \in 1..m : stopped[i].call = "none"
      /\ timers = stopped \o e /\ cursor \in 0..(m + 1)
      BY DEF FreshTimers, s, e
<1>8. /\ timers \in Seq(Timer) /\ Len(timers) = m + n
      /\ \A i \in 1..m : i \in DOMAIN timers /\ timers[i] = stopped[i]
      /\ \A k \in 1..n : m + k \in DOMAIN timers /\ timers[m + k] = e[k]
      /\ \A i \in DOMAIN timers : i \in 1..m \/ \E k \in 1..n : i = m + k
  <2>1. Joins(timers, stopped, e)  BY <1>7 DEF Joins
  <2>2. stopped \in Seq(Timer) /\ e \in Seq(Timer)  BY <1>3, <1>7
  <2>3. /\ timers \in Seq(Timer) /\ Len(timers) = m + Len(e) /\ DOMAIN timers = 1..Len(timers)
        /\ \A i \in 1..m : i \in DOMAIN timers /\ timers[i] = stopped[i]
        /\ \A i \in 1..Len(e) : m + i \in DOMAIN timers /\ timers[m + i] = e[i]
        /\ \A i \in DOMAIN timers : i \in 1..m \/ \E k \in 1..Len(e) : i = m + k
        BY <2>1, <2>2, ConcatTimers
  <2>4. Len(e) = n  BY <1>3
  <2> HIDE DEF m, n
  <2> QED  BY <2>3, <2>4
<1> HIDE DEF m, n
<1>9. /\ m \in Nat /\ n \in Nat /\ cursor \in Int /\ cursor <= m + 1
      /\ cursor \in 0..(Len(timers) + 1)
      BY <1>2, <1>7, <1>8
<1>10. ASSUME NEW i \in DOMAIN timers, timers[i].call # "none"
       PROVE  \E k \in 1..n : /\ i = m + k /\ i >= cursor
                              /\ timers[i] = TimerOf(s[k], "schedule")
                              /\ timers[i].call = "schedule" /\ timers[i].node = s[k].node
  <2>1. PICK k \in 1..n : i = m + k  BY <1>7, <1>8, <1>10
  <2>2. timers[i] = e[k]  BY <1>8, <2>1
  <2>3. i >= cursor  BY <1>9, <2>1
  <2> QED  BY <1>3, <2>1, <2>2, <2>3
<1>11. ASSUME NEW k \in 1..n
       PROVE  m + k \in DOMAIN timers /\ timers[m + k].call = "schedule" /\ timers[m + k].node = s[k].node
       BY <1>3, <1>8
<1>12. \A t : t \in transitions <=> \E k \in 1..n : t = s[k]  BY <1>1, <1>2 DEF Range
<1>13. TimersType  BY <1>8, <1>9 DEF TimersType, Fresh
<1>14. TimersServe
  <2> SUFFICES ASSUME NEW i \in DOMAIN timers, timers[i].call # "none"
               PROVE  \E t \in transitions : TimerOf(t, timers[i].call) = timers[i] /\ Fits(t.state, timers[i].call)
      BY DEF TimersServe
  <2>1. PICK k \in 1..n : timers[i] = TimerOf(s[k], "schedule") /\ timers[i].call = "schedule"  BY <1>10
  <2>2. s[k] \in transitions /\ s[k].state = "CREATED"  BY <1>2, <1>12
  <2> QED  BY <2>1, <2>2 DEF Fits
<1>15. OneOfEach
  <2> SUFFICES ASSUME NEW i \in DOMAIN timers, NEW k \in DOMAIN timers, timers[i].node = timers[k].node,
                      Alike(timers[i].call, timers[k].call)
               PROVE  i = k
      BY DEF OneOfEach
  <2>1. timers[i].call # "none" /\ timers[k].call # "none"  BY DEF Alike, Own
  <2> QED  BY <1>2, <1>10, <2>1
<1>16. Served
  <2> SUFFICES ASSUME NEW t \in transitions
               PROVE  /\ \E i \in DOMAIN timers : timers[i].node = t.node /\ timers[i].call \in Own
                      /\ t.state # "STARTED"
      BY DEF Served
  <2>1. PICK k \in 1..n : t = s[k]  BY <1>12
  <2>2. m + k \in DOMAIN timers /\ timers[m + k].call = "schedule" /\ timers[m + k].node = t.node
        BY <1>11, <2>1
  <2> QED  BY <1>2, <2>1, <2>2 DEF Own
<1>17. LinesLast
  <2> SUFFICES ASSUME NEW i \in DOMAIN timers, NEW k \in DOMAIN timers, i < k, timers[i].node \in Lines,
                      Alike(timers[i].call, timers[k].call)
               PROVE  timers[k].node \in Lines
      BY DEF LinesLast
  <2>1. timers[i].call # "none" /\ timers[k].call # "none"  BY DEF Alike, Own
  <2>2. PICK a \in 1..n : i = m + a /\ timers[i].node = s[a].node  BY <1>10, <2>1
  <2>3. PICK b \in 1..n : k = m + b /\ timers[k].node = s[b].node  BY <1>10, <2>1
  <2>4. a < b  BY <1>9, <2>2, <2>3
  <2> QED  BY <1>2, <2>2, <2>3, <2>4
<1>18. AtCursor
  <2> SUFFICES ASSUME NEW i \in DOMAIN timers, timers[i].call # "none"
               PROVE  timers[i].call = "schedule" /\ i >= cursor
      BY DEF AtCursor
  <2> QED  BY <1>10
<1> QED  BY <1>13, <1>14, <1>15, <1>16, <1>17, <1>18

\* A redraw leaves the invariant, whatever there was before.
LEMMA FreshSound == Fresh => IInv
<1> SUFFICES ASSUME Fresh PROVE IInv  OBVIOUS
<1>1. PICK stopped : FreshTimers(stopped)  BY DEF Fresh
<1> QED  BY <1>1, FreshTransitions, FreshTimersSound DEF IInv

\* The first redraw (Init).
LEMMA InitIInv == Init => IInv
<1> SUFFICES ASSUME Init PROVE Fresh  BY FreshSound
<1>1. document \subseteq Ticks /\ values \subseteq document  BY DEF Init
<1>2. FreshTimers(<<>>)
  <2> DEFINE s == Scheduled(values)
             e == Schedule(s)
  <2>1. s \in Seq(Transition) /\ Len(s) \in Nat /\ DOMAIN s = 1..Len(s)  BY <1>1, ScheduledFacts
  <2> HIDE DEF s
  <2>4. e \in Seq(Timer)
    <3>1. s \in Seq(Transition)  BY <2>1
    <3> HIDE DEF s
    <3> QED  BY <3>1, ScheduleTimers, Zenon
  <2> HIDE DEF e
  <2>5. <<>> \o e = e /\ <<>> \in Seq(Timer) /\ Len(<<>>) = 0  BY <2>4, ConcatEmptySeq
  <2>6. timers = e /\ cursor = 0  BY DEF Init, e, s
  <2> QED  BY <2>5, <2>6 DEF FreshTimers, e, s
<1> QED  BY <1>1, <1>2 DEF Init, Fresh

---------------------------------------------------------------------------
(* Timers and transitions. *)

\* What a timer can call.
Call == {"schedule", "start", "first tick", "tick", "none"}

\* What a timer of a transition tells of it.
LEMMA TimerOfFacts ==
    ASSUME NEW t \in Transition, NEW call \in Call
    PROVE  /\ TimerOf(t, call) \in Timer /\ TimerOf(t, call).node = t.node
           /\ TimerOf(t, call).ago = t.ago /\ TimerOf(t, call).call = call
BY DEF Transition, Timer, TimerOf, Call

\* The list of timers.
LEMMA TimersFacts ==
    ASSUME NEW list \in Seq(Timer)
    PROVE  /\ Len(list) \in Nat /\ DOMAIN list = 1..Len(list) /\ list \in [1..Len(list) -> Timer]
           /\ \A i \in DOMAIN list : list[i] \in Timer /\ list[i].call \in Call
<1>1. Len(list) \in Nat /\ DOMAIN list = 1..Len(list) /\ list \in [1..Len(list) -> Timer]
      BY LenProperties
<1> QED  BY <1>1 DEF Timer, Call

\* A timer about the element of a transition is a timer of that transition.
LEMMA ItsTimer ==
    ASSUME IInv, NEW t \in transitions, NEW i \in DOMAIN timers, timers[i].node = t.node, timers[i].call # "none"
    PROVE  timers[i] = TimerOf(t, timers[i].call) /\ Fits(t.state, timers[i].call)
<1>1. timers[i].call \in Call
  <2>1. timers \in Seq(Timer)  BY DEF IInv, TimersType
  <2> QED  BY <2>1, TimersFacts
<1>2. PICK u \in transitions : TimerOf(u, timers[i].call) = timers[i] /\ Fits(u.state, timers[i].call)
      BY DEF IInv, TimersServe
<1>3. u \in Transition  BY DEF IInv, TransitionsSound
<1>4. u.node = t.node  BY <1>1, <1>2, <1>3, TimerOfFacts
<1>5. u = t  BY <1>4 DEF IInv, TransitionsSound
<1> QED  BY <1>2, <1>5

\* A list with another call of timer i.
CallSet(list, old, i, call) == list = [old EXCEPT ![i].call = call]

\* Such a list differs in that call alone.
LEMMA CallSetFacts ==
    ASSUME NEW old \in Seq(Timer), NEW i \in DOMAIN old,
           NEW call \in Call,
           NEW list, CallSet(list, old, i, call)
    PROVE  /\ list \in Seq(Timer) /\ Len(list) = Len(old) /\ DOMAIN list = DOMAIN old
           /\ \A k \in DOMAIN old : k # i => list[k] = old[k]
           /\ list[i].call = call /\ list[i].node = old[i].node /\ list[i].ago = old[i].ago
<1>1. old[i] \in Timer /\ Len(old) \in Nat /\ DOMAIN old = 1..Len(old) /\ old \in [1..Len(old) -> Timer]
      BY TimersFacts
<1> DEFINE r == [old[i] EXCEPT !.call = call]
<1>2. r \in Timer /\ r.call = call /\ r.node = old[i].node /\ r.ago = old[i].ago  BY <1>1 DEF Timer, Call
<1> HIDE DEF r
<1>3. list = [old EXCEPT ![i] = r]  BY DEF CallSet, r
<1>4. list \in Seq(Timer) /\ Len(list) = Len(old) /\ DOMAIN list = DOMAIN old
  <2>1. list \in [1..Len(old) -> Timer]  BY <1>1, <1>2, <1>3
  <2> QED  BY <1>1, <2>1, LenProperties, SeqDef
<1>5. list[i] = r /\ \A k \in DOMAIN old : k # i => list[k] = old[k]  BY <1>3
<1> QED  BY <1>2, <1>4, <1>5

\* A transition with another state is the same for all but its timers.
LEMMA BecomesFacts ==
    ASSUME IInv, NEW self \in transitions, NEW state \in {"STARTED", "RUNNING"},
           NEW next, next = [self EXCEPT !.state = state]
    PROVE  /\ next \in Transition /\ next.state = state
           /\ next.node = self.node /\ next.ago = self.ago /\ next.end = self.end
           /\ Becomes(self, state) = {next} \cup (transitions \ {self})
<1>1. self \in Transition  BY DEF IInv, TransitionsSound
<1> QED  BY <1>1 DEF Transition, Becomes

\* A transition that goes on is counted, awaited and removed as before.
LEMMA BecomesSound ==
    ASSUME IInv, NEW self \in transitions, NEW state \in {"STARTED", "RUNNING"},
           transitions' = Becomes(self, state), UNCHANGED <<document, values, redraws>>
    PROVE  TransitionsSound' /\ RedrawSound' /\ DocumentSound'
<1> DEFINE next == [self EXCEPT !.state = state]
<1>1. /\ next \in Transition /\ next.state = state
      /\ next.node = self.node /\ next.ago = self.ago /\ next.end = self.end
      /\ transitions' = {next} \cup (transitions \ {self})
      BY BecomesFacts
<1> HIDE DEF next
<1>2. /\ transitions \subseteq Transition /\ IsFiniteSet(transitions)
      /\ \A t \in transitions : /\ t.ago = 0 /\ (t.end = "count" <=> t.node \in Lines)
                                /\ t.end = "remove" => t.node \in Ticks /\ t.node \notin values
      /\ \A t, u \in transitions : t.node = u.node => t = u
      BY DEF IInv, TransitionsSound
<1>3. IsFiniteSet(transitions')
  <2>1. transitions \ {self} \in SUBSET transitions  OBVIOUS
  <2>2. IsFiniteSet(transitions \ {self})  BY <1>2, <2>1, FS_Subset
  <2>3. IsFiniteSet((transitions \ {self}) \cup {next})  BY <2>2, FS_AddElement
  <2>4. transitions' = (transitions \ {self}) \cup {next}  BY <1>1
  <2> QED  BY <2>3, <2>4
<1>4. \A t, u \in transitions' : t.node = u.node => t = u  BY <1>1, <1>2
<1>5. TransitionsSound'  BY <1>1, <1>2, <1>3, <1>4 DEF TransitionsSound
<1>6. Cardinality(Counting') = Cardinality(Counting)
  <2>1. CASE self.end # "count"
    <3>1. Counting' = Counting  BY <1>1, <2>1 DEF Counting
    <3> QED  BY <3>1
  <2>2. CASE self.end = "count"
    <3> DEFINE others == Counting \ {self}
    <3>1. Counting' = others \cup {next}  BY <1>1, <2>2 DEF Counting
    <3>2. Counting = others \cup {self}  BY <2>2 DEF Counting
    <3>3. self \notin others /\ next \notin others  BY <1>1, <1>2 DEF Counting
    <3>4. IsFiniteSet(others)
      <4>1. others \in SUBSET transitions  BY DEF Counting
      <4> QED  BY <1>2, <4>1, FS_Subset
    <3> HIDE DEF others
    <3>5. Cardinality(others \cup {self}) = Cardinality(others) + 1  BY <3>3, <3>4, FS_AddElement
    <3>6. Cardinality(others \cup {next}) = Cardinality(others) + 1  BY <3>3, <3>4, FS_AddElement
    <3> QED  BY <3>1, <3>2, <3>5, <3>6
  <2> QED  BY <2>1, <2>2
<1>7. RedrawSound'  BY <1>6 DEF IInv, RedrawSound
<1>8. DocumentSound'
  <2>1. /\ document \subseteq Ticks /\ values \subseteq document
        /\ \A x \in document : x \in values \/ \E t \in transitions : t.node = x /\ t.end = "remove"
        BY DEF IInv, DocumentSound
  <2>2. ASSUME NEW x \in document, x \notin values
        PROVE  \E t \in transitions' : t.node = x /\ t.end = "remove"
    <3>1. PICK t \in transitions : t.node = x /\ t.end = "remove"  BY <2>1, <2>2
    <3> QED  BY <1>1, <3>1
  <2> QED  BY <2>1, <2>2 DEF DocumentSound
<1> QED  BY <1>5, <1>7, <1>8

\* What the timer the frame is at says of the transition it is about.
LEMMA CallsFacts ==
    ASSUME IInv, NEW calls, NEW self \in transitions, Calls(calls, self)
    PROVE  /\ cursor \in DOMAIN timers /\ cursor \in Nat /\ cursor' = cursor + 1 /\ alarm' \in BOOLEAN
           /\ DOMAIN timers = 1..Len(timers) /\ Len(timers) \in Nat
           /\ timers[cursor].call \in calls /\ timers[cursor].node = self.node
           /\ timers[cursor].call # "none" => Fits(self.state, timers[cursor].call)
           /\ self \in Transition /\ self.ago = 0
<1>1. /\ cursor \in DOMAIN timers /\ timers[cursor].call \in calls
      /\ timers[cursor] = TimerOf(self, timers[cursor].call)
      /\ cursor' = cursor + 1 /\ alarm' = alarm
      BY DEF Calls
<1>2. /\ timers \in Seq(Timer) /\ alarm \in BOOLEAN /\ cursor \in 0..(Len(timers) + 1)
      BY DEF IInv, TimersType
<1>3. self \in Transition /\ self.ago = 0  BY DEF IInv, TransitionsSound
<1>4. timers[cursor].call \in Call /\ Len(timers) \in Nat /\ DOMAIN timers = 1..Len(timers)
      BY <1>1, <1>2, TimersFacts
<1>5. timers[cursor].node = self.node  BY <1>1, <1>3, <1>4, TimerOfFacts
<1>6. timers[cursor].call # "none" => Fits(self.state, timers[cursor].call)
      BY <1>1, <1>5, ItsTimer
<1> QED  BY <1>1, <1>2, <1>3, <1>4, <1>5, <1>6

\* What the invariant says, part by part.
LEMMA TimersThere ==
    IInv => timers \in Seq(Timer) /\ DOMAIN timers = 1..Len(timers) /\ Len(timers) \in Nat /\ cursor \in Nat
BY TimersFacts DEF IInv, TimersType

LEMMA NoDouble ==
    ASSUME IInv, NEW i \in DOMAIN timers, NEW k \in DOMAIN timers,
           timers[i].node = timers[k].node, Alike(timers[i].call, timers[k].call)
    PROVE  i = k
BY DEF IInv, OneOfEach

LEMMA ToLines ==
    ASSUME IInv, NEW i \in DOMAIN timers, NEW k \in DOMAIN timers, i < k, timers[i].node \in Lines,
           Alike(timers[i].call, timers[k].call)
    PROVE  timers[k].node \in Lines
BY DEF IInv, LinesLast

LEMMA ItsOwn ==
    ASSUME IInv, NEW t \in transitions
    PROVE  \E i \in DOMAIN timers : timers[i].node = t.node /\ timers[i].call \in Own /\ Fits(t.state, timers[i].call)
<1>1. PICK i \in DOMAIN timers : timers[i].node = t.node /\ timers[i].call \in Own  BY DEF IInv, Served
<1>2. timers[i].call # "none"  BY <1>1 DEF Own
<1> QED  BY <1>1, <1>2, ItsTimer

LEMMA ItsFirst ==
    ASSUME IInv, NEW t \in transitions, t.state = "STARTED"
    PROVE  \E i \in DOMAIN timers : timers[i].node = t.node /\ timers[i].call = "first tick"
BY DEF IInv, Served

LEMMA ItsTransition ==
    ASSUME IInv, NEW i \in DOMAIN timers, timers[i].call # "none"
    PROVE  \E t \in transitions : /\ TimerOf(t, timers[i].call) = timers[i] /\ t.node = timers[i].node
                                  /\ Fits(t.state, timers[i].call)
<1>1. PICK t \in transitions : TimerOf(t, timers[i].call) = timers[i] /\ Fits(t.state, timers[i].call)
      BY DEF IInv, TimersServe
<1>2. t.node = timers[i].node  BY <1>1 DEF TimerOf
<1> QED  BY <1>1, <1>2

LEMMA Waiting ==
    ASSUME IInv, NEW i \in DOMAIN timers
    PROVE  /\ timers[i].call \in {"schedule", "first tick"} => i >= cursor
           /\ timers[i].call = "start" => i < cursor
           /\ timers[i].call = "tick" /\ i < cursor => redraws[1].age < Duration
           /\ timers[i].call = "tick" /\ ~ (i < cursor) => \A t \in transitions : t.state = "RUNNING"
BY DEF IInv, AtCursor

LEMMA OneEach ==
    ASSUME IInv, NEW t \in transitions
    PROVE  /\ t \in Transition /\ t.ago = 0
           /\ \A u \in transitions : t.node = u.node => t = u
BY DEF IInv, TransitionsSound

---------------------------------------------------------------------------
(* The start of a transition. *)

\* schedule: the timer waits for the end, and a new one for the first tick.
LEMMA StartKeeps ==
    ASSUME IInv, NEW self \in transitions, Start(self) PROVE IInv'
<1>1. /\ Calls({"schedule"}, self)
      /\ transitions' = Becomes(self, "STARTED")
      /\ timers' = Append([timers EXCEPT ![cursor].call = "start"], TimerOf(self, "first tick"))
      /\ UNCHANGED <<document, values, redraws>>
      BY DEF Start
<1>2. /\ cursor \in DOMAIN timers /\ cursor \in Nat /\ cursor' = cursor + 1 /\ alarm' \in BOOLEAN
      /\ DOMAIN timers = 1..Len(timers) /\ Len(timers) \in Nat
      /\ timers[cursor].call = "schedule" /\ timers[cursor].node = self.node
      /\ Fits(self.state, "schedule") /\ self \in Transition /\ self.ago = 0
  <2>1. Calls({"schedule"}, self)  BY <1>1
  <2>2. timers[cursor].call \in {"schedule"}  BY <2>1, CallsFacts
  <2> QED  BY <2>1, <2>2, CallsFacts
<1>3. self.state = "CREATED"  BY <1>2 DEF Fits
<1>4. TransitionsSound' /\ RedrawSound' /\ DocumentSound'  BY <1>1, BecomesSound
<1> DEFINE next == [self EXCEPT !.state = "STARTED"]
           list == [timers EXCEPT ![cursor].call = "start"]
           last == Len(timers) + 1
<1>5. /\ next \in Transition /\ next.state = "STARTED"
      /\ next.node = self.node /\ next.ago = self.ago
      /\ transitions' = {next} \cup (transitions \ {self})
      BY <1>1, BecomesFacts
<1>6. CallSet(list, timers, cursor, "start")  BY DEF CallSet
<1>7. timers \in Seq(Timer)  BY TimersThere
<1> HIDE DEF next, list
<1>8. /\ list \in Seq(Timer) /\ Len(list) = Len(timers) /\ DOMAIN list = DOMAIN timers
      /\ \A k \in DOMAIN timers : k # cursor => list[k] = timers[k]
      /\ list[cursor].call = "start" /\ list[cursor].node = self.node /\ list[cursor].ago = timers[cursor].ago
  <2>1. "start" \in Call  BY DEF Call
  <2> QED  BY <1>2, <1>6, <1>7, <2>1, CallSetFacts
<1>9. TimerOf(self, "first tick") \in Timer /\ TimerOf(self, "first tick").node = self.node
      /\ TimerOf(self, "first tick").call = "first tick"
      BY <1>2, TimerOfFacts DEF Call
<1>10. /\ timers' \in Seq(Timer) /\ Len(timers') = last /\ DOMAIN timers' = 1..last
       /\ \A k \in DOMAIN timers : k \in DOMAIN timers' /\ timers'[k] = list[k]
       /\ last \in DOMAIN timers' /\ timers'[last] = TimerOf(self, "first tick")
  <2> DEFINE x == TimerOf(self, "first tick")
  <2>1. timers' = Append(list, x) /\ x \in Timer  BY <1>1, <1>9 DEF list
  <2> HIDE DEF x
  <2>2. /\ timers' \in Seq(Timer) /\ Len(timers') = Len(list) + 1
        /\ \A k \in 1..Len(list) : timers'[k] = list[k]
        /\ timers'[Len(list) + 1] = x
        BY <1>8, <2>1, AppendProperties
  <2>3. DOMAIN timers' = 1..Len(timers')  BY <2>2, TimersFacts
  <2>4. Len(timers') = last /\ DOMAIN timers' = 1..last  BY <1>8, <2>2, <2>3
  <2>5. \A k \in DOMAIN timers : k \in 1..last  BY <1>2
  <2>6. last \in 1..last  BY <1>2
  <2> QED  BY <1>2, <1>8, <2>2, <2>4, <2>5, <2>6 DEF x
<1> DEFINE Old(i) == i \in DOMAIN timers /\ i # cursor /\ timers'[i] = timers[i]
           Now(i) == i = cursor /\ timers'[i].call = "start" /\ timers'[i].node = self.node
           New(i) == i = last /\ timers'[i].call = "first tick" /\ timers'[i].node = self.node
<1>11. ASSUME NEW i \in DOMAIN timers' PROVE Old(i) \/ Now(i) \/ New(i)
  <2>0. DOMAIN timers' = 1..last  BY <1>10
  <2>1. i \in DOMAIN timers \/ i = last  BY <1>2, <2>0
  <2> QED  BY <1>8, <1>9, <1>10, <2>1
<1>12. /\ cursor \in DOMAIN timers' /\ Now(cursor) /\ last \in DOMAIN timers' /\ New(last)
       /\ \A i \in DOMAIN timers : i # cursor => i \in DOMAIN timers' /\ Old(i)
       BY <1>2, <1>8, <1>9, <1>10
\* No other timer is about self.
<1>13. ASSUME NEW i \in DOMAIN timers, i # cursor, timers[i].node = self.node PROVE timers[i].call = "none"
  <2> SUFFICES ASSUME timers[i].call # "none" PROVE FALSE  OBVIOUS
  <2>1. Fits("CREATED", timers[i].call)  BY <1>3, <1>13, ItsTimer
  <2>2. timers[i].call = "schedule"  BY <2>1 DEF Fits
  <2>3. Alike(timers[i].call, timers[cursor].call)  BY <1>2, <2>2 DEF Alike, Own
  <2> QED  BY <1>2, <1>13, <2>3, NoDouble
<1>14. TimersType'
  <2>0. Len(timers') = Len(timers) + 1  BY <1>10
  <2>1. cursor' \in 0..(Len(timers') + 1)  BY <1>2, <2>0
  <2> QED  BY <1>2, <1>10, <2>1 DEF TimersType
<1>15. TimersServe'
  <2> SUFFICES ASSUME NEW i \in DOMAIN timers', timers'[i].call # "none"
               PROVE  \E t \in transitions' : TimerOf(t, timers'[i].call) = timers'[i] /\ Fits(t.state, timers'[i].call)
      BY DEF TimersServe
  <2>1. CASE Old(i)
    <3>1. PICK t \in transitions : TimerOf(t, timers[i].call) = timers[i] /\ Fits(t.state, timers[i].call)
                                   /\ t.node = timers[i].node
          BY <2>1, ItsTransition
    <3>2. timers[i].node = t.node  BY <3>1
    <3>3. t # self  BY <1>13, <2>1, <3>2
    <3> QED  BY <1>5, <2>1, <3>1, <3>3
  <2>2. CASE Now(i)
    <3>1. timers[cursor] = TimerOf(self, "schedule")  BY <1>2, ItsTimer
    <3>2. list[cursor] = TimerOf(next, "start")
      <4>1. list[cursor] = [timers[cursor] EXCEPT !.call = "start"]  BY <1>2, <1>7 DEF list
      <4> QED  BY <1>5, <3>1, <4>1 DEF TimerOf
    <3>3. timers'[i] = TimerOf(next, "start")  BY <1>2, <1>10, <2>2, <3>2
    <3>4. next \in transitions' /\ Fits(next.state, "start")  BY <1>5 DEF Fits
    <3> QED  BY <2>2, <3>3, <3>4
  <2>3. CASE New(i)
    <3>1. timers'[i] = TimerOf(next, "first tick")  BY <1>5, <1>10, <2>3 DEF TimerOf
    <3>2. next \in transitions' /\ Fits(next.state, "first tick")  BY <1>5 DEF Fits
    <3> QED  BY <2>3, <3>1, <3>2
  <2> QED  BY <1>11, <2>1, <2>2, <2>3
<1>16. OneOfEach'
  <2> SUFFICES ASSUME NEW i \in DOMAIN timers', NEW k \in DOMAIN timers',
                      timers'[i].node = timers'[k].node, Alike(timers'[i].call, timers'[k].call)
               PROVE  i = k
      BY DEF OneOfEach
  <2>1. CASE Old(i) /\ Old(k)  BY <2>1, NoDouble
  <2>2. CASE Old(i) /\ ~ Old(k)
    <3>1. timers[i].node = self.node  BY <1>11, <2>2
    <3>2. timers'[i].call = "none"  BY <1>13, <2>2, <3>1
    <3> QED  BY <3>2 DEF Alike, Own
  <2>3. CASE ~ Old(i) /\ Old(k)
    <3>1. timers[k].node = self.node  BY <1>11, <2>3
    <3>2. timers'[k].call = "none"  BY <1>13, <2>3, <3>1
    <3> QED  BY <3>2 DEF Alike, Own
  <2>4. CASE ~ Old(i) /\ ~ Old(k)  BY <1>11, <2>4 DEF Alike, Own
  <2> QED  BY <2>1, <2>2, <2>3, <2>4
<1>17. Served'
  <2> SUFFICES ASSUME NEW t \in transitions'
               PROVE  /\ \E i \in DOMAIN timers' : timers'[i].node = t.node /\ timers'[i].call \in Own
                      /\ t.state = "STARTED" =>
                             \E i \in DOMAIN timers' : timers'[i].node = t.node /\ timers'[i].call = "first tick"
      BY DEF Served
  <2>1. CASE t = next  BY <1>5, <1>12, <2>1 DEF Own
  <2>2. CASE t \in transitions /\ t # self
    <3>1. t.node # self.node  BY <2>2, OneEach
    <3>2. PICK i \in DOMAIN timers : timers[i].node = t.node /\ timers[i].call \in Own  BY <2>2, ItsOwn
    <3>3. i # cursor  BY <1>2, <3>1, <3>2
    <3>4. ASSUME t.state = "STARTED"
          PROVE  \E k \in DOMAIN timers' : timers'[k].node = t.node /\ timers'[k].call = "first tick"
      <4>1. PICK k \in DOMAIN timers : timers[k].node = t.node /\ timers[k].call = "first tick"
            BY <2>2, <3>4, ItsFirst
      <4>2. k # cursor  BY <1>2, <3>1, <4>1
      <4> QED  BY <1>12, <4>1, <4>2
    <3>5. i \in DOMAIN timers' /\ timers'[i].node = t.node /\ timers'[i].call \in Own  BY <1>12, <3>2, <3>3
    <3> QED  BY <3>4, <3>5
  <2> QED  BY <1>5, <2>1, <2>2
<1>18. LinesLast'
  <2> SUFFICES ASSUME NEW i \in DOMAIN timers', NEW k \in DOMAIN timers', i < k, timers'[i].node \in Lines,
                      Alike(timers'[i].call, timers'[k].call)
               PROVE  timers'[k].node \in Lines
      BY DEF LinesLast
  <2>1. CASE Old(i) /\ Old(k)  BY <2>1, ToLines
  <2>2. CASE Now(i) /\ Old(k)
    <3>1. Alike(timers[cursor].call, timers[k].call)  BY <1>2, <2>2 DEF Alike, Own
    <3> QED  BY <1>2, <2>2, <3>1, ToLines
  <2>3. CASE Old(i) /\ Now(k)
    <3>1. Alike(timers[i].call, timers[cursor].call)  BY <1>2, <2>3 DEF Alike, Own
    <3> QED  BY <1>2, <2>3, <3>1, ToLines
  <2>4. CASE Old(i) /\ New(k)
    <3>1. timers[i].call = "first tick" /\ timers[i].node \in Lines  BY <2>4 DEF Alike, Own
    <3>2. PICK t \in transitions : t.node = timers[i].node /\ Fits(t.state, "first tick")
          BY <2>4, <3>1, ItsTransition
    <3>3. t.state = "STARTED"  BY <3>2 DEF Fits
    <3>4. PICK j \in DOMAIN timers : timers[j].node = t.node /\ timers[j].call \in Own /\ Fits("STARTED", timers[j].call)
          BY <3>3, ItsOwn
    <3>7. timers[j].call = "start"  BY <3>4 DEF Fits, Own
    <3>8. j < cursor  BY <3>7, Waiting
    <3>9. Alike(timers[j].call, timers[cursor].call)  BY <1>2, <3>7 DEF Alike, Own
    <3>10. timers[cursor].node \in Lines  BY <1>2, <3>1, <3>2, <3>4, <3>8, <3>9, ToLines
    <3> QED  BY <1>2, <2>4, <3>10
  <2>5. CASE Now(i) /\ New(k)  BY <2>5 DEF Alike, Own
  <2>6. ~ New(i) /\ ~ (Now(i) /\ Now(k))
    <3>1. DOMAIN timers' = 1..last  BY <1>10
    <3>2. i # last  BY <1>2, <3>1
    <3>3. i # k  BY <1>2, <3>1
    <3> QED  BY <3>2, <3>3
  <2> QED  BY <1>11, <2>1, <2>2, <2>3, <2>4, <2>5, <2>6
<1>19. AtCursor'
  <2> SUFFICES ASSUME NEW i \in DOMAIN timers'
               PROVE  /\ timers'[i].call \in {"schedule", "first tick"} => i >= cursor'
                      /\ timers'[i].call = "start" => i < cursor'
                      /\ timers'[i].call = "tick" => i < cursor' /\ redraws'[1].age < Duration
      BY DEF AtCursor
  <2>1. CASE Old(i)
    <3>1. i \in Nat /\ i # cursor /\ timers'[i] = timers[i]  BY <1>2, <2>1
    <3>2. /\ timers[i].call \in {"schedule", "first tick"} => i >= cursor
          /\ timers[i].call = "start" => i < cursor
          /\ timers[i].call = "tick" => i < cursor /\ redraws[1].age < Duration
          BY <1>3, <2>1, Waiting
    <3>3. (i >= cursor => i >= cursor') /\ (i < cursor => i < cursor')  BY <1>2, <3>1
    <3>4. redraws' = redraws  BY <1>1
    <3> QED  BY <3>1, <3>2, <3>3, <3>4
  <2>2. CASE Now(i)
    <3>1. cursor < cursor'  BY <1>2
    <3> QED  BY <2>2, <3>1
  <2>3. CASE New(i)
    <3>1. last >= cursor'  BY <1>2
    <3> QED  BY <2>3, <3>1
  <2> QED  BY <1>11, <2>1, <2>2, <2>3
<1> QED  BY <1>4, <1>14, <1>15, <1>16, <1>17, <1>18, <1>19 DEF IInv

---------------------------------------------------------------------------
(* The ticks of a transition. *)

\* What is called by the timer of a first tick: the own timer of its transition is earlier.
LEMMA FirstTickFacts ==
    ASSUME IInv, NEW self \in transitions, FirstTick(self)
    PROVE  /\ cursor \in DOMAIN timers /\ timers[cursor].call = "first tick" /\ timers[cursor].node = self.node
           /\ self.state = "STARTED"
           /\ \E own \in DOMAIN timers :
                 /\ own # cursor /\ own < cursor /\ timers[own].call = "start" /\ timers[own].node = self.node
                 /\ timers[own] = TimerOf(self, "start")
                 /\ Tick(self, own, [timers EXCEPT ![cursor].call = "none", ![own].call = "tick"])
<1>1. Calls({"first tick"}, self) /\ self.state = "STARTED"  BY DEF FirstTick
<1>2. PICK own \in DOMAIN timers :
         /\ timers[own] = TimerOf(self, "start")
         /\ Tick(self, own, [timers EXCEPT ![cursor].call = "none", ![own].call = "tick"])
      BY DEF FirstTick
<1>3. timers[cursor].call \in {"first tick"} /\ cursor \in DOMAIN timers /\ timers[cursor].node = self.node
      BY <1>1, CallsFacts
<1>4. timers[own].call = "start" /\ timers[own].node = self.node  BY <1>2 DEF TimerOf
<1>5. own # cursor /\ own < cursor  BY <1>3, <1>4, Waiting
<1> QED  BY <1>1, <1>2, <1>3, <1>4, <1>5

\* What is called by the own timer of a running transition.
LEMMA NextTickFacts ==
    ASSUME IInv, NEW self \in transitions, NextTick(self)
    PROVE  /\ cursor \in DOMAIN timers /\ timers[cursor].call = "tick" /\ timers[cursor].node = self.node
           /\ self.state = "RUNNING" /\ Tick(self, cursor, timers)
           /\ \A t \in transitions : t.state = "RUNNING"
<1>1. Calls({"tick"}, self) /\ Tick(self, cursor, timers)  BY DEF NextTick
<1>2. timers[cursor].call \in {"tick"} /\ cursor \in DOMAIN timers /\ timers[cursor].node = self.node /\ cursor \in Nat
      BY <1>1, CallsFacts
<1>3. ~ (cursor < cursor)  BY <1>2
<1>4. \A t \in transitions : t.state = "RUNNING"  BY <1>2, <1>3, Waiting
<1> QED  BY <1>1, <1>2, <1>4

\* The second tick and later, if the transition goes on.
LEMMA NextTickGoesOn ==
    ASSUME IInv, NEW self \in transitions, NextTick(self), redraws[1].age < Duration
    PROVE  IInv' /\ UNCHANGED redraws
<1>1. /\ cursor \in DOMAIN timers /\ timers[cursor].call = "tick"
      /\ self.state = "RUNNING" /\ Tick(self, cursor, timers)
      /\ \A t \in transitions : t.state = "RUNNING"
      BY NextTickFacts
<1>2. /\ cursor \in Nat /\ cursor' = cursor + 1 /\ alarm' \in BOOLEAN /\ self.ago = 0 /\ self \in Transition
      /\ DOMAIN timers = 1..Len(timers) /\ Len(timers) \in Nat
      BY CallsFacts DEF NextTick
<1>3. transitions' = Becomes(self, "RUNNING") /\ timers' = timers /\ UNCHANGED <<document, values, redraws>>
  <2>1. redraws[self.ago + 1].age < Duration  BY <1>2
  <2> QED  BY <1>1, <2>1 DEF Tick
<1>4. transitions' = transitions
  <2>1. [self EXCEPT !.state = "RUNNING"] = self  BY <1>1, <1>2 DEF Transition
  <2> QED  BY <1>3, <2>1 DEF Becomes
<1>5. TransitionsSound' /\ RedrawSound' /\ DocumentSound'  BY <1>3, BecomesSound
<1>6. TimersType'
  <2>1. cursor' \in 0..(Len(timers) + 1)  BY <1>1, <1>2
  <2> QED  BY <1>2, <1>3, <2>1, TimersThere DEF TimersType
<1>7. TimersServe' /\ OneOfEach' /\ Served' /\ LinesLast'
      BY <1>3, <1>4 DEF IInv, TimersServe, OneOfEach, Served, LinesLast
<1>8. AtCursor'
  <2> SUFFICES ASSUME NEW i \in DOMAIN timers
               PROVE  /\ timers[i].call \in {"schedule", "first tick"} => i >= cursor'
                      /\ timers[i].call = "start" => i < cursor'
      BY <1>1, <1>3, <1>4 DEF AtCursor
  <2>1. i \in Nat  BY <1>2
  <2>2. timers[i].call \in {"schedule", "first tick"} => i >= cursor /\ i # cursor  BY <1>1, Waiting
  <2>3. timers[i].call = "start" => i < cursor  BY Waiting
  <2>4. i >= cursor /\ i # cursor => i >= cursor'  BY <1>2, <2>1
  <2>5. i < cursor => i < cursor'  BY <1>2, <2>1
  <2> QED  BY <2>2, <2>3, <2>4, <2>5
<1> QED  BY <1>3, <1>5, <1>6, <1>7, <1>8 DEF IInv

\* The first tick, if the transition goes on.
LEMMA FirstTickGoesOn ==
    ASSUME IInv, NEW self \in transitions, FirstTick(self), redraws[1].age < Duration
    PROVE  IInv' /\ UNCHANGED redraws
<1>1. /\ cursor \in DOMAIN timers /\ timers[cursor].call = "first tick" /\ timers[cursor].node = self.node
      /\ self.state = "STARTED"
      BY FirstTickFacts
<1>2. PICK own \in DOMAIN timers :
         /\ own # cursor /\ own < cursor /\ timers[own].call = "start" /\ timers[own].node = self.node
         /\ timers[own] = TimerOf(self, "start")
         /\ Tick(self, own, [timers EXCEPT ![cursor].call = "none", ![own].call = "tick"])
      BY FirstTickFacts
<1>3. /\ cursor \in Nat /\ cursor' = cursor + 1 /\ alarm' \in BOOLEAN /\ self.ago = 0 /\ self \in Transition
      /\ DOMAIN timers = 1..Len(timers) /\ Len(timers) \in Nat
      BY CallsFacts DEF FirstTick
<1> DEFINE next == [self EXCEPT !.state = "RUNNING"]
           mid == [timers EXCEPT ![cursor].call = "none"]
<1>4. /\ transitions' = Becomes(self, "RUNNING")
      /\ timers' = [timers EXCEPT ![cursor].call = "none", ![own].call = "tick"]
      /\ UNCHANGED <<document, values, redraws>>
  <2>1. redraws[self.ago + 1].age < Duration  BY <1>3
  <2> QED  BY <1>2, <2>1 DEF Tick
<1>5. TransitionsSound' /\ RedrawSound' /\ DocumentSound'  BY <1>4, BecomesSound
<1>6. /\ next \in Transition /\ next.state = "RUNNING" /\ next.node = self.node /\ next.ago = self.ago
      /\ transitions' = {next} \cup (transitions \ {self})
      BY <1>4, BecomesFacts
<1>7. CallSet(mid, timers, cursor, "none") /\ CallSet(timers', mid, own, "tick")  BY <1>4 DEF CallSet
<1>8. timers \in Seq(Timer)  BY TimersThere
<1> HIDE DEF next, mid
<1>9. /\ mid \in Seq(Timer) /\ Len(mid) = Len(timers) /\ DOMAIN mid = DOMAIN timers
      /\ \A k \in DOMAIN timers : k # cursor => mid[k] = timers[k]
      /\ mid[cursor].call = "none"
  <2>1. "none" \in Call  BY DEF Call
  <2>2. CallSet(mid, timers, cursor, "none") /\ cursor \in DOMAIN timers  BY <1>1, <1>7
  <2> QED  BY <1>8, <2>1, <2>2, CallSetFacts
<1>10. /\ timers' \in Seq(Timer) /\ Len(timers') = Len(mid) /\ DOMAIN timers' = DOMAIN mid
       /\ \A k \in DOMAIN mid : k # own => timers'[k] = mid[k]
       /\ timers'[own].call = "tick" /\ timers'[own].node = mid[own].node /\ timers'[own].ago = mid[own].ago
  <2>1. "tick" \in Call /\ own \in DOMAIN mid  BY <1>9 DEF Call
  <2> QED  BY <1>7, <1>9, <2>1, CallSetFacts
<1>11. /\ timers' \in Seq(Timer) /\ Len(timers') = Len(timers) /\ DOMAIN timers' = DOMAIN timers
       /\ \A k \in DOMAIN timers : k # cursor /\ k # own => timers'[k] = timers[k]
       /\ timers'[cursor].call = "none"
       /\ timers'[own].call = "tick" /\ timers'[own].node = self.node
       BY <1>1, <1>2, <1>9, <1>10
<1>12. timers'[own] = TimerOf(next, "tick")
  <2>1. timers'[own] \in Timer  BY <1>11, TimersFacts
  <2>2. timers'[own].ago = next.ago
    <3>1. timers[own].ago = self.ago  BY <1>2 DEF TimerOf
    <3> QED  BY <1>2, <1>6, <1>9, <1>10, <3>1
  <2> QED  BY <1>6, <1>11, <2>1, <2>2 DEF Timer, TimerOf
<1> DEFINE Old(i) == i \in DOMAIN timers /\ i # cursor /\ i # own /\ timers'[i] = timers[i]
<1>13. \A i \in DOMAIN timers' : timers'[i].call # "none" => Old(i) \/ i = own  BY <1>11
\* No other timer is about self.
<1>14. ASSUME NEW i \in DOMAIN timers, Old(i), timers[i].node = self.node PROVE timers[i].call = "none"
  <2> SUFFICES ASSUME timers[i].call # "none" PROVE FALSE  OBVIOUS
  <2>1. Fits("STARTED", timers[i].call)  BY <1>1, <1>14, ItsTimer
  <2>2. timers[i].call = "start" \/ timers[i].call = "first tick"  BY <2>1 DEF Fits
  <2>3. Alike(timers[i].call, timers[cursor].call) \/ Alike(timers[i].call, timers[own].call)
        BY <1>1, <1>2, <2>2 DEF Alike, Own
  <2> QED  BY <1>1, <1>2, <1>14, <2>3, NoDouble
<1>15. TimersType'
  <2>0. cursor \in 1..Len(timers)  BY <1>1, <1>3
  <2>1. cursor' \in 0..(Len(timers) + 1)  BY <1>3, <2>0
  <2> QED  BY <1>3, <1>11, <2>1 DEF TimersType
<1>16. TimersServe'
  <2> SUFFICES ASSUME NEW i \in DOMAIN timers', timers'[i].call # "none"
               PROVE  \E t \in transitions' : TimerOf(t, timers'[i].call) = timers'[i] /\ Fits(t.state, timers'[i].call)
      BY DEF TimersServe
  <2>1. CASE Old(i)
    <3>1. PICK t \in transitions : /\ TimerOf(t, timers[i].call) = timers[i] /\ Fits(t.state, timers[i].call)
                                   /\ t.node = timers[i].node
          BY <2>1, ItsTransition
    <3>2. t # self  BY <1>14, <2>1, <3>1
    <3> QED  BY <1>6, <2>1, <3>1, <3>2
  <2>2. CASE i = own
    <3>1. next \in transitions' /\ Fits(next.state, "tick")  BY <1>6 DEF Fits
    <3> QED  BY <1>11, <1>12, <2>2, <3>1
  <2> QED  BY <1>13, <2>1, <2>2
<1>17. OneOfEach'
  <2> SUFFICES ASSUME NEW i \in DOMAIN timers', NEW k \in DOMAIN timers',
                      timers'[i].node = timers'[k].node, Alike(timers'[i].call, timers'[k].call)
               PROVE  i = k
      BY DEF OneOfEach
  <2>0. timers'[i].call # "none" /\ timers'[k].call # "none"  BY DEF Alike, Own
  <2>1. CASE Old(i) /\ Old(k)  BY <2>1, NoDouble
  <2>2. CASE Old(i) /\ k = own  BY <1>11, <1>14, <2>0, <2>2
  <2>3. CASE i = own /\ Old(k)  BY <1>11, <1>14, <2>0, <2>3
  <2> QED  BY <1>13, <2>0, <2>1, <2>2, <2>3
<1>18. Served'
  <2> SUFFICES ASSUME NEW t \in transitions'
               PROVE  /\ \E i \in DOMAIN timers' : timers'[i].node = t.node /\ timers'[i].call \in Own
                      /\ t.state = "STARTED" =>
                             \E i \in DOMAIN timers' : timers'[i].node = t.node /\ timers'[i].call = "first tick"
      BY DEF Served
  <2>1. CASE t = next  BY <1>6, <1>11, <2>1 DEF Own
  <2>2. CASE t \in transitions /\ t # self
    <3>1. t.node # self.node  BY <2>2, OneEach
    <3>2. PICK i \in DOMAIN timers : timers[i].node = t.node /\ timers[i].call \in Own  BY <2>2, ItsOwn
    <3>3. i # cursor /\ i # own  BY <1>1, <1>2, <3>1, <3>2
    <3>4. ASSUME t.state = "STARTED"
          PROVE  \E k \in DOMAIN timers' : timers'[k].node = t.node /\ timers'[k].call = "first tick"
      <4>1. PICK k \in DOMAIN timers : timers[k].node = t.node /\ timers[k].call = "first tick"
            BY <2>2, <3>4, ItsFirst
      <4>2. k # cursor /\ k # own  BY <1>1, <1>2, <3>1, <4>1
      <4> QED  BY <1>11, <4>1, <4>2
    <3>5. i \in DOMAIN timers' /\ timers'[i].node = t.node /\ timers'[i].call \in Own  BY <1>11, <3>2, <3>3
    <3> QED  BY <3>4, <3>5
  <2> QED  BY <1>6, <2>1, <2>2
<1>19. LinesLast'
  <2> SUFFICES ASSUME NEW i \in DOMAIN timers', NEW k \in DOMAIN timers', i < k, timers'[i].node \in Lines,
                      Alike(timers'[i].call, timers'[k].call)
               PROVE  timers'[k].node \in Lines
      BY DEF LinesLast
  <2>0. timers'[i].call # "none" /\ timers'[k].call # "none"  BY DEF Alike, Own
  <2>1. CASE Old(i) /\ Old(k)  BY <2>1, ToLines
  <2>2. CASE Old(i) /\ k = own
    <3>1. Alike(timers[i].call, timers[own].call)  BY <1>2, <1>11, <2>2 DEF Alike, Own
    <3> QED  BY <1>2, <1>11, <2>2, <3>1, ToLines
  <2>3. CASE i = own /\ Old(k)
    <3>1. Alike(timers[own].call, timers[k].call)  BY <1>2, <1>11, <2>3 DEF Alike, Own
    <3> QED  BY <1>2, <1>11, <2>3, <3>1, ToLines
  <2>4. CASE i = own /\ k = own  BY <2>4
  <2> QED  BY <1>13, <2>0, <2>1, <2>2, <2>3, <2>4
<1>20. AtCursor'
  <2> SUFFICES ASSUME NEW i \in DOMAIN timers', timers'[i].call # "none"
               PROVE  /\ timers'[i].call \in {"schedule", "first tick"} => i >= cursor'
                      /\ timers'[i].call = "start" => i < cursor'
                      /\ timers'[i].call = "tick" => i < cursor' /\ redraws'[1].age < Duration
      BY DEF AtCursor
  <2>1. redraws' = redraws  BY <1>4
  <2>2. CASE Old(i)
    <3>1. i \in Nat /\ i # cursor /\ timers'[i] = timers[i]  BY <1>3, <2>2
    <3>2. /\ timers[i].call \in {"schedule", "first tick"} => i >= cursor
          /\ timers[i].call = "start" => i < cursor
          /\ timers[i].call = "tick" => i < cursor
          BY <1>1, <2>2, Waiting
    <3>3. (i >= cursor => i >= cursor') /\ (i < cursor => i < cursor')  BY <1>3, <3>1
    <3> QED  BY <2>1, <3>1, <3>2, <3>3
  <2>3. CASE i = own
    <3>1. own < cursor'  BY <1>2, <1>3
    <3> QED  BY <1>11, <2>1, <2>3, <3>1
  <2> QED  BY <1>13, <2>2, <2>3
<1> QED  BY <1>4, <1>5, <1>15, <1>16, <1>17, <1>18, <1>19, <1>20 DEF IInv

---------------------------------------------------------------------------
(* The end of a transition. *)

\* The timers of transition self have stopped: timer own and the one the frame is at.
Halted(self, own, list) ==
    /\ list \in Seq(Timer) /\ Len(list) = Len(timers) /\ DOMAIN list = DOMAIN timers
    /\ own \in DOMAIN timers /\ timers[own].node = self.node /\ own <= cursor
    /\ cursor \in DOMAIN timers /\ timers[cursor].node = self.node
    /\ \A i \in DOMAIN timers : i # cursor /\ i # own => list[i] = timers[i]
    /\ list[cursor].call = "none" /\ list[own].call = "none"
    /\ \A i \in DOMAIN timers :
           timers[i].node = self.node /\ timers[i].call # "none" => i = cursor \/ i = own

\* The own timer of a transition that ends is stopped; no other is about it.
LEMMA NextTickHalts ==
    ASSUME IInv, NEW self \in transitions, NextTick(self), ~ (redraws[1].age < Duration)
    PROVE  \E own, list : Halted(self, own, list) /\ End(self, list)
<1>1. /\ cursor \in DOMAIN timers /\ timers[cursor].call = "tick" /\ timers[cursor].node = self.node
      /\ self.state = "RUNNING" /\ Tick(self, cursor, timers)
      BY NextTickFacts
<1>2. self.ago = 0  BY OneEach
<1> DEFINE list == [timers EXCEPT ![cursor].call = "none"]
<1>3. End(self, list)
  <2>1. ~ (redraws[self.ago + 1].age < Duration)  BY <1>2
  <2> QED  BY <1>1, <2>1 DEF Tick
<1>4. CallSet(list, timers, cursor, "none")  BY DEF CallSet
<1> HIDE DEF list
<1>5. timers \in Seq(Timer) /\ "none" \in Call  BY TimersThere DEF Call
<1>6. /\ list \in Seq(Timer) /\ Len(list) = Len(timers) /\ DOMAIN list = DOMAIN timers
      /\ \A k \in DOMAIN timers : k # cursor => list[k] = timers[k]
      /\ list[cursor].call = "none"
      BY <1>1, <1>4, <1>5, CallSetFacts
<1>7. ASSUME NEW i \in DOMAIN timers, timers[i].node = self.node, timers[i].call # "none" PROVE i = cursor
  <2>1. Fits("RUNNING", timers[i].call)  BY <1>1, <1>7, ItsTimer
  <2>2. timers[i].call = "tick"  BY <2>1 DEF Fits
  <2>3. Alike(timers[i].call, timers[cursor].call)  BY <1>1, <2>2 DEF Alike, Own
  <2> QED  BY <1>1, <1>7, <2>3, NoDouble
<1>8. Halted(self, cursor, list)
  <2>1. cursor <= cursor  BY TimersThere
  <2> QED  BY <1>1, <1>6, <1>7, <2>1 DEF Halted
<1> QED  BY <1>3, <1>8

\* So it is when the first tick is already the last; then two timers stop.
LEMMA FirstTickHalts ==
    ASSUME IInv, NEW self \in transitions, FirstTick(self), ~ (redraws[1].age < Duration)
    PROVE  \E own, list : Halted(self, own, list) /\ End(self, list)
<1>1. /\ cursor \in DOMAIN timers /\ timers[cursor].call = "first tick" /\ timers[cursor].node = self.node
      /\ self.state = "STARTED"
      BY FirstTickFacts
<1>2. PICK own \in DOMAIN timers :
         /\ own # cursor /\ own < cursor /\ timers[own].call = "start" /\ timers[own].node = self.node
         /\ Tick(self, own, [timers EXCEPT ![cursor].call = "none", ![own].call = "tick"])
      BY FirstTickFacts
<1>3. self.ago = 0  BY OneEach
<1> DEFINE first == [timers EXCEPT ![cursor].call = "none"]
           second == [first EXCEPT ![own].call = "tick"]
           list == [second EXCEPT ![own].call = "none"]
<1>4. End(self, list)
  <2>1. ~ (redraws[self.ago + 1].age < Duration)  BY <1>3
  <2>2. second = [timers EXCEPT ![cursor].call = "none", ![own].call = "tick"]  OBVIOUS
  <2> HIDE DEF second
  <2> QED  BY <1>2, <2>1, <2>2 DEF Tick
<1>5. CallSet(first, timers, cursor, "none") /\ CallSet(second, first, own, "tick") /\ CallSet(list, second, own, "none")
      BY DEF CallSet
<1> HIDE DEF first, second, list
<1>6. timers \in Seq(Timer) /\ "none" \in Call /\ "tick" \in Call  BY TimersThere DEF Call
<1>7. /\ first \in Seq(Timer) /\ Len(first) = Len(timers) /\ DOMAIN first = DOMAIN timers
      /\ \A k \in DOMAIN timers : k # cursor => first[k] = timers[k]
      /\ first[cursor].call = "none"
  <2>1. CallSet(first, timers, cursor, "none") /\ cursor \in DOMAIN timers  BY <1>1, <1>5
  <2> QED  BY <1>6, <2>1, CallSetFacts
<1>8. /\ second \in Seq(Timer) /\ Len(second) = Len(first) /\ DOMAIN second = DOMAIN first
      /\ \A k \in DOMAIN first : k # own => second[k] = first[k]
  <2>1. own \in DOMAIN first  BY <1>7
  <2> QED  BY <1>5, <1>6, <1>7, <2>1, CallSetFacts
<1>9. /\ list \in Seq(Timer) /\ Len(list) = Len(second) /\ DOMAIN list = DOMAIN second
      /\ \A k \in DOMAIN second : k # own => list[k] = second[k]
      /\ list[own].call = "none"
  <2>1. own \in DOMAIN second  BY <1>7, <1>8
  <2> QED  BY <1>5, <1>6, <1>8, <2>1, CallSetFacts
<1>10. /\ list \in Seq(Timer) /\ Len(list) = Len(timers) /\ DOMAIN list = DOMAIN timers
       /\ \A i \in DOMAIN timers : i # cursor /\ i # own => list[i] = timers[i]
       /\ list[cursor].call = "none" /\ list[own].call = "none"
       BY <1>1, <1>2, <1>7, <1>8, <1>9
<1>11. ASSUME NEW i \in DOMAIN timers, timers[i].node = self.node, timers[i].call # "none"
       PROVE  i = cursor \/ i = own
  <2>1. Fits("STARTED", timers[i].call)  BY <1>1, <1>11, ItsTimer
  <2>2. timers[i].call = "start" \/ timers[i].call = "first tick"  BY <2>1 DEF Fits
  <2>3. Alike(timers[i].call, timers[cursor].call) \/ Alike(timers[i].call, timers[own].call)
        BY <1>1, <1>2, <2>2 DEF Alike, Own
  <2> QED  BY <1>1, <1>2, <1>11, <2>3, NoDouble
<1>12. Halted(self, own, list)
  <2>1. own <= cursor
    <3>1. own \in Nat /\ cursor \in Nat  BY <1>2, TimersThere
    <3> QED  BY <1>2, <3>1
  <2> QED  BY <1>1, <1>2, <1>10, <1>11, <2>1 DEF Halted
<1> QED  BY <1>4, <1>12

\* The transition of the last line is the last transition.
LEMMA Alone ==
    ASSUME IInv, NEW self \in transitions, FirstTick(self) \/ NextTick(self), ~ (redraws[1].age < Duration),
           self.end = "count", ~ (redraws[1].n > 1)
    PROVE  transitions = {self}
<1> SUFFICES ASSUME NEW u \in transitions, u # self PROVE FALSE  OBVIOUS
<1>1. /\ TransitionsSound /\ self.node \in Lines /\ IsFiniteSet(transitions)
      BY DEF IInv, TransitionsSound
<1>2. u.node \notin Lines
  <2> SUFFICES ASSUME u.node \in Lines PROVE FALSE  OBVIOUS
  <2>1. u \in Counting /\ self \in Counting  BY <1>1 DEF Counting, TransitionsSound
  <2>2. Counting \in SUBSET transitions  BY DEF Counting
  <2>3. IsFiniteSet(Counting)  BY <1>1, <2>2, FS_Subset
  <2>4. redraws[1].n = Cardinality(Counting)  BY DEF IInv, RedrawSound
  <2>5. {u, self} \in SUBSET Counting  BY <2>1
  <2>6. Cardinality({u, self}) = 2
    <3>1. IsFiniteSet({self}) /\ Cardinality({self}) = 1  BY FS_Singleton
    <3>2. Cardinality({self} \cup {u}) = Cardinality({self}) + 1  BY <3>1, FS_AddElement
    <3>3. {self} \cup {u} = {u, self}  OBVIOUS
    <3> QED  BY <3>1, <3>2, <3>3
  <2>7. Cardinality({u, self}) <= Cardinality(Counting) /\ Cardinality(Counting) \in Nat
        BY <2>3, <2>5, FS_Subset, FS_CardinalityType
  <2> QED  BY <2>4, <2>6, <2>7
<1>3. u.node # self.node  BY OneEach
<1>4. PICK j \in DOMAIN timers : timers[j].node = u.node /\ timers[j].call \in Own /\ Fits(u.state, timers[j].call)
      BY ItsOwn
<1>5. DOMAIN timers = 1..Len(timers) /\ Len(timers) \in Nat /\ cursor \in Nat  BY TimersThere
<1>6. cursor \in DOMAIN timers /\ timers[cursor].node = self.node
      BY FirstTickFacts, NextTickFacts
<1>7. ~ (j > cursor)
  <2> SUFFICES ASSUME j > cursor PROVE FALSE  OBVIOUS
  <2>1. CASE NextTick(self)
    <3>1. timers[cursor].call = "tick"  BY <2>1, NextTickFacts
    <3>2. Alike(timers[cursor].call, timers[j].call)  BY <1>4, <3>1 DEF Alike, Own
    <3>3. cursor < j  BY <1>5
    <3> QED  BY <1>1, <1>2, <1>4, <1>6, <3>2, <3>3, ToLines
  <2>2. CASE FirstTick(self)
    <3>1. PICK own \in DOMAIN timers : own < cursor /\ timers[own].call = "start" /\ timers[own].node = self.node
          BY <2>2, FirstTickFacts
    <3>2. Alike(timers[own].call, timers[j].call)  BY <1>4, <3>1 DEF Alike, Own
    <3>3. own < j  BY <1>5, <3>1
    <3> QED  BY <1>1, <1>2, <1>4, <3>1, <3>2, <3>3, ToLines
  <2> QED  BY <2>1, <2>2
<1>8. j < cursor
  <2>1. j # cursor  BY <1>3, <1>4, <1>6
  <2> QED  BY <1>5, <1>7, <2>1
<1>9. timers[j].call # "tick"  BY <1>8, Waiting
<1>10. timers[j].call # "schedule"
  <2>1. ~ (j >= cursor)  BY <1>5, <1>8
  <2> QED  BY <2>1, Waiting
<1>11. timers[j].call = "start" /\ u.state = "STARTED"  BY <1>4, <1>9, <1>10 DEF Own, Fits
<1>12. ~ NextTick(self)  BY <1>11, NextTickFacts
<1>13. timers[cursor].call = "first tick"  BY <1>12, FirstTickFacts
<1>14. PICK k \in DOMAIN timers : timers[k].node = u.node /\ timers[k].call = "first tick"
       BY <1>11, ItsFirst
<1>15. cursor < k
  <2>1. k >= cursor  BY <1>14, Waiting
  <2>2. k # cursor  BY <1>3, <1>6, <1>14
  <2> QED  BY <1>5, <2>1, <2>2
<1>16. Alike(timers[cursor].call, timers[k].call)  BY <1>13, <1>14 DEF Alike
<1> QED  BY <1>1, <1>2, <1>6, <1>14, <1>15, <1>16, ToLines

\* The timers, when transition self has ended and nothing else happens to them.
LEMMA EndTimers ==
    ASSUME IInv, NEW self \in transitions, NEW own, NEW list, Halted(self, own, list),
           transitions' = transitions \ {self}, timers' = list, redraws'[1].age = redraws[1].age,
           cursor' = cursor + 1, alarm' \in BOOLEAN
    PROVE  TimersType' /\ TimersServe' /\ OneOfEach' /\ Served' /\ LinesLast' /\ AtCursor'
<1>1. /\ timers' \in Seq(Timer) /\ Len(timers') = Len(timers) /\ DOMAIN timers' = DOMAIN timers
      /\ own \in DOMAIN timers /\ timers[own].node = self.node
      /\ cursor \in DOMAIN timers /\ timers[cursor].node = self.node
      /\ \A i \in DOMAIN timers : i # cursor /\ i # own => timers'[i] = timers[i]
      /\ timers'[cursor].call = "none" /\ timers'[own].call = "none"
      BY DEF Halted
<1>2. \A i \in DOMAIN timers :
          timers[i].node = self.node /\ timers[i].call # "none" => i = cursor \/ i = own
      BY DEF Halted
<1>3. DOMAIN timers = 1..Len(timers) /\ Len(timers) \in Nat /\ cursor \in Nat  BY TimersThere
<1>4. \A i \in DOMAIN timers' : timers'[i].call # "none" => i \in DOMAIN timers /\ i # cursor /\ i # own /\ timers'[i] = timers[i]
      BY <1>1
<1>5. TimersType'
  <2>1. cursor \in 1..Len(timers)  BY <1>1, <1>3
  <2>2. cursor' \in 0..(Len(timers) + 1)  BY <1>3, <2>1
  <2> QED  BY <1>1, <2>2 DEF TimersType
<1>6. TimersServe'
  <2> SUFFICES ASSUME NEW i \in DOMAIN timers', timers'[i].call # "none"
               PROVE  \E t \in transitions' : TimerOf(t, timers'[i].call) = timers'[i] /\ Fits(t.state, timers'[i].call)
      BY DEF TimersServe
  <2>1. i \in DOMAIN timers /\ i # cursor /\ i # own /\ timers'[i] = timers[i]  BY <1>4
  <2>2. PICK t \in transitions : /\ TimerOf(t, timers[i].call) = timers[i] /\ Fits(t.state, timers[i].call)
                                 /\ t.node = timers[i].node
        BY <2>1, ItsTransition
  <2>3. t # self  BY <1>2, <2>1, <2>2
  <2> QED  BY <2>1, <2>2, <2>3
<1>7. OneOfEach'
  <2> SUFFICES ASSUME NEW i \in DOMAIN timers', NEW k \in DOMAIN timers',
                      timers'[i].node = timers'[k].node, Alike(timers'[i].call, timers'[k].call)
               PROVE  i = k
      BY DEF OneOfEach
  <2>1. timers'[i].call # "none" /\ timers'[k].call # "none"  BY DEF Alike, Own
  <2>2. timers'[i] = timers[i] /\ timers'[k] = timers[k] /\ i \in DOMAIN timers /\ k \in DOMAIN timers
        BY <1>4, <2>1
  <2> QED  BY <2>2, NoDouble
<1>8. Served'
  <2> SUFFICES ASSUME NEW t \in transitions, t # self
               PROVE  /\ \E i \in DOMAIN timers' : timers'[i].node = t.node /\ timers'[i].call \in Own
                      /\ t.state = "STARTED" =>
                             \E i \in DOMAIN timers' : timers'[i].node = t.node /\ timers'[i].call = "first tick"
      BY DEF Served
  <2>1. t.node # self.node  BY OneEach
  <2>2. PICK i \in DOMAIN timers : timers[i].node = t.node /\ timers[i].call \in Own  BY ItsOwn
  <2>3. i # cursor /\ i # own  BY <1>1, <2>1, <2>2
  <2>4. ASSUME t.state = "STARTED"
        PROVE  \E k \in DOMAIN timers' : timers'[k].node = t.node /\ timers'[k].call = "first tick"
    <3>1. PICK k \in DOMAIN timers : timers[k].node = t.node /\ timers[k].call = "first tick"
          BY <2>4, ItsFirst
    <3>2. k # cursor /\ k # own  BY <1>1, <2>1, <3>1
    <3> QED  BY <1>1, <3>1, <3>2
  <2>5. i \in DOMAIN timers' /\ timers'[i].node = t.node /\ timers'[i].call \in Own  BY <1>1, <2>2, <2>3
  <2> QED  BY <2>4, <2>5
<1>9. LinesLast'
  <2> SUFFICES ASSUME NEW i \in DOMAIN timers', NEW k \in DOMAIN timers', i < k, timers'[i].node \in Lines,
                      Alike(timers'[i].call, timers'[k].call)
               PROVE  timers'[k].node \in Lines
      BY DEF LinesLast
  <2>1. timers'[i].call # "none" /\ timers'[k].call # "none"  BY DEF Alike, Own
  <2>2. timers'[i] = timers[i] /\ timers'[k] = timers[k] /\ i \in DOMAIN timers /\ k \in DOMAIN timers
        BY <1>4, <2>1
  <2> QED  BY <2>2, ToLines
<1>10. AtCursor'
  <2> SUFFICES ASSUME NEW i \in DOMAIN timers', timers'[i].call # "none"
               PROVE  /\ timers'[i].call \in {"schedule", "first tick"} => i >= cursor'
                      /\ timers'[i].call = "start" => i < cursor'
                      /\ timers'[i].call = "tick" => IF i < cursor' THEN redraws[1].age < Duration
                                                     ELSE \A t \in transitions : t.state = "RUNNING"
      BY DEF AtCursor
  <2>1. i \in DOMAIN timers /\ i # cursor /\ timers'[i] = timers[i]  BY <1>4
  <2>2. i \in Nat  BY <1>3, <2>1
  <2>3. (i >= cursor => i >= cursor') /\ (i < cursor <=> i < cursor')  BY <1>3, <2>1, <2>2
  <2>4. /\ timers[i].call \in {"schedule", "first tick"} => i >= cursor
        /\ timers[i].call = "start" => i < cursor
        /\ timers[i].call = "tick" /\ i < cursor => redraws[1].age < Duration
        /\ timers[i].call = "tick" /\ ~ (i < cursor) => \A t \in transitions : t.state = "RUNNING"
        BY <2>1, Waiting
  <2> HIDE <1>1, <1>2
  <2> QED  BY <2>1, <2>3, <2>4
<1> QED  BY <1>5, <1>6, <1>7, <1>8, <1>9, <1>10

\* The other transitions stay what they are.
LEMMA FewerTransitions ==
    ASSUME IInv, NEW self \in transitions, transitions' = transitions \ {self}, UNCHANGED values
    PROVE  TransitionsSound'
<1>1. TransitionsSound  BY DEF IInv
<1>2. transitions' \in SUBSET transitions  OBVIOUS
<1>3. IsFiniteSet(transitions')  BY <1>1, <1>2, FS_Subset DEF TransitionsSound
<1> QED  BY <1>1, <1>2, <1>3 DEF TransitionsSound

\* A tick is removed by the end of its own transition only, and only if it is not wanted.
LEMMA DocumentStays ==
    ASSUME IInv, NEW self \in transitions, transitions' = transitions \ {self}, UNCHANGED values,
           \/ self.end # "remove" /\ UNCHANGED document
           \/ self.end = "remove" /\ document' = document \ {self.node}
    PROVE  DocumentSound'
<1>1. /\ document \subseteq Ticks /\ values \subseteq document
      /\ \A x \in document : x \in values \/ \E t \in transitions : t.node = x /\ t.end = "remove"
      BY DEF IInv, DocumentSound
<1>2. self.end = "remove" => self.node \notin values  BY DEF IInv, TransitionsSound
<1>3. document' \subseteq Ticks /\ values' \subseteq document'  BY <1>1, <1>2
<1>4. ASSUME NEW x \in document', x \notin values
      PROVE  \E t \in transitions' : t.node = x /\ t.end = "remove"
  <2>1. x \in document  OBVIOUS
  <2>2. PICK t \in transitions : t.node = x /\ t.end = "remove"  BY <1>1, <1>4, <2>1
  <2>3. t # self  BY <1>4, <2>2
  <2> QED  BY <2>2, <2>3
<1> QED  BY <1>3, <1>4 DEF DocumentSound

\* What does not count lets n alone.
LEMMA CountStays ==
    ASSUME IInv, NEW self \in transitions, self.end # "count",
           transitions' = transitions \ {self}, UNCHANGED redraws
    PROVE  RedrawSound'
<1>1. Counting' = Counting  BY DEF Counting
<1> QED  BY <1>1 DEF IInv, RedrawSound

\* A sequence of one element.
LEMMA OneElement ==
    ASSUME NEW S, NEW s \in [1..1 -> S] PROVE s \in Seq(S) /\ Len(s) = 1
<1>1. 1 \in Nat /\ s \in Seq(S)  BY SeqDef
<1> QED  BY <1>1, LenProperties

\* A timer waits for the same call when a redraw comes in between.
LEMMA OlderTimer ==
    ASSUME NEW x \in Timer PROVE Older(x) \in Timer /\ Older(x).call = x.call
<1>0. x.ago \in Nat  BY DEF Timer
<1>1. x.ago + 1 \in Nat  BY <1>0
<1> DEFINE k == x.ago + 1
<1> HIDE DEF k
<1>2. Older(x) = [x EXCEPT !.ago = k]  BY DEF Older, k
<1>3. k \in Nat  BY <1>1 DEF k
<1> QED  BY <1>2, <1>3 DEF Timer

\* A line that ends takes one off n, as long as another line is left.
LEMMA CountFalls ==
    ASSUME IInv, NEW self \in transitions, self.end = "count", redraws[1].n > 1,
           transitions' = transitions \ {self}, redraws' = [redraws EXCEPT ![1].n = redraws[1].n - 1]
    PROVE  RedrawSound' /\ redraws'[1].age = redraws[1].age
<1> DEFINE R == [n : 0..Cardinality(Lines), age : 0..Duration]
           r == [redraws[1] EXCEPT !.n = redraws[1].n - 1]
<1>1. redraws \in Seq(R) /\ Len(redraws) = 1 /\ redraws[1].n = Cardinality(Counting)
      BY DEF IInv, RedrawSound
<1>2. redraws \in [1..1 -> R] /\ redraws[1] \in R
  <2> HIDE DEF R
  <2>1. redraws \in [1..Len(redraws) -> R]  BY <1>1, LenProperties
  <2> QED  BY <1>1, <2>1
<1>3. Cardinality(Lines) \in Nat  BY LiveChartAssumption, FS_CardinalityType
<1>4. r \in R /\ r.n = redraws[1].n - 1 /\ r.age = redraws[1].age
  <2>1. redraws[1].n - 1 \in 0..Cardinality(Lines)  BY <1>2, <1>3
  <2> DEFINE k == redraws[1].n - 1
  <2> HIDE DEF k
  <2> QED  BY <1>2, <2>1 DEF k
<1> HIDE DEF r, R
<1>5. redraws' = [redraws EXCEPT ![1] = r]  BY DEF r
<1>6. redraws' \in [1..1 -> R] /\ redraws'[1] = r  BY <1>2, <1>4, <1>5
<1>7. redraws' \in Seq(R) /\ Len(redraws') = 1
  <2> QED  BY <1>6, OneElement
<1>8. Cardinality(Counting') = Cardinality(Counting) - 1
  <2>1. Counting' = Counting \ {self} /\ self \in Counting  BY DEF Counting
  <2>2. IsFiniteSet(Counting)
    <3>1. Counting \in SUBSET transitions  BY DEF Counting
    <3> QED  BY <3>1, FS_Subset DEF IInv, TransitionsSound
  <2> QED  BY <2>1, <2>2, FS_RemoveElement
<1> QED  BY <1>1, <1>4, <1>6, <1>7, <1>8 DEF RedrawSound, R

\* The chart redraws when nothing is left of the previous redraw.
LEMMA Redraws ==
    ASSUME IInv, NEW self \in transitions, transitions = {self}, self.end = "count",
           NEW own, NEW list, Halted(self, own, list), NEW wanted \in SUBSET Ticks, Redraw(wanted, {}, list),
           cursor' = cursor + 1, alarm' \in BOOLEAN
    PROVE  IInv' /\ document = values
<1>1. document = values
  <2>1. /\ values \subseteq document
        /\ \A x \in document : x \in values \/ \E t \in transitions : t.node = x /\ t.end = "remove"
        BY DEF IInv, DocumentSound
  <2> QED  BY <2>1
<1>2. document \subseteq Ticks  BY DEF IInv, DocumentSound
<1>3. values' = wanted /\ document' = document \cup wanted  BY DEF Redraw
<1>4. Scheduled(wanted) = Scheduled(values)'
  <2>1. document' \ values' = document \ wanted  BY <1>3
  <2> QED  BY <1>3, <2>1 DEF Scheduled, OnAxes, Each, Created
<1>5. transitions' = Range(Scheduled(values)')
  <2>1. transitions' = {Older(t) : t \in {}} \cup Range(Scheduled(wanted))  BY DEF Redraw
  <2> QED  BY <1>4, <2>1
<1>6. redraws' = <<[n |-> Cardinality(Lines), age |-> 0]>>
  <2> DEFINE r == [n |-> Cardinality(Lines), age |-> 0]
             m == Max({t.ago + 1 : t \in {}} \cup {0})
  <2>1. m = 0
    <3>1. {t.ago + 1 : t \in {}} \cup {0} = {0}  OBVIOUS
    <3> QED  BY <3>1 DEF Max
  <2>2. redraws' = <<r>> \o SubSeq(redraws, 1, m)  BY DEF Redraw
  <2>3. SubSeq(redraws, 1, 0) = <<>>  OBVIOUS
  <2> HIDE DEF r
  <2>4. <<r>> \o <<>> = <<r>>  OBVIOUS
  <2> QED  BY <2>1, <2>2, <2>3, <2>4 DEF r
<1> DEFINE stopped == [i \in DOMAIN list |-> Older(list[i])]
<1>7. timers' = stopped \o Schedule(Scheduled(values)')
  <2>1. timers' = stopped \o Schedule(Scheduled(wanted))  BY DEF Redraw
  <2> QED  BY <1>4, <2>1
<1>8. /\ list \in Seq(Timer) /\ Len(list) = Len(timers) /\ DOMAIN list = DOMAIN timers
      /\ cursor \in DOMAIN timers /\ \A i \in DOMAIN timers : list[i].call = "none"
  <2>1. ASSUME NEW i \in DOMAIN timers, list[i].call # "none" PROVE FALSE
    <3>1. i # cursor /\ i # own /\ list[i] = timers[i]  BY <2>1 DEF Halted
    <3>2. PICK t \in transitions : t.node = timers[i].node  BY <2>1, <3>1, ItsTransition
    <3> QED  BY <2>1, <3>1, <3>2 DEF Halted
  <2> QED  BY <2>1 DEF Halted
<1>9. DOMAIN timers = 1..Len(timers) /\ Len(timers) \in Nat /\ cursor \in Nat  BY TimersThere
<1>10. /\ stopped \in Seq(Timer) /\ Len(stopped) = Len(timers)
       /\ \A i \in 1..Len(timers) : stopped[i].call = "none"
  <2>1. \A i \in DOMAIN timers : list[i] \in Timer  BY <1>8, TimersFacts
  <2>2. \A i \in DOMAIN timers : Older(list[i]) \in Timer /\ Older(list[i]).call = "none"
    <3> TAKE i \in DOMAIN timers
    <3>1. list[i] \in Timer /\ list[i].call = "none"  BY <1>8, <2>1
    <3> DEFINE x == list[i]
    <3> HIDE DEF x
    <3> QED  BY <3>1, OlderTimer DEF x
  <2>3. stopped = [i \in 1..Len(timers) |-> Older(list[i])]  BY <1>8, <1>9
  <2> HIDE DEF stopped
  <2>4. stopped \in [1..Len(timers) -> Timer]  BY <1>9, <2>2, <2>3
  <2> QED  BY <1>9, <2>2, <2>3, <2>4, LenProperties, SeqDef
<1> HIDE DEF stopped
<1>11. cursor' \in 0..(Len(stopped) + 1)
  <2>1. cursor \in 1..Len(timers)  BY <1>8, <1>9
  <2> QED  BY <1>9, <1>10, <2>1
<1>12. FreshTimers(stopped)'
  <2>1. timers' = stopped \o Schedule(Scheduled(values)')  BY <1>7
  <2>2. Schedule(Scheduled(values)') = Schedule(Scheduled(values))'  BY DEF Schedule, TimerOf
  <2> QED  BY <1>10, <1>11, <2>1, <2>2 DEF FreshTimers
<1>13. Fresh'
  <2>1. document' \subseteq Ticks /\ values' \subseteq document'  BY <1>2, <1>3
  <2>2. Range(Scheduled(values)') = Range(Scheduled(values))'  BY DEF Range
  <2> QED  BY <1>5, <1>6, <1>12, <2>1, <2>2 DEF Fresh
<1>14. Fresh' => IInv'  BY FreshSound, PTL
<1> QED  BY <1>1, <1>13, <1>14

\* The time goes on, or starts anew with the ticks that left gone.
EndsInTime == redraws'[1].age = redraws[1].age \/ document = values

\* A transition ends.
LEMMA EndKeeps ==
    ASSUME IInv, NEW self \in transitions, FirstTick(self) \/ NextTick(self), ~ (redraws[1].age < Duration)
    PROVE  IInv' /\ EndsInTime
<1>1. PICK own, list : Halted(self, own, list) /\ End(self, list)  BY NextTickHalts, FirstTickHalts
<1>2. cursor' = cursor + 1 /\ alarm' \in BOOLEAN
  <2>1. \E calls : Calls(calls, self)  BY DEF FirstTick, NextTick
  <2> QED  BY <2>1, CallsFacts
<1>3. /\ self.ago = 0 /\ self.end \in Listener
  <2>1. self \in Transition /\ self.ago = 0  BY OneEach
  <2> QED  BY <2>1 DEF Transition
<1>4. TransitionsOf(self.node) = {self}  BY OneEach DEF TransitionsOf
<1> DEFINE Gone == transitions' = transitions \ {self} /\ timers' = list
<1>5. CASE self.end = "none"
  <2>1. Gone /\ UNCHANGED <<document, values, redraws>>  BY <1>1, <1>5 DEF End
  <2>2. TransitionsSound' /\ DocumentSound' /\ RedrawSound'
        BY <1>5, <2>1, FewerTransitions, DocumentStays, CountStays
  <2>3. TimersType' /\ TimersServe' /\ OneOfEach' /\ Served' /\ LinesLast' /\ AtCursor'
        BY <1>1, <1>2, <2>1, EndTimers
  <2>4. EndsInTime  BY <2>1 DEF EndsInTime
  <2> QED  BY <2>2, <2>3, <2>4 DEF IInv
<1>6. CASE self.end = "remove"
  <2>1. Gone /\ UNCHANGED <<values, redraws>> /\ document' = document \ {self.node}
        BY <1>1, <1>4, <1>6 DEF End
  <2>2. TransitionsSound' /\ DocumentSound' /\ RedrawSound'
        BY <1>6, <2>1, FewerTransitions, DocumentStays, CountStays
  <2>3. TimersType' /\ TimersServe' /\ OneOfEach' /\ Served' /\ LinesLast' /\ AtCursor'
        BY <1>1, <1>2, <2>1, EndTimers
  <2>4. EndsInTime  BY <2>1 DEF EndsInTime
  <2> QED  BY <2>2, <2>3, <2>4 DEF IInv
<1> DEFINE n == redraws[1].n - 1
<1>7. redraws[1].n \in Int
  <2>1. redraws[1].n = Cardinality(Counting) /\ IsFiniteSet(transitions)
        BY DEF IInv, RedrawSound, TransitionsSound
  <2>2. Counting \in SUBSET transitions  BY DEF Counting
  <2> QED  BY <2>1, <2>2, FS_Subset, FS_CardinalityType
<1>8. CASE self.end = "count" /\ ~ AllEnded(n)
  <2>1. Gone /\ UNCHANGED <<document, values>> /\ redraws' = [redraws EXCEPT ![1].n = n]
        BY <1>1, <1>3, <1>8 DEF End
  <2>2. redraws[1].n > 1  BY <1>7, <1>8 DEF AllEnded
  <2>3. TransitionsSound' /\ DocumentSound'  BY <1>8, <2>1, FewerTransitions, DocumentStays
  <2>4. RedrawSound' /\ redraws'[1].age = redraws[1].age  BY <1>8, <2>1, <2>2, CountFalls
  <2>5. TimersType' /\ TimersServe' /\ OneOfEach' /\ Served' /\ LinesLast' /\ AtCursor'
        BY <1>1, <1>2, <2>1, <2>4, EndTimers
  <2>6. EndsInTime  BY <2>4 DEF EndsInTime
  <2> QED  BY <2>3, <2>4, <2>5, <2>6 DEF IInv
<1>9. CASE self.end = "count" /\ AllEnded(n)
  <2>1. PICK wanted \in SUBSET Ticks : Redraw(wanted, transitions \ {self}, list)
        BY <1>1, <1>3, <1>9 DEF End
  <2>2. ~ (redraws[1].n > 1)  BY <1>7, <1>9 DEF AllEnded
  <2>3. transitions = {self}  BY <1>9, <2>2, Alone
  <2>4. transitions \ {self} = {}  BY <2>3
  <2>5. Redraw(wanted, {}, list)  BY <2>1, <2>4
  <2>6. IInv' /\ document = values  BY <1>1, <1>2, <1>9, <2>3, <2>5, Redraws
  <2> QED  BY <2>6 DEF EndsInTime
<1> QED  BY <1>3, <1>5, <1>6, <1>8, <1>9 DEF Listener

---------------------------------------------------------------------------
(* Frames. *)

\* A frame begins: all timers are of transitions that run, and time goes on.
LEMMA WakeKeeps == IInv /\ Wake => IInv' /\ ~ (redraws'[1].age < redraws[1].age)
<1> SUFFICES ASSUME IInv, Wake PROVE IInv' /\ ~ (redraws'[1].age < redraws[1].age)  OBVIOUS
<1>1. cursor = 0 /\ cursor' = 1 /\ alarm' = FALSE /\ UNCHANGED <<document, values, transitions, timers>>
      BY DEF Wake
<1>2. PICK step \in 1..Duration :
         redraws' = [i \in DOMAIN redraws |-> [redraws[i] EXCEPT !.age = Min({@ + step, Duration})]]
      BY DEF Wake
<1> DEFINE R == [n : 0..Cardinality(Lines), age : 0..Duration]
           a == redraws[1].age
           b == Min({a + step, Duration})
           r == [redraws[1] EXCEPT !.age = b]
<1>3. redraws \in Seq(R) /\ Len(redraws) = 1 /\ redraws[1].n = Cardinality(Counting)
      BY DEF IInv, RedrawSound
<1>4. DOMAIN redraws = 1..1 /\ redraws[1] \in R
  <2> HIDE DEF R
  <2>1. redraws \in [1..Len(redraws) -> R]  BY <1>3, LenProperties
  <2> QED  BY <1>3, <2>1
<1>5. Duration \in Nat  BY LiveChartAssumption
<1>6. a \in Nat /\ a <= Duration  BY <1>4, <1>5
<1>7. b \in 0..Duration /\ ~ (b < a)
  <2> HIDE DEF a
  <2>1. a + step \in Nat  BY <1>5, <1>6
  <2> DEFINE c == a + step
  <2>2. c \in Nat /\ ~ (c < a)  BY <1>5, <1>6
  <2> HIDE DEF c
  <2>3. Min({c, Duration}) \in {c, Duration} /\ Min({c, Duration}) <= Duration
    <3>1. \E x \in {c, Duration} : \A y \in {c, Duration} : x <= y  BY <1>5, <2>2
    <3>2. Min({c, Duration}) \in {c, Duration} /\ \A y \in {c, Duration} : Min({c, Duration}) <= y
          BY <3>1 DEF Min
    <3> QED  BY <3>2
  <2>4. b = Min({c, Duration})  BY DEF c
  <2> HIDE DEF b
  <2> QED  BY <1>5, <1>6, <2>2, <2>3, <2>4
<1> HIDE DEF a, b
<1>8. r \in R /\ r.n = redraws[1].n /\ r.age = b  BY <1>4, <1>7
<1>9. redraws' = [i \in 1..1 |-> r]  BY <1>2, <1>4 DEF a, b
<1> HIDE DEF r, R
<1>10. redraws' \in [1..1 -> R] /\ redraws'[1] = r  BY <1>8, <1>9
<1>11. redraws' \in Seq(R) /\ Len(redraws') = 1  BY <1>10, OneElement
<1>12. RedrawSound'
  <2>1. Counting' = Counting  BY <1>1 DEF Counting
  <2> QED  BY <1>3, <1>8, <1>10, <1>11, <2>1 DEF RedrawSound, R
<1>13. TransitionsSound' /\ DocumentSound'  BY <1>1 DEF IInv, TransitionsSound, DocumentSound
<1>14. TimersServe' /\ OneOfEach' /\ Served' /\ LinesLast'
       BY <1>1 DEF IInv, TimersServe, OneOfEach, Served, LinesLast
<1>15. DOMAIN timers = 1..Len(timers) /\ Len(timers) \in Nat /\ timers \in Seq(Timer)  BY TimersThere
<1>16. TimersType'
  <2>1. cursor' \in 0..(Len(timers) + 1)  BY <1>1, <1>15
  <2> QED  BY <1>1, <1>15, <2>1 DEF TimersType
<1>17. AtCursor'
  <2> SUFFICES ASSUME NEW i \in DOMAIN timers
               PROVE  /\ i >= 1 /\ ~ (i < 1) /\ timers[i].call # "start"
                      /\ timers[i].call = "tick" => \A t \in transitions : t.state = "RUNNING"
      BY <1>1 DEF AtCursor
  <2>1. i >= 1 /\ ~ (i < 1) /\ ~ (i < cursor)  BY <1>1, <1>15
  <2> QED  BY <2>1, Waiting
<1>18. ~ (redraws'[1].age < redraws[1].age)  BY <1>7, <1>8, <1>10 DEF a
<1> QED  BY <1>12, <1>13, <1>14, <1>16, <1>17, <1>18 DEF IInv

\* A frame ends: no timer waits in the list to be called for the first time, and those
\* stopped are taken off it.
LEMMA NapKeeps == IInv /\ Nap => IInv' /\ UNCHANGED redraws
<1> SUFFICES ASSUME IInv, Nap PROVE IInv' /\ UNCHANGED redraws  OBVIOUS
<1>1. /\ cursor > Len(timers) /\ timers' = Running(timers) /\ cursor' = 0
      /\ alarm' = (timers' # <<>>) /\ UNCHANGED <<document, values, transitions, redraws>>
      BY DEF Nap
<1>2. DOMAIN timers = 1..Len(timers) /\ Len(timers) \in Nat /\ timers \in Seq(Timer) /\ cursor \in Nat
      BY TimersThere
<1>3. \A i \in DOMAIN timers : i < cursor /\ ~ (i >= cursor)  BY <1>1, <1>2
<1>4. \A i \in DOMAIN timers : timers[i].call \notin {"schedule", "first tick"}  BY <1>3, Waiting
<1>5. \A i \in DOMAIN timers : timers[i].call # "start"
  <2> SUFFICES ASSUME NEW i \in DOMAIN timers, timers[i].call = "start" PROVE FALSE  OBVIOUS
  <2>1. PICK t \in transitions : t.node = timers[i].node /\ Fits(t.state, "start")  BY ItsTransition
  <2>2. t.state = "STARTED"  BY <2>1 DEF Fits
  <2> QED  BY <1>4, <2>2, ItsFirst
<1>6. \A t \in transitions : t.state = "RUNNING"
  <2> TAKE t \in transitions
  <2>1. PICK i \in DOMAIN timers : timers[i].call \in Own /\ Fits(t.state, timers[i].call)  BY ItsOwn
  <2>2. timers[i].call = "tick"  BY <1>4, <1>5, <2>1 DEF Own
  <2> QED  BY <2>1, <2>2 DEF Fits
<1> DEFINE K == {i \in DOMAIN timers : timers[i].call # "none"}
           kept == Ascending(K)
           n == Cardinality(K)
<1>7. IsFiniteSet(K) /\ K \subseteq Int
  <2>1. K \in SUBSET (1..Len(timers))  BY <1>2
  <2>2. IsFiniteSet(1..Len(timers))  BY <1>2, FS_Interval
  <2> QED  BY <2>1, <2>2, FS_Subset
<1>8. \A i \in K : i \in DOMAIN timers /\ i \in Int /\ timers[i].call # "none"  BY <1>7
<1>9. \A i \in DOMAIN timers : timers[i].call # "none" => i \in K  OBVIOUS
<1>10. timers' = [j \in DOMAIN kept |-> timers[kept[j]]]  BY <1>1 DEF Running
<1> HIDE DEF K
<1>11. /\ n \in Nat /\ kept \in [1..n -> K]
       /\ \A i, j \in 1..n : i < j => kept[i] < kept[j]
       /\ \A x \in K : \E i \in 1..n : kept[i] = x
       BY <1>7, AscendingEnumerates
<1> HIDE DEF n, kept
<1>12. DOMAIN kept = 1..n /\ \A j \in 1..n : kept[j] \in K  BY <1>11
<1>13. /\ DOMAIN timers' = 1..n
       /\ \A j \in 1..n : timers'[j] = timers[kept[j]] /\ kept[j] \in DOMAIN timers /\ timers'[j].call # "none"
       BY <1>8, <1>10, <1>12
<1>14. timers' \in Seq(Timer) /\ Len(timers') = n
  <2>1. \A j \in 1..n : timers[kept[j]] \in Timer  BY <1>2, <1>13, TimersFacts
  <2>2. timers' \in [1..n -> Timer]  BY <1>10, <1>12, <2>1
  <2> QED  BY <1>11, <2>2, LenProperties, SeqDef
<1>15. TimersType'
  <2>1. 0 \in 0..(n + 1)  BY <1>11
  <2> QED  BY <1>1, <1>14, <2>1 DEF TimersType
<1>16. TransitionsSound' /\ DocumentSound' /\ RedrawSound'
  <2>1. Counting' = Counting  BY <1>1 DEF Counting
  <2> QED  BY <1>1, <2>1 DEF IInv, TransitionsSound, DocumentSound, RedrawSound
<1>17. TimersServe'
  <2> SUFFICES ASSUME NEW j \in 1..n
               PROVE  \E t \in transitions : TimerOf(t, timers'[j].call) = timers'[j] /\ Fits(t.state, timers'[j].call)
      BY <1>1, <1>13 DEF TimersServe
  <2> QED  BY <1>13, ItsTransition
<1>18. OneOfEach'
  <2> SUFFICES ASSUME NEW i \in 1..n, NEW j \in 1..n, timers'[i].node = timers'[j].node,
                      Alike(timers'[i].call, timers'[j].call)
               PROVE  i = j
      BY <1>13 DEF OneOfEach
  <2>1. kept[i] = kept[j]  BY <1>13, NoDouble
  <2>2. kept[i] \in Int /\ kept[j] \in Int  BY <1>8, <1>12
  <2>3. ~ (i < j) /\ ~ (j < i)  BY <1>11, <2>1, <2>2
  <2> QED  BY <1>11, <2>3
<1>19. Served'
  <2> SUFFICES ASSUME NEW t \in transitions
               PROVE  \E j \in 1..n : timers'[j].node = t.node /\ timers'[j].call \in Own
      BY <1>1, <1>6, <1>13 DEF Served
  <2>1. PICK i \in DOMAIN timers : timers[i].node = t.node /\ timers[i].call \in Own  BY ItsOwn
  <2>2. i \in K  BY <1>9, <2>1 DEF Own
  <2>3. PICK j \in 1..n : kept[j] = i  BY <1>11, <2>2
  <2> QED  BY <1>13, <2>1, <2>3
<1>20. LinesLast'
  <2> SUFFICES ASSUME NEW i \in 1..n, NEW j \in 1..n, i < j, timers'[i].node \in Lines,
                      Alike(timers'[i].call, timers'[j].call)
               PROVE  timers'[j].node \in Lines
      BY <1>13 DEF LinesLast
  <2>1. kept[i] < kept[j]  BY <1>11
  <2> QED  BY <1>13, <2>1, ToLines
<1>21. AtCursor'
  <2> SUFFICES ASSUME NEW j \in 1..n
               PROVE  timers'[j].call \notin {"schedule", "first tick", "start"} /\ ~ (j < 0)
      BY <1>1, <1>6, <1>13 DEF AtCursor
  <2>1. ~ (j < 0)  BY <1>11
  <2> QED  BY <1>4, <1>5, <1>13, <2>1
<1> QED  BY <1>1, <1>15, <1>16, <1>17, <1>18, <1>19, <1>20, <1>21 DEF IInv

---------------------------------------------------------------------------
(* What holds of the live chart. *)

\* A step keeps the invariant, and starts the time anew only if all ticks that left are gone.
LEMMA StepKeeps ==
    IInv /\ [Next]_vars => IInv' /\ (redraws'[1].age < redraws[1].age => document = values)
<1> SUFFICES ASSUME IInv, [Next]_vars
             PROVE  IInv' /\ (redraws'[1].age < redraws[1].age => document = values)
    OBVIOUS
<1>0. ~ (redraws[1].age < redraws[1].age)
  <2> DEFINE R == [n : 0..Cardinality(Lines), age : 0..Duration]
  <2>1. redraws \in Seq(R) /\ Len(redraws) = 1  BY DEF IInv, RedrawSound
  <2>2. redraws[1] \in R
    <3> HIDE DEF R
    <3>1. redraws \in [1..Len(redraws) -> R]  BY <2>1, LenProperties
    <3> QED  BY <2>1, <3>1
  <2>3. redraws[1].age \in Int  BY <2>2
  <2> QED  BY <2>3
<1>1. CASE Wake  BY <1>1, WakeKeeps
<1>2. CASE Nap  BY <1>0, <1>2, NapKeeps
<1>3. ASSUME NEW self \in transitions, Start(self) PROVE IInv' /\ UNCHANGED redraws
      BY <1>3, StartKeeps DEF Start
<1>4. ASSUME NEW self \in transitions, FirstTick(self) \/ NextTick(self), redraws[1].age < Duration
      PROVE  IInv' /\ UNCHANGED redraws
      BY <1>4, FirstTickGoesOn, NextTickGoesOn
<1>5. ASSUME NEW self \in transitions, FirstTick(self) \/ NextTick(self), ~ (redraws[1].age < Duration)
      PROVE  IInv' /\ EndsInTime
      BY <1>5, EndKeeps
<1>6. CASE UNCHANGED vars
  <2>1. UNCHANGED <<document, values, transitions, redraws, timers, cursor, alarm>>  BY <1>6 DEF vars
  <2>2. (TransitionsSound /\ RedrawSound /\ DocumentSound)'
        BY <2>1 DEF IInv, TransitionsSound, RedrawSound, Counting, DocumentSound
  <2>3. (TimersType /\ TimersServe /\ OneOfEach)'
        BY <2>1 DEF IInv, TimersType, TimersServe, OneOfEach
  <2>4. (Served /\ LinesLast /\ AtCursor)'
        BY <2>1 DEF IInv, Served, LinesLast, AtCursor
  <2> QED  BY <1>0, <2>1, <2>2, <2>3, <2>4 DEF IInv
<1> QED  BY <1>0, <1>1, <1>2, <1>3, <1>4, <1>5, <1>6 DEF Next, EndsInTime

\* The invariant is stronger than what the runs check.
LEMMA IInvImplies == IInv => TypeOK /\ OneTransition
<1> SUFFICES ASSUME IInv PROVE TypeOK /\ OneTransition  OBVIOUS
<1>1. TypeOK  BY DEF IInv, TypeOK, TransitionsSound, RedrawSound, DocumentSound, TimersType
<1>2. OneTransition
  <2>1. {t \in transitions : t.end = "count" /\ t.ago = 0} = Counting  BY OneEach DEF Counting
  <2>2. \A t, u \in transitions : t.node = u.node => t = u  BY DEF IInv, TransitionsSound
  <2>3. redraws[1].n = Cardinality(Counting)  BY DEF IInv, RedrawSound
  <2>4. \A t \in transitions : t.ago = 0  BY DEF IInv, TransitionsSound
  <2> QED  BY <2>1, <2>2, <2>3, <2>4 DEF OneTransition
<1> QED  BY <1>1, <1>2

\* The invariant holds in every state.
LEMMA Invariance == Spec => []IInv
<1>1. IInv /\ [Next]_vars => IInv'  BY StepKeeps
<1> QED  BY <1>1, InitIInv, PTL DEF Spec

\* Transitions, timers and redraws are what LiveChart declares, and the cursor of the frame
\* (d3_timer_mark) stays within the list, however many timers are added while it runs.
THEOREM LiveChartTyped == Spec => []TypeOK
BY Invariance, IInvImplies, PTL

\* No element ever has two transitions, and n counts the lines whose transitions have not
\* ended: redraw may restart when the last line ends (redrawLiveChart and d3 transitions).
THEOREM OneTransitionEach == Spec => []OneTransition
BY Invariance, IInvImplies, PTL

\* When a redraw sets its time to 0, every tick that left an axis before is removed: the
\* transitions of the lines were scheduled last, so that all others ended before them.
THEOREM TicksLeaveInTime == Spec => TicksHaveLeft
<1>1. IInv /\ [Next]_vars => [redraws'[1].age < redraws[1].age => document = values]_vars
      BY StepKeeps
<1> QED  BY <1>1, Invariance, PTL DEF Spec, TicksHaveLeft

---------------------------------------------------------------------------
(* The live chart never stands still. *)

\* A line is still to end, the frame is never asked for in vain, and what has stopped is
\* behind the frame: it never waits at a timer that calls nothing.
Alive ==
    /\ Counting # {} /\ (cursor = 0 => alarm)
    /\ \A i \in DOMAIN timers : timers[i].call = "none" => i < cursor

\* n tells whether a line is left.
LEMMA CountTells == IInv => (Counting # {} <=> redraws[1].n # 0)
<1> SUFFICES ASSUME IInv PROVE Counting # {} <=> redraws[1].n # 0  OBVIOUS
<1>1. redraws[1].n = Cardinality(Counting) /\ IsFiniteSet(transitions)
      BY DEF IInv, RedrawSound, TransitionsSound
<1>2. Counting \in SUBSET transitions  BY DEF Counting
<1>3. IsFiniteSet(Counting)  BY <1>1, <1>2, FS_Subset
<1> QED  BY <1>1, <1>3, FS_EmptySet

\* A call of the flush leaves the chart alive if it stops no timer but where it is or before.
LEMMA CallStaysAlive ==
    ASSUME IInv, IInv', Alive, NEW self \in transitions, NEW calls, Calls(calls, self),
           redraws'[1].n # 0,
           \A i \in DOMAIN timers' : timers'[i].call = "none" =>
               i \in DOMAIN timers /\ (timers[i].call = "none" \/ i <= cursor)
    PROVE  Alive'
<1>1. cursor \in Nat /\ cursor' = cursor + 1 /\ DOMAIN timers = 1..Len(timers) /\ Len(timers) \in Nat
      BY CallsFacts
<1>2. Counting' # {}
  <2>1. (IInv => (Counting # {} <=> redraws[1].n # 0))'  BY CountTells, PTL
  <2> QED  BY <2>1
<1>3. ASSUME NEW i \in DOMAIN timers', timers'[i].call = "none" PROVE i < cursor'
  <2>1. i \in Nat /\ (i < cursor \/ i <= cursor)  BY <1>1, <1>3 DEF Alive
  <2> QED  BY <1>1, <2>1
<1>4. cursor' # 0  BY <1>1
<1> QED  BY <1>2, <1>3, <1>4 DEF Alive

\* schedule stops nothing.
LEMMA StartStaysAlive ==
    ASSUME IInv, Alive, NEW self \in transitions, Start(self) PROVE Alive'
<1> DEFINE list == [timers EXCEPT ![cursor].call = "start"]
           x == TimerOf(self, "first tick")
<1>1. Calls({"schedule"}, self) /\ timers' = Append(list, x) /\ UNCHANGED redraws  BY DEF Start
<1>2. IInv'  BY StartKeeps
<1>3. CallSet(list, timers, cursor, "start")  BY DEF CallSet
<1>4. cursor \in DOMAIN timers /\ self \in Transition  BY <1>1, CallsFacts
<1>5. timers \in Seq(Timer) /\ DOMAIN timers = 1..Len(timers) /\ Len(timers) \in Nat  BY TimersThere
<1>6. x \in Timer /\ x.call = "first tick"  BY <1>4, TimerOfFacts DEF Call
<1> HIDE DEF list, x
<1>7. /\ list \in Seq(Timer) /\ Len(list) = Len(timers) /\ DOMAIN list = DOMAIN timers
      /\ \A k \in DOMAIN timers : k # cursor => list[k] = timers[k]
      /\ list[cursor].call = "start"
  <2>1. "start" \in Call  BY DEF Call
  <2> QED  BY <1>3, <1>4, <1>5, <2>1, CallSetFacts
<1>8. /\ timers' \in Seq(Timer) /\ Len(timers') = Len(list) + 1
      /\ \A k \in 1..Len(list) : timers'[k] = list[k]
      /\ timers'[Len(list) + 1] = x
  <2>1. list \in Seq(Timer) /\ x \in Timer /\ timers' = Append(list, x)  BY <1>1, <1>6, <1>7
  <2> QED  BY <2>1, AppendProperties
<1>9. DOMAIN timers' = 1..(Len(timers) + 1)
  <2>1. DOMAIN timers' = 1..Len(timers')  BY <1>8, TimersFacts
  <2> QED  BY <1>7, <1>8, <2>1
<1>10. ASSUME NEW i \in DOMAIN timers', timers'[i].call = "none"
       PROVE  i \in DOMAIN timers /\ timers[i].call = "none"
  <2>1. i \in 1..Len(timers) \/ i = Len(list) + 1  BY <1>5, <1>7, <1>9
  <2>2. i \in 1..Len(timers)  BY <1>6, <1>8, <1>10, <2>1
  <2>3. timers'[i] = list[i] /\ i # cursor  BY <1>7, <1>8, <1>10, <2>2
  <2> QED  BY <1>5, <1>7, <1>10, <2>2, <2>3
<1>11. redraws'[1].n # 0  BY <1>1, CountTells DEF Alive
<1> QED  BY <1>1, <1>2, <1>10, <1>11, CallStaysAlive

\* A tick of a transition that goes on stops at most the timer it was called by.
LEMMA TickStaysAlive ==
    ASSUME IInv, Alive, NEW self \in transitions, FirstTick(self) \/ NextTick(self),
           redraws[1].age < Duration
    PROVE  Alive'
<1>1. IInv' /\ UNCHANGED redraws  BY FirstTickGoesOn, NextTickGoesOn
<1>2. self.ago = 0  BY OneEach
<1>3. redraws[self.ago + 1].age < Duration  BY <1>2
<1>4. redraws'[1].n # 0  BY <1>1, CountTells DEF Alive
<1>5. timers \in Seq(Timer)  BY TimersThere
<1>6. CASE NextTick(self)
  <2>1. Calls({"tick"}, self)  BY <1>6 DEF NextTick
  <2>2. timers' = timers  BY <1>3, <1>6 DEF NextTick, Tick
  <2> QED  BY <1>1, <1>4, <2>1, <2>2, CallStaysAlive
<1>7. CASE FirstTick(self)
  <2>1. Calls({"first tick"}, self)  BY <1>7 DEF FirstTick
  <2>2. PICK own \in DOMAIN timers :
           /\ own # cursor
           /\ Tick(self, own, [timers EXCEPT ![cursor].call = "none", ![own].call = "tick"])
        BY <1>7, FirstTickFacts
  <2> DEFINE first == [timers EXCEPT ![cursor].call = "none"]
             second == [first EXCEPT ![own].call = "tick"]
  <2>3. timers' = second
    <3>1. second = [timers EXCEPT ![cursor].call = "none", ![own].call = "tick"]  OBVIOUS
    <3> HIDE DEF second
    <3> QED  BY <1>3, <2>2, <3>1 DEF Tick
  <2>4. CallSet(first, timers, cursor, "none") /\ CallSet(second, first, own, "tick")  BY DEF CallSet
  <2> HIDE DEF first, second
  <2>5. cursor \in DOMAIN timers /\ "none" \in Call /\ "tick" \in Call /\ cursor \in Nat
        BY <2>1, CallsFacts DEF Call
  <2>6. /\ first \in Seq(Timer) /\ DOMAIN first = DOMAIN timers
        /\ \A k \in DOMAIN timers : k # cursor => first[k] = timers[k]
        BY <1>5, <2>4, <2>5, CallSetFacts
  <2>7. /\ DOMAIN second = DOMAIN first /\ second[own].call = "tick"
        /\ \A k \in DOMAIN first : k # own => second[k] = first[k]
    <3>1. own \in DOMAIN first  BY <2>6
    <3> QED  BY <2>4, <2>5, <2>6, <3>1, CallSetFacts
  <2>8. ASSUME NEW i \in DOMAIN timers', timers'[i].call = "none"
        PROVE  i \in DOMAIN timers /\ (timers[i].call = "none" \/ i <= cursor)
    <3>1. i \in DOMAIN timers /\ i # own  BY <2>3, <2>6, <2>7, <2>8
    <3>2. i = cursor => i <= cursor  BY <2>5
    <3>3. i # cursor => timers'[i] = timers[i]  BY <2>3, <2>6, <2>7, <3>1
    <3> QED  BY <2>8, <3>1, <3>2, <3>3
  <2> QED  BY <1>1, <1>4, <2>1, <2>8, CallStaysAlive
<1> QED  BY <1>6, <1>7

\* The timers that a transition stops when it ends: none is ahead of the frame.
LEMMA HaltedBehind ==
    ASSUME IInv, Alive, NEW self \in transitions, NEW own, NEW list, Halted(self, own, list)
    PROVE  \A i \in DOMAIN list : list[i].call = "none" =>
               i \in DOMAIN timers /\ (timers[i].call = "none" \/ i <= cursor)
<1> SUFFICES ASSUME NEW i \in DOMAIN list, list[i].call = "none"
             PROVE  i \in DOMAIN timers /\ (timers[i].call = "none" \/ i <= cursor)
    OBVIOUS
<1>1. i \in DOMAIN timers /\ (i # cursor /\ i # own => list[i] = timers[i]) /\ own <= cursor
      BY DEF Halted
<1>2. i = cursor => i <= cursor  BY <1>1, TimersThere
<1> QED  BY <1>1, <1>2

\* The redraw finds all timers stopped and the frame at the last of them.
LEMMA RedrawStaysAlive ==
    ASSUME IInv, IInv', Alive, NEW self \in transitions, transitions = {self},
           NEW calls, Calls(calls, self), NEW own, NEW list, Halted(self, own, list),
           NEW wanted \in SUBSET Ticks, Redraw(wanted, {}, list)
    PROVE  Alive'
<1>1. /\ timers \in Seq(Timer) /\ DOMAIN timers = 1..Len(timers) /\ Len(timers) \in Nat
      BY TimersThere
<1>2. /\ list \in Seq(Timer) /\ Len(list) = Len(timers) /\ DOMAIN list = DOMAIN timers /\ own <= cursor
      BY DEF Halted
<1> DEFINE old == [i \in DOMAIN list |-> Older(list[i])]
           new == Schedule(Scheduled(wanted))
<1>3. timers' = old \o new  BY DEF Redraw
<1>4. old \in Seq(Timer) /\ Len(old) = Len(timers)
  <2>1. ASSUME NEW i \in DOMAIN timers PROVE Older(list[i]) \in Timer
    <3>1. list[i] \in Timer  BY <1>2, <2>1, TimersFacts
    <3> DEFINE x == list[i]
    <3> HIDE DEF x
    <3> QED  BY <3>1, OlderTimer DEF x
  <2>2. old \in [1..Len(timers) -> Timer]  BY <1>1, <1>2, <2>1
  <2> HIDE DEF old
  <2> QED  BY <1>1, <2>2, LenProperties, SeqDef
<1>5. new \in Seq(Timer) /\ Len(new) \in Nat /\ \A k \in 1..Len(new) : new[k].call = "schedule"
  <2> DEFINE s == Scheduled(wanted)
  <2>1. document \subseteq Ticks  BY DEF IInv, DocumentSound
  <2>2. s \in Seq(Transition) /\ Len(s) \in Nat  BY <2>1, ScheduledFacts
  <2> HIDE DEF s
  <2> QED  BY <2>2, ScheduleTimers DEF s
<1> HIDE DEF old, new
<1>6. Joins(timers', old, new)  BY <1>3 DEF Joins
<1>7. /\ \A i \in 1..Len(new) : timers'[Len(old) + i] = new[i]
      /\ \A i \in DOMAIN timers' : i \in 1..Len(old) \/ \E k \in 1..Len(new) : i = Len(old) + k
  <2>1. old \in Seq(Timer) /\ new \in Seq(Timer)  BY <1>4, <1>5
  <2> QED  BY <1>6, <2>1, ConcatTimers
<1>8. ASSUME NEW i \in DOMAIN timers', timers'[i].call = "none"
      PROVE  i \in DOMAIN timers /\ (timers[i].call = "none" \/ i <= cursor)
  <2>1. i \in DOMAIN timers
    <3>1. \A k \in 1..Len(new) : i # Len(old) + k  BY <1>5, <1>7, <1>8
    <3> QED  BY <1>1, <1>4, <1>7, <3>1
  <2>2. ASSUME timers[i].call # "none" PROVE i <= cursor
    <3>1. PICK t \in transitions : t.node = timers[i].node  BY <2>1, <2>2, ItsTransition
    <3>2. i = cursor \/ i = own  BY <2>1, <2>2, <3>1 DEF Halted
    <3> QED  BY <1>2, <3>2, TimersThere
  <2> QED  BY <2>1, <2>2
<1>9. redraws'[1].n # 0
  <2> DEFINE r == [n |-> Cardinality(Lines), age |-> 0]
             rest == SubSeq(redraws, 1, Max({t.ago + 1 : t \in {}} \cup {0}))
  <2>1. redraws' = <<r>> \o rest  BY DEF Redraw
  <2>2. {t.ago + 1 : t \in {}} \cup {0} = {0}  OBVIOUS
  <2>3. Max({0}) = 0  BY DEF Max
  <2>4. rest = <<>>  BY <2>2, <2>3
  <2> HIDE DEF r, rest
  <2>5. redraws' = <<r>>  BY <2>1, <2>4
  <2>6. r.n = Cardinality(Lines)  BY DEF r
  <2>7. Cardinality(Lines) # 0  BY LiveChartAssumption, FS_EmptySet
  <2> QED  BY <2>5, <2>6, <2>7
<1> QED  BY <1>8, <1>9, CallStaysAlive

\* The end of a transition leaves a line to end: the last one redraws.
LEMMA EndStaysAlive ==
    ASSUME IInv, Alive, NEW self \in transitions, FirstTick(self) \/ NextTick(self),
           ~ (redraws[1].age < Duration)
    PROVE  Alive'
<1>1. PICK own, list : Halted(self, own, list) /\ End(self, list)  BY FirstTickHalts, NextTickHalts
<1>2. PICK calls : Calls(calls, self)  BY DEF FirstTick, NextTick
<1>3. IInv'  BY EndKeeps
<1>4. self.ago = 0 /\ self.end \in Listener
  <2>1. self \in Transition /\ self.ago = 0  BY OneEach
  <2> QED  BY <2>1 DEF Transition
<1>5. \A i \in DOMAIN list : list[i].call = "none" =>
          i \in DOMAIN timers /\ (timers[i].call = "none" \/ i <= cursor)
      BY <1>1, HaltedBehind
<1>6. redraws[1].n # 0 /\ Counting # {}  BY CountTells DEF Alive
<1> DEFINE n == redraws[1].n - 1
<1>7. redraws[1].n \in Int /\ redraws[1].n = Cardinality(Counting)
  <2>1. redraws[1].n = Cardinality(Counting) /\ IsFiniteSet(transitions)
        BY DEF IInv, RedrawSound, TransitionsSound
  <2>2. Counting \in SUBSET transitions  BY DEF Counting
  <2> QED  BY <2>1, <2>2, FS_Subset, FS_CardinalityType
<1>8. CASE self.end # "count"
  <2>1. timers' = list /\ redraws' = redraws  BY <1>1, <1>4, <1>8 DEF End, Listener
  <2> QED  BY <1>2, <1>3, <1>5, <1>6, <2>1, CallStaysAlive
<1>9. CASE self.end = "count" /\ ~ AllEnded(n)
  <2>1. timers' = list /\ transitions' = transitions \ {self} /\ redraws' = [redraws EXCEPT ![1].n = n]
        BY <1>1, <1>4, <1>9 DEF End
  <2>2. redraws[1].n > 1  BY <1>7, <1>9 DEF AllEnded
  <2>3. RedrawSound'  BY <1>9, <2>1, <2>2, CountFalls
  <2>4. redraws'[1].n # 0
    <3>1. Counting' = Counting \ {self} /\ self \in Counting  BY <1>9, <2>1 DEF Counting
    <3>2. IsFiniteSet(Counting)
      <4>1. Counting \in SUBSET transitions  BY DEF Counting
      <4> QED  BY <4>1, FS_Subset DEF IInv, TransitionsSound
    <3>3. Cardinality(Counting') = Cardinality(Counting) - 1  BY <3>1, <3>2, FS_RemoveElement
    <3> QED  BY <1>7, <2>2, <2>3, <3>3 DEF RedrawSound
  <2> QED  BY <1>2, <1>3, <1>5, <2>1, <2>4, CallStaysAlive
<1>10. CASE self.end = "count" /\ AllEnded(n)
  <2>1. PICK wanted \in SUBSET Ticks : Redraw(wanted, transitions \ {self}, list)
        BY <1>1, <1>4, <1>10 DEF End
  <2>2. ~ (redraws[1].n > 1)  BY <1>7, <1>10 DEF AllEnded
  <2>3. transitions = {self}  BY <1>10, <2>2, Alone
  <2>4. transitions \ {self} = {}  BY <2>3
  <2>5. Redraw(wanted, {}, list)  BY <2>1, <2>4
  <2> QED  BY <1>1, <1>2, <1>3, <2>3, <2>5, RedrawStaysAlive
<1> QED  BY <1>8, <1>9, <1>10

\* nap keeps the timers that go on, so that the line's is among them and wake is asked for.
LEMMA NapStaysAlive == IInv /\ Alive /\ Nap => Alive'
<1> SUFFICES ASSUME IInv, Alive, Nap PROVE Alive'  OBVIOUS
<1>1. /\ timers' = Running(timers) /\ alarm' = (timers' # <<>>)
      /\ UNCHANGED <<document, values, transitions, redraws>>
      BY DEF Nap
<1>2. IInv'  BY NapKeeps
<1>3. Counting' = Counting /\ Counting # {}  BY <1>1 DEF Counting, Alive
<1>4. timers' # <<>>
  <2>1. PICK t \in transitions' : t.end = "count"  BY <1>3 DEF Counting
  <2>2. \E i \in DOMAIN timers' : timers'[i].call \in Own  BY <1>2, <2>1 DEF IInv, Served
  <2> QED  BY <2>2
<1>5. \A i \in DOMAIN timers' : timers'[i].call # "none"
  <2> DEFINE K == {i \in DOMAIN timers : timers[i].call # "none"}
             kept == Ascending(K)
  <2>1. IsFiniteSet(K) /\ K \subseteq Int
    <3>1. DOMAIN timers = 1..Len(timers) /\ Len(timers) \in Nat  BY TimersThere
    <3>2. K \in SUBSET (1..Len(timers))  BY <3>1
    <3>3. IsFiniteSet(1..Len(timers))  BY <3>1, FS_Interval
    <3> QED  BY <3>2, <3>3, FS_Subset
  <2>2. timers' = [j \in DOMAIN kept |-> timers[kept[j]]]  BY <1>1 DEF Running
  <2>3. \A i \in K : timers[i].call # "none"  OBVIOUS
  <2> HIDE DEF K
  <2>4. kept \in [1..Cardinality(K) -> K]  BY <2>1, AscendingEnumerates
  <2> HIDE DEF kept
  <2> QED  BY <2>2, <2>3, <2>4
<1> QED  BY <1>1, <1>3, <1>4, <1>5 DEF Alive

\* A step of any kind keeps the chart alive.
LEMMA StepStaysAlive == IInv /\ Alive /\ [Next]_vars => Alive'
<1> SUFFICES ASSUME IInv, Alive, [Next]_vars PROVE Alive'  OBVIOUS
<1>1. CASE Wake
  <2>1. cursor = 0 /\ cursor' = 1 /\ UNCHANGED <<transitions, timers>>  BY <1>1 DEF Wake
  <2>2. DOMAIN timers = 1..Len(timers) /\ Len(timers) \in Nat  BY TimersThere
  <2>3. \A i \in DOMAIN timers : timers[i].call # "none"  BY <2>1, <2>2 DEF Alive
  <2>4. Counting' = Counting  BY <2>1 DEF Counting
  <2> QED  BY <2>1, <2>3, <2>4 DEF Alive
<1>2. CASE Nap  BY <1>2, NapStaysAlive
<1>3. ASSUME NEW self \in transitions, Start(self) PROVE Alive'  BY <1>3, StartStaysAlive
<1>4. ASSUME NEW self \in transitions, FirstTick(self) \/ NextTick(self) PROVE Alive'
      BY <1>4, TickStaysAlive, EndStaysAlive
<1>5. CASE UNCHANGED vars
  <2>1. UNCHANGED <<transitions, timers, cursor, alarm>>  BY <1>5 DEF vars
  <2>2. Counting' = Counting  BY <2>1 DEF Counting
  <2> QED  BY <2>1, <2>2 DEF Alive
<1> QED  BY <1>1, <1>2, <1>3, <1>4, <1>5 DEF Next

\* The first redraw.
LEMMA InitAlive == Init => Alive
<1> SUFFICES ASSUME Init PROVE Alive  OBVIOUS
<1>1. IInv  BY InitIInv
<1>2. Counting # {}
  <2>1. redraws[1].n = Cardinality(Lines)  BY DEF Init
  <2>2. Cardinality(Lines) # 0  BY LiveChartAssumption, FS_EmptySet
  <2> QED  BY <1>1, <2>1, <2>2, CountTells
<1>3. \A i \in DOMAIN timers : timers[i].call # "none"
  <2> DEFINE s == Scheduled(values)
  <2>1. values \in SUBSET Ticks /\ document \subseteq Ticks  BY DEF Init
  <2>2. s \in Seq(Transition) /\ Len(s) \in Nat  BY <2>1, ScheduledFacts
  <2>3. timers = Schedule(s)  BY DEF Init
  <2> HIDE DEF s
  <2>4. Len(timers) = Len(s) /\ \A i \in 1..Len(s) : timers[i].call = "schedule"
        BY <2>2, <2>3, ScheduleTimers
  <2>5. DOMAIN timers = 1..Len(timers)  BY <1>1, TimersThere
  <2> QED  BY <2>4, <2>5
<1>4. alarm  BY DEF Init
<1> QED  BY <1>2, <1>3, <1>4 DEF Alive

\* The timer the frame is at finds its transition in the state it needs, and for a first tick
\* the timer it goes on with.
CanCall ==
    /\ cursor \in DOMAIN timers
    /\ \E self \in transitions :
           \/ timers[cursor] = TimerOf(self, "schedule") \/ timers[cursor] = TimerOf(self, "tick")
           \/ /\ timers[cursor] = TimerOf(self, "first tick") /\ self.state = "STARTED"
              /\ \E own \in DOMAIN timers : timers[own] = TimerOf(self, "start")

\* There is a line whose end will redraw, and the next step towards it can be taken: a frame
\* is asked for, or it is over, or the timer it is at can make its call.
GoesOn ==
    /\ Counting # {}
    /\ (cursor = 0 /\ alarm) \/ cursor > Len(timers) \/ CanCall

\* The loop of the live chart, redraw to transition to count to redraw, is never broken: no
\* listener is lost with a transition, no call waits for a transition that is gone, and no
\* frame is left out while a line moves (redrawLiveChart, d3_timer_step, d3_timer_sweep).
THEOREM LoopIsNeverBroken == Spec => []GoesOn
<1>1. IInv /\ Alive /\ [Next]_vars => (IInv /\ Alive)'  BY StepKeeps, StepStaysAlive
<1>2. IInv /\ Alive => GoesOn
  <2> SUFFICES ASSUME IInv, Alive, cursor # 0, ~ (cursor > Len(timers)) PROVE CanCall
      BY DEF GoesOn, Alive
  <2>1. DOMAIN timers = 1..Len(timers) /\ Len(timers) \in Nat /\ cursor \in Nat /\ timers \in Seq(Timer)
        BY TimersThere
  <2>2. cursor \in DOMAIN timers  BY <2>1
  <2>3. timers[cursor].call # "none" /\ timers[cursor].call # "start"
    <3>1. ~ (cursor < cursor)  BY <2>1
    <3> QED  BY <2>2, <3>1, Waiting DEF Alive
  <2>4. PICK t \in transitions : /\ TimerOf(t, timers[cursor].call) = timers[cursor]
                                 /\ Fits(t.state, timers[cursor].call)
        BY <2>2, <2>3, ItsTransition
  <2>5. CASE timers[cursor].call \in {"schedule", "tick"}  BY <2>2, <2>4, <2>5 DEF CanCall
  <2>6. CASE timers[cursor].call = "first tick"
    <3>1. t.state = "STARTED"  BY <2>4, <2>6 DEF Fits
    <3>2. PICK own \in DOMAIN timers : timers[own].node = t.node /\ timers[own].call \in Own
                                       /\ Fits("STARTED", timers[own].call)
          BY <3>1, ItsOwn
    <3>3. timers[own].call = "start"  BY <3>2 DEF Fits, Own
    <3>4. timers[own] = TimerOf(t, "start")  BY <3>2, <3>3, ItsTimer
    <3> QED  BY <2>2, <2>4, <2>6, <3>1, <3>4 DEF CanCall
  <2>7. timers[cursor].call \in {"schedule", "start", "first tick", "tick", "none"}
    <3>1. timers[cursor].call \in Call  BY <2>1, <2>2, TimersFacts
    <3> QED  BY <3>1 DEF Call
  <2> QED  BY <2>3, <2>5, <2>6, <2>7
<1> QED  BY <1>1, <1>2, InitIInv, InitAlive, PTL DEF Spec

---------------------------------------------------------------------------
(* The server of the historical chart: how old its answers are. *)

\* An entry of DataTsvServlet.cache.
Entry == [timestamp : Minutes, file : File]

\* The types of what the server and its requests keep.
ServerType ==
    /\ clock \in Minutes /\ database \in [Meters -> SUBSET Minutes]
    /\ cache \in [Meters -> Entry \cup {None}]
    /\ threads \in [Draws -> [Meters -> Thread \cup {None}]]
    /\ draws \in 0..MaxDraws /\ failures \in Nat
    /\ answers \in [Draws -> [Meters -> File \cup {None, Failed}]]

\* A file is stored at most MaxQuery after it was made.
FreshEntry(e) == e.file.made >= e.timestamp - MaxQuery

\* A request is served at most MaxQuery, and has a file when it stores one.
Serves(t) ==
    /\ t.since <= clock /\ clock - t.since <= MaxQuery
    /\ t.pc = "store" => t.file \in File /\ t.file.made >= t.since

\* So it is for all entries and requests, which are of draws that there were.
ServerFresh ==
    /\ \A m \in Meters : cache[m] # None => FreshEntry(cache[m])
    /\ \A d \in Draws, m \in Meters : threads[d][m] # None => d <= draws /\ Serves(threads[d][m])
    /\ \A d \in Draws, m \in Meters : answers[d][m] # None => d <= draws

ServerInv == ServerType /\ ServerFresh

\* What each step does to the answers.
Answered ==
    \A d \in Draws, m \in Meters :
        \/ answers'[d][m] \in {answers[d][m], None, Failed}
        \/ answers'[d][m].made >= clock - CacheTime - MaxQuery

\* A request goes on, or is done; an answer arrives, or is taken.
ThreadSet(d, m, thread) == threads' = [threads EXCEPT ![d][m] = thread]
AnswerSet(d, m, answer) == answers' = [answers EXCEPT ![d][m] = answer]

\* Nothing else changes in the requests,
LEMMA ThreadsBy ==
    ASSUME ServerInv, NEW d \in Draws, NEW m \in Meters, NEW thread \in Thread \cup {None},
           ThreadSet(d, m, thread)
    PROVE  /\ threads' \in [Draws -> [Meters -> Thread \cup {None}]]
           /\ \A e \in Draws, n \in Meters : threads'[e][n] = IF e = d /\ n = m THEN thread ELSE threads[e][n]
<1> DEFINE R == Thread \cup {None}
<1>1. threads \in [Draws -> [Meters -> R]] /\ thread \in R  BY DEF ServerInv, ServerType
<1> HIDE DEF R
<1>2. /\ threads' \in [Draws -> [Meters -> R]]
      /\ \A e \in Draws, n \in Meters : threads'[e][n] = IF e = d /\ n = m THEN thread ELSE threads[e][n]
      BY <1>1 DEF ThreadSet
<1> QED  BY <1>2 DEF R

\* and in the answers.
LEMMA AnswersBy ==
    ASSUME ServerInv, NEW d \in Draws, NEW m \in Meters, NEW answer \in File \cup {None, Failed},
           AnswerSet(d, m, answer)
    PROVE  /\ answers' \in [Draws -> [Meters -> File \cup {None, Failed}]]
           /\ \A e \in Draws, n \in Meters : answers'[e][n] = IF e = d /\ n = m THEN answer ELSE answers[e][n]
<1> DEFINE R == File \cup {None, Failed}
<1>1. answers \in [Draws -> [Meters -> R]] /\ answer \in R  BY DEF ServerInv, ServerType
<1> HIDE DEF R
<1>2. /\ answers' \in [Draws -> [Meters -> R]]
      /\ \A e \in Draws, n \in Meters : answers'[e][n] = IF e = d /\ n = m THEN answer ELSE answers[e][n]
      BY <1>1 DEF AnswerSet
<1> QED  BY <1>2 DEF R

\* The page is opened (Init).
LEMMA InitServer == HistoryInit => ServerInv
BY HistoricalChartAssumption DEF HistoryInit, ServerInv, ServerType, ServerFresh, Minutes

\* A minute passes, for a request that has minutes left.
LEMMA MinuteServer == ASSUME ServerInv, MinutePasses PROVE ServerInv' /\ Answered
<1>1. clock' = clock + 1 /\ clock \in Minutes /\ clock' \in Minutes
      BY HistoricalChartAssumption DEF MinutePasses, ServerInv, ServerType, Minutes
<1>2. UNCHANGED <<database, cache, threads, answers, draws>>  BY DEF MinutePasses, server, page
<1>6. failures' \in Nat  BY DEF MinutePasses, Fails, ServerInv, ServerType
<1>3. ASSUME NEW d \in Draws, NEW m \in Meters, threads[d][m] # None
      PROVE  d <= draws /\ Serves(threads[d][m])'
  <2>1. Serves(threads[d][m]) /\ d <= draws  BY <1>3 DEF ServerInv, ServerFresh
  <2>2. threads[d][m].since \in Minutes  BY <1>3 DEF ServerInv, ServerType, Thread
  <2> DEFINE serving == {dm \in Draws \X Meters : threads[dm[1]][dm[2]] # None}
  <2>a. \A dm \in serving : clock - threads[dm[1]][dm[2]].since < MaxQuery  BY DEF MinutePasses
  <2>b. <<d, m>> \in serving  BY <1>3
  <2> HIDE DEF serving
  <2>3. clock - threads[d][m].since < MaxQuery  BY <2>a, <2>b
  <2>4. clock' - threads[d][m].since <= MaxQuery /\ threads[d][m].since <= clock'
        BY <1>1, <2>1, <2>2, <2>3, HistoricalChartAssumption DEF Serves, Minutes
  <2> QED  BY <1>2, <2>1, <2>4 DEF Serves
<1>4. ServerType'  BY <1>1, <1>2, <1>6 DEF ServerInv, ServerType
<1>5. ServerFresh'  BY <1>2, <1>3 DEF ServerInv, ServerFresh, FreshEntry
<1> QED  BY <1>2, <1>4, <1>5 DEF ServerInv, Answered

\* A step of one thread and its answer.
ThreadStep(d, m, thread, answer) == ThreadSet(d, m, thread) /\ AnswerSet(d, m, answer)

\* It keeps the server as it has to be.
LEMMA ThreadStepServer ==
    ASSUME ServerInv, NEW d \in Draws, NEW m \in Meters, d <= draws,
           UNCHANGED <<clock, database, draws>>, failures' \in Nat,
           cache' \in [Meters -> Entry \cup {None}], \A n \in Meters : cache'[n] # None => FreshEntry(cache'[n]),
           NEW thread \in Thread \cup {None}, thread # None => Serves(thread),
           NEW answer \in File \cup {None, Failed}, ThreadStep(d, m, thread, answer)
    PROVE  ServerInv'
<1>1. /\ threads' \in [Draws -> [Meters -> Thread \cup {None}]]
      /\ \A e \in Draws, n \in Meters : threads'[e][n] = IF e = d /\ n = m THEN thread ELSE threads[e][n]
      BY ThreadsBy DEF ThreadStep
<1>2. /\ answers' \in [Draws -> [Meters -> File \cup {None, Failed}]]
      /\ \A e \in Draws, n \in Meters : answers'[e][n] = IF e = d /\ n = m THEN answer ELSE answers[e][n]
      BY AnswersBy DEF ThreadStep
<1>3. ServerType'  BY <1>1, <1>2 DEF ServerInv, ServerType
<1>4. ASSUME NEW e \in Draws, NEW n \in Meters, threads'[e][n] # None
      PROVE  e <= draws /\ Serves(threads'[e][n])
  <2>1. CASE e = d /\ n = m  BY <1>1, <1>4, <2>1
  <2>2. CASE ~ (e = d /\ n = m)  BY <1>1, <1>4, <2>2 DEF ServerInv, ServerFresh
  <2> QED  BY <2>1, <2>2
<1>5. \A e \in Draws, n \in Meters : threads'[e][n] # None => e <= draws /\ Serves(threads[e][n])'
      BY <1>4 DEF Serves
<1>6. \A e \in Draws, n \in Meters : answers'[e][n] # None => e <= draws
      BY <1>2 DEF ServerInv, ServerFresh
<1>7. \A n \in Meters : cache'[n] # None => FreshEntry(cache[n])'
      BY DEF FreshEntry
<1>8. ServerFresh'  BY <1>5, <1>6, <1>7 DEF ServerFresh
<1> QED  BY <1>3, <1>8 DEF ServerInv

\* It may leave the answer as it is.
LEMMA SameAnswer ==
    ASSUME ServerInv, NEW d \in Draws, NEW m \in Meters
    PROVE  [answers EXCEPT ![d][m] = answers[d][m]] = answers /\ answers[d][m] \in File \cup {None, Failed}
BY DEF ServerInv, ServerType

\* An answer that is new is young enough.
LEMMA AnsweredBy ==
    ASSUME ServerInv, NEW d \in Draws, NEW m \in Meters, NEW answer \in File \cup {None, Failed},
           AnswerSet(d, m, answer),
           answer \in {answers[d][m], None, Failed} \/ answer.made >= clock - CacheTime - MaxQuery
    PROVE  Answered
BY AnswersBy DEF Answered

\* What is served from the cache was stored within the cache time, and had been made
\* within the time of a request before it was stored.
LEMMA CheckCacheServer ==
    ASSUME ServerInv, NEW d \in Draws, NEW m \in Meters, CheckCache(d, m) PROVE ServerInv' /\ Answered
<1>1. threads[d][m] # None /\ d <= draws /\ Serves(threads[d][m]) /\ threads[d][m] \in Thread
      BY DEF CheckCache, Serve, ServerInv, ServerFresh, ServerType
<1>2. UNCHANGED <<clock, database, cache, draws, failures>>  BY DEF CheckCache, Serve, page
<1>3. /\ failures' \in Nat /\ cache' \in [Meters -> Entry \cup {None}]
      /\ \A n \in Meters : cache'[n] # None => FreshEntry(cache'[n])
      BY <1>2 DEF ServerInv, ServerType, ServerFresh
<1>4. CASE Cached(m)
  <2>1. ThreadStep(d, m, None, cache[m].file)
        BY <1>4 DEF CheckCache, Hit, Answer, Ends, ThreadStep, ThreadSet, AnswerSet
  <2>2. cache[m] \in Entry /\ FreshEntry(cache[m]) /\ cache[m].timestamp >= clock - CacheTime
        BY <1>4 DEF Cached, ServerInv, ServerType, ServerFresh
  <2>3. /\ cache[m].file \in File /\ cache[m].file.made \in Int /\ cache[m].timestamp \in Int
        /\ clock \in Int /\ MaxQuery \in Int
        BY <2>2, HistoricalChartAssumption DEF Entry, File, Minutes, ServerInv, ServerType
  <2>4. cache[m].file.made >= clock - CacheTime - MaxQuery  BY <2>2, <2>3 DEF FreshEntry, CacheTime
  <2>5. Answered  BY <2>1, <2>3, <2>4, AnsweredBy DEF ThreadStep
  <2> QED  BY <1>1, <1>2, <1>3, <2>1, <2>3, <2>5, ThreadStepServer
<1>5. CASE ~ Cached(m)
  <2> DEFINE thread == [threads[d][m] EXCEPT !.pc = "query"]
  <2>1. threads' = [threads EXCEPT ![d][m] = thread] /\ answers' = answers
        BY <1>5 DEF CheckCache
  <2>2. thread \in Thread /\ Serves(thread)  BY <1>1 DEF Thread, Serves
  <2>3. ThreadStep(d, m, thread, answers[d][m])  BY <2>1, SameAnswer DEF ThreadStep, ThreadSet, AnswerSet
  <2>4. Answered  BY <2>1 DEF Answered
  <2> HIDE DEF thread
  <2> QED  BY <1>1, <1>2, <1>3, <2>2, <2>3, <2>4, SameAnswer, ThreadStepServer
<1> QED  BY <1>4, <1>5

\* What is queried is made now.
LEMMA QueryServer ==
    ASSUME ServerInv, NEW d \in Draws, NEW m \in Meters, Query(d, m) PROVE ServerInv' /\ Answered
<1>1. threads[d][m] # None /\ d <= draws /\ Serves(threads[d][m]) /\ threads[d][m] \in Thread
      BY DEF Query, Serve, ServerInv, ServerFresh, ServerType
<1>2. UNCHANGED <<clock, database, cache, draws>>  BY DEF Query, Serve, page
<1>3. /\ cache' \in [Meters -> Entry \cup {None}]
      /\ \A n \in Meters : cache'[n] # None => FreshEntry(cache'[n])
      BY <1>2 DEF ServerInv, ServerType, ServerFresh
<1>4. PICK minutes \in {Content(m), {}} :
        LET file == [minutes |-> minutes, made |-> clock]
        IN  /\ IF minutes = Content(m) THEN UNCHANGED failures ELSE Fails
            /\ Answer(d, m, file)
            /\ threads' = [threads EXCEPT ![d][m].pc = "store", ![d][m].file = file]
      BY DEF Query
<1> DEFINE file == [minutes |-> minutes, made |-> clock]
           thread == [threads[d][m] EXCEPT !.pc = "store", !.file = file]
<1>5. failures' \in Nat
      BY <1>4, HistoricalChartAssumption DEF Fails, ServerInv, ServerType
<1>6. file \in File
      BY DEF Content, File, ServerInv, ServerType
<1>7. clock \in Int /\ MaxQuery \in Nat /\ threads[d][m].since \in Int /\ threads[d][m].since <= clock
      BY <1>1, HistoricalChartAssumption DEF ServerInv, ServerType, Minutes, Serves, Thread
<1>8. thread \in Thread /\ Serves(thread)
      BY <1>1, <1>6, <1>7 DEF Thread, Serves
<1>9. ThreadStep(d, m, thread, file)
  <2>1. threads' = [threads EXCEPT ![d][m].pc = "store", ![d][m].file = file]  BY <1>4
  <2>2. threads' = [threads EXCEPT ![d][m] = thread]  BY <2>1 DEF ServerInv, ServerType
  <2> QED  BY <1>4, <2>2 DEF ThreadStep, ThreadSet, AnswerSet, Answer
<1>10. file.made >= clock - CacheTime - MaxQuery  BY <1>7 DEF CacheTime
<1> HIDE DEF file, thread
<1>11. Answered  BY <1>6, <1>9, <1>10, AnsweredBy DEF ThreadStep
<1> QED  BY <1>1, <1>2, <1>3, <1>5, <1>6, <1>8, <1>9, <1>11, ThreadStepServer

\* What is stored was made since its request began: not longer ago than it may take.
LEMMA StoreServer ==
    ASSUME ServerInv, NEW d \in Draws, NEW m \in Meters, Store(d, m) PROVE ServerInv' /\ Answered
<1>1. threads[d][m] # None /\ d <= draws /\ Serves(threads[d][m]) /\ threads[d][m] \in Thread
      BY DEF Store, Serve, ServerInv, ServerFresh, ServerType
<1>2. UNCHANGED <<clock, database, draws, failures, answers>>  BY DEF Store, Serve, page
<1> DEFINE entry == [timestamp |-> clock, file |-> threads[d][m].file]
<1>3. cache' = [cache EXCEPT ![m] = entry] /\ ThreadStep(d, m, None, answers[d][m])
      BY <1>2, SameAnswer DEF Store, Ends, ThreadStep, ThreadSet, AnswerSet
<1>4. entry \in Entry /\ FreshEntry(entry)
  <2>1. entry.file \in File /\ entry.file.made >= threads[d][m].since /\ clock - threads[d][m].since <= MaxQuery
        BY <1>1 DEF Store, Serve, Serves
  <2>2. entry.file.made \in Int /\ threads[d][m].since \in Int /\ clock \in Minutes /\ clock \in Int
        BY <1>1, <2>1 DEF File, Minutes, Thread, ServerInv, ServerType
  <2>3. entry.file.made >= clock - MaxQuery  BY <2>1, <2>2, HistoricalChartAssumption
  <2> QED  BY <2>1, <2>2, <2>3 DEF Entry, FreshEntry
<1> HIDE DEF entry
<1>5. /\ failures' \in Nat /\ cache' \in [Meters -> Entry \cup {None}]
      /\ \A n \in Meters : cache'[n] # None => FreshEntry(cache'[n])
      BY <1>2, <1>3, <1>4 DEF ServerInv, ServerType, ServerFresh
<1>6. Answered  BY <1>2 DEF Answered
<1> QED  BY <1>1, <1>2, <1>3, <1>5, <1>6, SameAnswer, ThreadStepServer

\* A request that fails answers with an error.
LEMMA FailServer ==
    ASSUME ServerInv, NEW d \in Draws, NEW m \in Meters, Fail(d, m) PROVE ServerInv' /\ Answered
<1>1. threads[d][m] # None /\ d <= draws
      BY DEF Fail, Serve, ServerInv, ServerFresh, ServerType
<1>2. UNCHANGED <<clock, database, draws, cache>> /\ ThreadStep(d, m, None, Failed)
      BY DEF Fail, Serve, page, Answer, Ends, ThreadStep, ThreadSet, AnswerSet
<1>3. /\ failures' \in Nat /\ cache' \in [Meters -> Entry \cup {None}]
      /\ \A n \in Meters : cache'[n] # None => FreshEntry(cache'[n])
      BY <1>2, HistoricalChartAssumption DEF Fail, Fails, ServerInv, ServerType, ServerFresh
<1>4. Answered  BY <1>2, AnsweredBy DEF ThreadStep
<1> QED  BY <1>1, <1>2, <1>3, <1>4, ThreadStepServer

\* The page takes an answer.
LEMMA LoadServer ==
    ASSUME ServerInv, NEW d \in Draws, NEW m \in Meters, Load(d, m) PROVE ServerInv' /\ Answered
<1>1. answers[d][m] # None /\ AnswerSet(d, m, None)  BY DEF Load, Answer, AnswerSet
<1>2. UNCHANGED <<clock, database, cache, threads, draws, failures>>  BY DEF Load, server
<1>3. Answered  BY <1>1, AnsweredBy
<1>4. /\ answers' \in [Draws -> [Meters -> File \cup {None, Failed}]]
      /\ \A e \in Draws, n \in Meters : answers'[e][n] = IF e = d /\ n = m THEN None ELSE answers[e][n]
      BY <1>1, AnswersBy
<1> QED  BY <1>2, <1>3, <1>4 DEF ServerInv, ServerType, ServerFresh, Serves, FreshEntry

\* The page asks for the files of another draw.
LEMMA DrawServer ==
    ASSUME ServerInv, DrawHistoricalChart PROVE ServerInv' /\ Answered
<1> DEFINE thread == [pc |-> "check", since |-> clock, file |-> None]
<1>1. UNCHANGED <<clock, database, cache, answers, failures>>  BY DEF DrawHistoricalChart
<1>2. draws' = draws + 1 /\ draws' \in 0..MaxDraws /\ draws \in Nat
      BY HistoricalChartAssumption DEF DrawHistoricalChart, ServerInv, ServerType
<1>3. thread \in Thread /\ Serves(thread)
      BY HistoricalChartAssumption DEF Thread, Serves, ServerInv, ServerType, Minutes
<1>4. threads' = [threads EXCEPT ![draws'] = [n \in Meters |-> thread]]  BY DEF DrawHistoricalChart
<1> HIDE DEF thread
<1>5. threads' \in [Draws -> [Meters -> Thread \cup {None}]]  BY <1>3, <1>4 DEF ServerInv, ServerType
<1>6. ASSUME NEW d \in Draws, NEW m \in Meters, threads'[d][m] # None
      PROVE  d <= draws' /\ Serves(threads'[d][m])
  <2>1. d \in Int  BY DEF Draws
  <2>2. CASE d = draws'
        BY <1>2, <1>3, <1>4, <2>1, <2>2 DEF ServerInv, ServerType
  <2>3. CASE d # draws'
    <3>1. threads'[d][m] = threads[d][m]  BY <1>4, <2>3 DEF ServerInv, ServerType
    <3>2. d <= draws /\ Serves(threads[d][m])  BY <1>6, <3>1 DEF ServerInv, ServerFresh
    <3> QED  BY <1>2, <2>1, <3>1, <3>2
  <2> QED  BY <2>2, <2>3
<1>7. \A d \in Draws, m \in Meters : answers'[d][m] # None => d <= draws'
      BY <1>1, <1>2 DEF ServerInv, ServerFresh, Draws
<1>8. Answered  BY <1>1 DEF Answered
<1>9. \A d \in Draws, m \in Meters : threads'[d][m] # None => d <= draws' /\ Serves(threads[d][m])'
      BY <1>1, <1>6 DEF Serves
<1> QED  BY <1>1, <1>2, <1>5, <1>7, <1>8, <1>9 DEF ServerInv, ServerType, ServerFresh, FreshEntry

---------------------------------------------------------------------------
(* The values of a file. *)

\* The greatest element of a set of numbers is its Max, the least its Min.
LEMMA GreatestIsMax ==
    ASSUME NEW S, S \subseteq Int, NEW x \in S, \A y \in S : y <= x PROVE Max(S) = x
<1>1. \A y \in S : x >= y  OBVIOUS
<1>2. Max(S) \in S /\ \A y \in S : Max(S) >= y  BY <1>1 DEF Max
<1>3. Max(S) \in Int /\ x \in Int /\ Max(S) >= x /\ x >= Max(S)  BY <1>2
<1> QED  BY <1>3

LEMMA LeastIsMin ==
    ASSUME NEW S, S \subseteq Int, NEW x \in S, \A y \in S : x <= y PROVE Min(S) = x
<1>1. Min(S) \in S /\ \A y \in S : Min(S) <= y  BY DEF Min
<1>2. Min(S) \in Int /\ x \in Int /\ Min(S) <= x /\ x <= Min(S)  BY <1>1
<1> QED  BY <1>2

\* The position of the last known value.
LEMMA MaxWithOne ==
    ASSUME NEW k \in Int PROVE Max({1, k}) = IF k >= 1 THEN k ELSE 1
<1>1. {1, k} \subseteq Int  OBVIOUS
<1>2. CASE k >= 1  BY <1>1, <1>2, GreatestIsMax
<1>3. CASE ~ (k >= 1)  BY <1>1, <1>3, GreatestIsMax
<1> QED  BY <1>2, <1>3

\* The minutes of a file, in order.
LEMMA SortedFile ==
    ASSUME NEW S \in SUBSET Minutes
    PROVE  /\ IsFiniteSet(S) /\ S \subseteq Int /\ Cardinality(S) \in Nat
           /\ Sorted(S) \in Seq(Minutes) /\ Sorted(S) \in [1..Cardinality(S) -> S]
           /\ Len(Sorted(S)) = Cardinality(S)
           /\ Sorted(S) = <<>> <=> S = {}
           /\ S # {} <=> Cardinality(S) >= 1
           /\ \A k \in 1..Cardinality(S) : Sorted(S)[k] \in Int
           /\ \A k, l \in 1..Cardinality(S) : k < l => Sorted(S)[k] < Sorted(S)[l]
           /\ \A x \in S : \E k \in 1..Cardinality(S) : Sorted(S)[k] = x
<1>1. Minutes \subseteq Int  BY DEF Minutes
<1>2. S \subseteq Int  BY <1>1
<1>3. IsFiniteSet(S)
  <2>1. IsFiniteSet(Minutes)  BY HistoricalChartAssumption, FS_Interval DEF Minutes
  <2> QED  BY <2>1, FS_Subset
<1> DEFINE s == Sorted(S)
           n == Cardinality(S)
<1>4. /\ n \in Nat /\ s \in [1..n -> S]
      /\ \A k, l \in 1..n : k < l => s[k] < s[l]
      /\ \A x \in S : \E k \in 1..n : s[k] = x
      BY <1>2, <1>3, AscendingEnumerates DEF Sorted
<1> HIDE DEF s, n
<1>5. s \in Seq(S) /\ Len(s) = n  BY <1>4, LenProperties, SeqDef
<1>6. s \in Seq(Minutes)  BY <1>4, SeqDef
<1>7. S # {} <=> n >= 1  BY <1>4
<1>8. s = <<>> <=> n = 0  BY <1>4, <1>5, EmptySeq
<1>9. \A k \in 1..n : s[k] \in Int  BY <1>2, <1>4
<1> QED  BY <1>2, <1>3, <1>4, <1>5, <1>6, <1>7, <1>8, <1>9 DEF s, n

\* What belongs to a minute between two neighbours of a file, or at one of them.
LEMMA BelongsAt ==
    ASSUME NEW S \in SUBSET Minutes, NEW k \in 1..Cardinality(S), NEW t \in Int, Sorted(S)[k] <= t,
           k < Cardinality(S) => t < Sorted(S)[k + 1]
    PROVE  Belongs(t, S) = Sorted(S)[k]
<1> DEFINE s == Sorted(S)
           n == Cardinality(S)
           T == {u \in S : u <= t}
<1>1. /\ n \in Nat /\ S \subseteq Int /\ s \in [1..n -> S] /\ \A l \in 1..n : s[l] \in Int
      /\ \A l, o \in 1..n : l < o => s[l] < s[o]
      /\ \A x \in S : \E l \in 1..n : s[l] = x
      BY SortedFile
<1> HIDE DEF s, n
<1>0. k \in 1..n /\ s[k] <= t /\ (k < n => t < s[k + 1])  BY DEF s, n
<1>2. s[k] \in T /\ T \subseteq Int  BY <1>0, <1>1
<1>3. ASSUME NEW u \in T PROVE u <= s[k]
  <2>1. PICK l \in 1..n : s[l] = u  BY <1>1
  <2>2. CASE l <= k
    <3>1. l = k \/ l < k  BY <1>0, <1>1, <2>2
    <3> QED  BY <1>0, <1>1, <2>1, <3>1
  <2>3. CASE l > k
    <3>1. k + 1 \in 1..n /\ (l = k + 1 \/ k + 1 < l) /\ k < n  BY <1>0, <1>1, <2>3
    <3> DEFINE o == k + 1
    <3>a. o \in 1..n /\ s[o] \in Int /\ (l = o \/ o < l)  BY <1>1, <3>1
    <3> HIDE DEF o
    <3>b. o < l => s[o] < s[l]  BY <1>1, <3>a
    <3>c. s[o] <= s[l]  BY <1>1, <3>a, <3>b
    <3>2. s[k + 1] <= s[l]  BY <3>c DEF o
    <3>3. u <= t /\ u \in Int  BY <1>2
    <3>4. s[k + 1] \in Int /\ t < s[k + 1]  BY <1>0, <1>1, <3>1
    <3> QED  BY <2>1, <3>2, <3>3, <3>4
  <2> QED  BY <1>0, <1>1, <2>2, <2>3
<1>4. T # {} /\ Max(T) = s[k]  BY <1>2, <1>3, GreatestIsMax
<1> QED  BY <1>4 DEF Belongs, s

\* What belongs to a minute before the first of a file.
LEMMA BelongsBefore ==
    ASSUME NEW S \in SUBSET Minutes, S # {}, NEW t \in Int, t < Sorted(S)[1]
    PROVE  Belongs(t, S) = Sorted(S)[1]
<1> DEFINE s == Sorted(S)
           n == Cardinality(S)
<1>1. /\ n \in Nat /\ n >= 1 /\ S \subseteq Int /\ s \in [1..n -> S] /\ \A l \in 1..n : s[l] \in Int
      /\ \A l, o \in 1..n : l < o => s[l] < s[o]
      /\ \A x \in S : \E l \in 1..n : s[l] = x
      BY SortedFile
<1> HIDE DEF s, n
<1>0. t < s[1]  BY DEF s
<1>2. ASSUME NEW x \in S PROVE s[1] <= x /\ x \in Int
  <2>1. PICK l \in 1..n : s[l] = x  BY <1>1
  <2>2. 1 \in 1..n /\ (l = 1 \/ 1 < l)  BY <1>1
  <2> QED  BY <1>1, <2>1, <2>2
<1>3. 1 \in 1..n /\ s[1] \in S  BY <1>1
<1>4. {u \in S : u <= t} = {}
  <2> SUFFICES ASSUME NEW u \in S, u <= t PROVE FALSE  OBVIOUS
  <2>1. s[1] <= u /\ u \in Int /\ s[1] \in Int  BY <1>1, <1>2, <1>3
  <2> QED  BY <1>0, <2>1
<1>5. Min(S) = s[1]  BY <1>1, <1>2, <1>3, LeastIsMin
<1> QED  BY <1>4, <1>5 DEF Belongs, s

\* All production meters, each once.
LEMMA AllProductions ==
    /\ SetToSeq(Productions) \in Seq(Productions)
    /\ \A k, l \in DOMAIN SetToSeq(Productions) : SetToSeq(Productions)[k] = SetToSeq(Productions)[l] => k = l
    /\ \A p \in Productions : \E k \in DOMAIN SetToSeq(Productions) : SetToSeq(Productions)[k] = p
<1> DEFINE n == Cardinality(Productions)
           s == SetToSeq(Productions)
<1>1. /\ n \in Nat /\ s \in [1..n -> Productions]
      /\ \A k, l \in 1..n : s[k] = s[l] => k = l
      /\ \A p \in Productions : \E k \in 1..n : s[k] = p
      BY HistoricalChartAssumption, SetToSeqEnumerates
<1> HIDE DEF n, s
<1>2. s \in Seq(Productions) /\ DOMAIN s = 1..n  BY <1>1, SeqDef
<1> QED  BY <1>1, <1>2 DEF s

---------------------------------------------------------------------------
(* The merge. *)

\* What the loop takes off the first n minutes of a consumption.
Due(consumed, produced, n) == [k \in 1..n |-> Belongs(Sorted(consumed)[k], produced)]

\* The fields of a merge.
MergeRecord ==
    [draw : Draws, i : Nat \ {0}, j : Nat \ {0}, todo : Seq(Productions), taken : [Productions -> Seq(Minutes)]]

\* What a merge r of the files v has done: each production meter is there at most once;
\* those that are not there any more are taken off; nothing is yet of those that wait.
Once(r) == \A k, l \in DOMAIN r.todo : r.todo[k] = r.todo[l] => k = l
Completed(r, v) ==
    meterConfiguration = 1 =>
        \A p \in Productions : v[p] # {} /\ (\A k \in DOMAIN r.todo : r.todo[k] # p) =>
            r.taken[p] = Due(v[Consumption], v[p], Cardinality(v[Consumption]))
Untouched(r) == \A k \in DOMAIN r.todo : k # 1 => r.taken[r.todo[k]] = <<>>

\* The first one is taken off up to the position i, and the value before the position j
\* is of an earlier minute.
Position(consumed, produced, i, j, taken) ==
    /\ i \in 1..(Cardinality(consumed) + 1)
    /\ taken = Due(consumed, produced, i - 1)
    /\ j \in 1..Cardinality(produced)
    /\ j > 1 /\ i <= Cardinality(consumed) => Sorted(produced)[j - 1] < Sorted(consumed)[i]
UnderWay(r, v) ==
    IF r.todo = <<>> THEN r.i = 1
    ELSE IF v[r.todo[1]] = {} THEN r.i = 1 /\ r.j = 1
    ELSE Position(v[Consumption], v[r.todo[1]], r.i, r.j, r.taken[r.todo[1]])

\* A merge under way, of files that are all loaded.
Merging(r, v) ==
    /\ r \in MergeRecord /\ v \in [Meters -> SUBSET Minutes]
    /\ Once(r) /\ Completed(r, v) /\ Untouched(r) /\ UnderWay(r, v)

\* The files loaded, and the merge.
MergeInv ==
    /\ timeSeries \in [Draws -> [Meters -> (SUBSET Minutes) \cup {None}]]
    /\ drawn \subseteq 1..draws
    /\ merge # None => merge.draw <= draws /\ Merging(merge, timeSeries[merge.draw])

\* The meters of the page.
LEMMA MeterFacts == Consumption \in Meters /\ Productions \subseteq Meters
BY DEF Meters

\* No minute, nothing taken off; one more, what belongs to it.
LEMMA DueNothing == ASSUME NEW c, NEW p PROVE Due(c, p, 0) = <<>>
BY DEF Due

LEMMA DueNext ==
    ASSUME NEW c \in SUBSET Minutes, NEW p \in SUBSET Minutes, p # {},
           NEW i \in 1..Cardinality(c), Due(c, p, i - 1) \in Seq(Minutes),
           NEW t \in Minutes, t = Belongs(Sorted(c)[i], p)
    PROVE  Due(c, p, i - 1) \o <<t>> = Due(c, p, i) /\ Due(c, p, i) \in Seq(Minutes)
<1> DEFINE s == Due(c, p, i - 1)
           b(k) == Belongs(Sorted(c)[k], p)
<1>1. Cardinality(c) \in Nat /\ i \in Nat /\ i >= 1  BY SortedFile
<1>2. s = [k \in 1..(i - 1) |-> b(k)]  BY DEF Due
<1>3. Due(c, p, i) = [k \in 1..i |-> b(k)]  BY DEF Due
<1>4. s \in Seq(Minutes)  OBVIOUS
<1>5. t = b(i)  OBVIOUS
<1> HIDE DEF s, b
<1>6. Len(s) = i - 1 /\ \A k \in 1..(i - 1) : s[k] = b(k)  BY <1>1, <1>2, <1>4
<1>7. <<t>> \in Seq(Minutes) /\ Len(<<t>>) = 1 /\ <<t>>[1] = t  OBVIOUS
<1>8. /\ s \o <<t>> \in Seq(Minutes) /\ Len(s \o <<t>>) = i
      /\ \A k \in 1..i : (s \o <<t>>)[k] = IF k <= i - 1 THEN s[k] ELSE <<t>>[k - (i - 1)]
  <2>1. /\ s \o <<t>> \in Seq(Minutes) /\ Len(s \o <<t>>) = Len(s) + Len(<<t>>)
        /\ \A k \in 1..(Len(s) + Len(<<t>>)) :
              (s \o <<t>>)[k] = IF k <= Len(s) THEN s[k] ELSE <<t>>[k - Len(s)]
        BY <1>4, <1>7, ConcatProperties, Zenon
  <2>2. Len(s) + Len(<<t>>) = i  BY <1>1, <1>6, <1>7
  <2> QED  BY <1>6, <2>1, <2>2
<1>9. \A k \in 1..i : (s \o <<t>>)[k] = b(k)
  <2> TAKE k \in 1..i
  <2>1. CASE k <= i - 1  BY <1>1, <1>6, <1>8, <2>1
  <2>2. CASE k = i
    <3>1. (s \o <<t>>)[k] = <<t>>[k - (i - 1)]  BY <1>1, <1>8, <2>2
    <3>2. k - (i - 1) = 1  BY <1>1, <2>2
    <3> QED  BY <1>5, <1>7, <2>2, <3>1, <3>2
  <2>3. k <= i - 1 \/ k = i  BY <1>1
  <2> QED  BY <2>1, <2>2, <2>3
<1>10. s \o <<t>> = [k \in 1..i |-> b(k)]
  <2>1. s \o <<t>> = [k \in 1..i |-> (s \o <<t>>)[k]]  BY <1>1, <1>8
  <2> QED  BY <1>9, <2>1
<1>11. s \o <<t>> = Due(c, p, i)  BY <1>3, <1>10
<1> QED  BY <1>8, <1>11 DEF s

\* One round keeps the position.
LEMMA RoundKeepsPosition ==
    ASSUME NEW c \in SUBSET Minutes, NEW p \in SUBSET Minutes, NEW i, NEW j, NEW taken \in Seq(Minutes),
           Position(c, p, i, j, taken), i <= Cardinality(c)
    PROVE  LET s == Sorted(c)
               q == Sorted(p)
               n == Cardinality(p)
           IN  /\ s[i] = q[j] => Position(c, p, i + 1, Within(j + 1, n), taken \o <<q[j]>>)
               /\ s[i] > q[j] => Position(c, p, i, Within(j + 1, n), taken \o <<>>)
               /\ s[i] < q[j] => Position(c, p, i + 1, Within(j, n), taken \o <<q[LastKnown(j)]>>)
<1> DEFINE s == Sorted(c)
           q == Sorted(p)
           n == Cardinality(p)
           o == Cardinality(c)
<1>1. /\ o \in Nat /\ \A k \in 1..o : s[k] \in Int
      /\ \A k, l \in 1..o : k < l => s[k] < s[l]
      BY SortedFile
<1>2. /\ n \in Nat /\ (p # {} <=> n >= 1)
      /\ \A k \in 1..n : q[k] \in Int /\ q[k] \in Minutes
      /\ \A k, l \in 1..n : k < l => q[k] < q[l]
      BY SortedFile
<1>3. /\ i \in 1..(o + 1) /\ i <= o /\ taken = Due(c, p, i - 1) /\ j \in 1..n
      /\ j > 1 => q[j - 1] < s[i]
      BY DEF Position
<1>b. /\ \A k \in 1..n : q[k] <= s[i] /\ (k < n => s[i] < q[k + 1]) => Belongs(s[i], p) = q[k]
      /\ s[i] < q[1] /\ p # {} => Belongs(s[i], p) = q[1]
  <2>1. s[i] \in Int  BY <1>1, <1>3
  <2> QED  BY <2>1, BelongsAt, BelongsBefore
<1>p. ASSUME NEW a, NEW b, NEW t
      PROVE  Position(c, p, a, b, t) <=>
                /\ a \in 1..(o + 1) /\ t = Due(c, p, a - 1) /\ b \in 1..n
                /\ b > 1 /\ a <= o => q[b - 1] < s[a]
      BY DEF Position
<1>d. ASSUME NEW t \in Minutes, t = Belongs(s[i], p) PROVE taken \o <<t>> = Due(c, p, i)
  <2>1. i \in 1..o /\ p # {}  BY <1>1, <1>2, <1>3
  <2> QED  BY <1>3, <1>d, <2>1, DueNext
<1>e. taken \o <<>> = taken  OBVIOUS
<1> HIDE DEF s, q, n, o
<1>4. i \in Nat /\ j \in Nat /\ j >= 1 /\ i >= 1 /\ p # {} /\ i \in 1..o  BY <1>1, <1>2, <1>3
<1>5. ASSUME s[i] = q[j] PROVE Position(c, p, i + 1, Within(j + 1, n), taken \o <<q[j]>>)
  <2>1. q[j] = Belongs(s[i], p)
    <3>1. j < n => j + 1 \in 1..n /\ q[j] < q[j + 1]  BY <1>2, <1>3, <1>4
    <3>2. q[j] <= s[i]  BY <1>2, <1>3, <1>5
    <3> QED  BY <1>3, <1>5, <1>b, <3>1, <3>2
  <2>2. taken \o <<q[j]>> = Due(c, p, i)  BY <1>2, <1>3, <1>d, <2>1
  <2>3. i + 1 \in 1..(o + 1) /\ (i + 1) - 1 = i  BY <1>1, <1>4
  <2>4. CASE j < n
    <3>1. Within(j + 1, n) = j + 1 /\ j + 1 \in 1..n /\ (j + 1) - 1 = j  BY <1>2, <1>4, <2>4 DEF Within
    <3>2. i + 1 <= o => q[j] < s[i + 1]
      <4>1. i + 1 <= o => i + 1 \in 1..o /\ s[i] < s[i + 1]  BY <1>1, <1>4
      <4> QED  BY <1>5, <4>1
    <3>3. Position(c, p, i + 1, j + 1, taken \o <<q[j]>>)  BY <1>p, <2>2, <2>3, <3>1, <3>2
    <3> QED  BY <3>1, <3>3
  <2>5. CASE j = n
    <3>1. Within(j + 1, n) = j  BY <1>2, <1>4, <2>5 DEF Within
    <3>2. j > 1 /\ i + 1 <= o => q[j - 1] < s[i + 1]
      <4>1. i + 1 <= o => i + 1 \in 1..o /\ s[i] < s[i + 1] /\ s[i + 1] \in Int /\ s[i] \in Int  BY <1>1, <1>4
      <4>2. j > 1 => q[j - 1] < s[i] /\ j - 1 \in 1..n /\ q[j - 1] \in Int  BY <1>2, <1>3, <1>4
      <4> QED  BY <4>1, <4>2
    <3> QED  BY <1>p, <1>3, <2>2, <2>3, <3>1, <3>2
  <2> QED  BY <1>2, <1>3, <1>4, <2>4, <2>5
<1>6. ASSUME s[i] > q[j] PROVE Position(c, p, i, Within(j + 1, n), taken \o <<>>)
  <2>4. CASE j < n
    <3>1. Within(j + 1, n) = j + 1 /\ j + 1 \in 1..n /\ (j + 1) - 1 = j  BY <1>2, <1>4, <2>4 DEF Within
    <3>2. q[j] < s[i]  BY <1>1, <1>2, <1>3, <1>4, <1>6
    <3> QED  BY <1>p, <1>e, <1>3, <3>1, <3>2
  <2>5. CASE j = n
    <3>1. Within(j + 1, n) = j  BY <1>2, <1>4, <2>5 DEF Within
    <3> QED  BY <1>e, <3>1
  <2> QED  BY <1>2, <1>3, <1>4, <2>4, <2>5
<1>7. ASSUME s[i] < q[j] PROVE Position(c, p, i + 1, Within(j, n), taken \o <<q[LastKnown(j)]>>)
  <2>1. Within(j, n) = j  BY <1>2, <1>3, <1>4 DEF Within
  <2>2. LastKnown(j) = IF j > 1 THEN j - 1 ELSE 1
    <3>1. j - 1 \in Int  BY <1>4
    <3>2. LastKnown(j) = IF j - 1 >= 1 THEN j - 1 ELSE 1  BY <3>1, MaxWithOne DEF LastKnown
    <3> QED  BY <1>4, <3>2
  <2>3. LastKnown(j) \in 1..n  BY <1>2, <1>3, <1>4, <2>2
  <2>4. q[LastKnown(j)] = Belongs(s[i], p)
    <3>1. CASE j > 1
      <4>1. LastKnown(j) = j - 1 /\ j - 1 \in 1..n /\ (j - 1) + 1 = j  BY <1>2, <1>3, <1>4, <2>2, <3>1
      <4>2. q[j - 1] <= s[i]  BY <1>1, <1>2, <1>3, <1>4, <3>1, <4>1
      <4> QED  BY <1>7, <1>b, <4>1, <4>2
    <3>2. CASE j = 1  BY <1>4, <1>7, <1>b, <2>2, <3>2
    <3> QED  BY <1>4, <3>1, <3>2
  <2>5. taken \o <<q[LastKnown(j)]>> = Due(c, p, i)  BY <1>2, <1>d, <2>3, <2>4
  <2>6. i + 1 \in 1..(o + 1) /\ (i + 1) - 1 = i  BY <1>1, <1>4
  <2>7. j > 1 /\ i + 1 <= o => q[j - 1] < s[i + 1]
    <3>1. i + 1 <= o => i + 1 \in 1..o /\ s[i] < s[i + 1] /\ s[i + 1] \in Int /\ s[i] \in Int  BY <1>1, <1>4
    <3>2. j > 1 => q[j - 1] < s[i] /\ j - 1 \in 1..n /\ q[j - 1] \in Int  BY <1>2, <1>3, <1>4
    <3> QED  BY <3>1, <3>2
  <2> QED  BY <1>3, <1>p, <2>1, <2>5, <2>6, <2>7
<1> QED  BY <1>5, <1>6, <1>7 DEF s, q, n

---------------------------------------------------------------------------
(* The records of a merge. *)

\* The fields of a merge.
LEMMA RecordFacts ==
    ASSUME NEW r \in MergeRecord
    PROVE  /\ r.draw \in Draws /\ r.i \in Nat \ {0} /\ r.j \in Nat \ {0}
           /\ r.todo \in Seq(Productions) /\ r.taken \in [Productions -> Seq(Minutes)]
           /\ DOMAIN r.todo = 1..Len(r.todo) /\ Len(r.todo) \in Nat
BY DEF MergeRecord

\* A record with other values of some of its fields.
LEMMA PutFields ==
    ASSUME NEW D, NEW N, NEW S, NEW K, NEW r \in [draw : D, i : N, j : N, todo : S, taken : K],
           NEW todo \in S, NEW i \in N, NEW j \in N
    PROVE  LET n == [r EXCEPT !.todo = todo, !.i = i, !.j = j]
           IN  /\ n \in [draw : D, i : N, j : N, todo : S, taken : K]
               /\ n.draw = r.draw /\ n.todo = todo /\ n.taken = r.taken /\ n.i = i /\ n.j = j
OBVIOUS

\* The record of a merge at the next production meter todo begins with, and after a round.
NextRecord(n, r, todo) == n = [r EXCEPT !.todo = todo, !.i = 1, !.j = 1]
RoundRecord(n, r, i, j, p, taken) == n = [r EXCEPT !.i = i, !.j = j, !.taken[p] = taken]

\* It is a merge with these fields.
LEMMA PutTodo ==
    ASSUME NEW r \in MergeRecord, NEW todo \in Seq(Productions),
           NEW n, NextRecord(n, r, todo)
    PROVE  /\ n \in MergeRecord
           /\ n.draw = r.draw /\ n.todo = todo /\ n.taken = r.taken /\ n.i = 1 /\ n.j = 1
<1> DEFINE S == Seq(Productions)
           N == Nat \ {0}
           K == [Productions -> Seq(Minutes)]
<1>1. MergeRecord = [draw : Draws, i : N, j : N, todo : S, taken : K]  BY DEF MergeRecord
<1>2. 1 \in N /\ todo \in S  OBVIOUS
<1> HIDE DEF S, N, K
<1> QED  BY <1>1, <1>2, PutFields, Zenon DEF NextRecord

\* So is this.
LEMMA PutTaken ==
    ASSUME NEW r \in MergeRecord, NEW i \in Nat \ {0}, NEW j \in Nat \ {0},
           NEW p \in Productions, NEW taken \in Seq(Minutes),
           NEW n, RoundRecord(n, r, i, j, p, taken)
    PROVE  /\ n \in MergeRecord
           /\ n.draw = r.draw /\ n.todo = r.todo /\ n.i = i /\ n.j = j
           /\ n.taken[p] = taken /\ \A q \in Productions : q # p => n.taken[q] = r.taken[q]
BY DEF MergeRecord, RoundRecord

\* A merge begins with nothing taken off.
LEMMA MergeBegins ==
    ASSUME NEW d \in Draws, NEW v \in [Meters -> SUBSET Minutes], NEW todo \in Seq(Productions),
           \A k, l \in DOMAIN todo : todo[k] = todo[l] => k = l,
           meterConfiguration = 1 => \A p \in Productions : \E k \in DOMAIN todo : todo[k] = p
    PROVE  Merging([draw |-> d, i |-> 1, j |-> 1, todo |-> todo, taken |-> [p \in Productions |-> <<>>]], v)
<1> DEFINE r == [draw |-> d, i |-> 1, j |-> 1, todo |-> todo, taken |-> [p \in Productions |-> <<>>]]
<1>1. r \in MergeRecord  BY DEF MergeRecord
<1>2. r.todo = todo /\ r.i = 1 /\ r.j = 1 /\ \A p \in Productions : r.taken[p] = <<>>  OBVIOUS
<1> HIDE DEF r
<1>3. \A k \in DOMAIN todo : todo[k] \in Productions  OBVIOUS
<1>4. Once(r) /\ Untouched(r)  BY <1>2, <1>3 DEF Once, Untouched
<1>5. Completed(r, v)  BY <1>2 DEF Completed
<1>6. UnderWay(r, v)
  <2>1. CASE todo = <<>>  BY <1>2, <2>1 DEF UnderWay
  <2>2. CASE todo # <<>>
    <3> DEFINE p == todo[1]
    <3>1. p \in Productions  BY <2>2
    <3> HIDE DEF p
    <3>2. v[p] \in SUBSET Minutes /\ v[Consumption] \in SUBSET Minutes /\ r.taken[p] = <<>>
          BY <1>2, <3>1, MeterFacts
    <3>3. CASE v[p] = {}  BY <1>2, <2>2, <3>3 DEF UnderWay, p
    <3>4. CASE v[p] # {}
      <4>1. Cardinality(v[p]) \in Nat /\ Cardinality(v[p]) >= 1 /\ Cardinality(v[Consumption]) \in Nat
            BY <3>2, <3>4, SortedFile
      <4>2. Position(v[Consumption], v[p], 1, 1, <<>>)  BY <4>1, DueNothing DEF Position
      <4> QED  BY <1>2, <2>2, <3>2, <3>4, <4>2 DEF UnderWay, p
    <3> QED  BY <3>3, <3>4
  <2> QED  BY <2>1, <2>2
<1> QED  BY <1>1, <1>4, <1>5, <1>6 DEF Merging, r

\* The next production meter: the one before is taken off, or has nothing to be taken off.
LEMMA NextProductionKeeps ==
    ASSUME NEW r, NEW v, Merging(r, v), r.todo # <<>>,
           v[r.todo[1]] = {} \/ r.i > Cardinality(v[Consumption]),
           NEW n, NextRecord(n, r, Tail(r.todo))
    PROVE  n.draw = r.draw /\ Merging(n, v)
<1> DEFINE p == r.todo[1]
<1>0. /\ r \in MergeRecord /\ v \in [Meters -> SUBSET Minutes]
      /\ Once(r) /\ Completed(r, v) /\ Untouched(r) /\ UnderWay(r, v)
      BY DEF Merging
<1>1. /\ r.todo \in Seq(Productions) /\ r.taken \in [Productions -> Seq(Minutes)]
      /\ DOMAIN r.todo = 1..Len(r.todo) /\ Len(r.todo) \in Nat
      BY <1>0, RecordFacts
<1>2. /\ Tail(r.todo) \in Seq(Productions) /\ Len(Tail(r.todo)) = Len(r.todo) - 1
      /\ \A k \in 1..Len(Tail(r.todo)) : Tail(r.todo)[k] = r.todo[k + 1]
      /\ DOMAIN Tail(r.todo) = 1..Len(Tail(r.todo)) /\ Len(r.todo) >= 1
      BY <1>1, HeadTailProperties, EmptySeq
<1>3. n \in MergeRecord /\ n.draw = r.draw /\ n.todo = Tail(r.todo) /\ n.taken = r.taken /\ n.i = 1 /\ n.j = 1
  <2> DEFINE todo == Tail(r.todo)
  <2>1. todo \in Seq(Productions) /\ NextRecord(n, r, todo)  BY <1>2
  <2> HIDE DEF todo
  <2>2. n \in MergeRecord /\ n.draw = r.draw /\ n.todo = todo /\ n.taken = r.taken /\ n.i = 1 /\ n.j = 1
        BY <1>0, <2>1, PutTodo
  <2> QED  BY <2>2 DEF todo
<1>4. n.todo = Tail(r.todo) /\ n.taken = r.taken /\ n.i = 1 /\ n.j = 1  BY <1>3
<1>5. Once(n)
  <2> SUFFICES ASSUME NEW k \in DOMAIN n.todo, NEW l \in DOMAIN n.todo, n.todo[k] = n.todo[l] PROVE k = l
      BY DEF Once
  <2>1. k \in 1..(Len(r.todo) - 1) /\ l \in 1..(Len(r.todo) - 1)  BY <1>2, <1>4
  <2> DEFINE len == Len(r.todo)
  <2>a. len \in Nat /\ k \in 1..(len - 1) /\ l \in 1..(len - 1)  BY <1>1, <2>1
  <2> HIDE DEF len
  <2>b. k + 1 \in 1..len /\ l + 1 \in 1..len  BY <2>a
  <2>2. k + 1 \in 1..Len(r.todo) /\ l + 1 \in 1..Len(r.todo)  BY <2>b DEF len
  <2>3. r.todo[k + 1] = r.todo[l + 1]  BY <1>2, <1>4, <2>1
  <2>4. k + 1 = l + 1
    <3>1. \A a, b \in 1..Len(r.todo) : r.todo[a] = r.todo[b] => a = b  BY <1>0, <1>1 DEF Once
    <3> QED  BY <2>2, <2>3, <3>1
  <2> QED  BY <2>1, <2>4
<1>6. Untouched(n)
  <2> SUFFICES ASSUME NEW k \in DOMAIN n.todo PROVE n.taken[n.todo[k]] = <<>>  BY DEF Untouched
  <2>1. k \in 1..(Len(r.todo) - 1)  BY <1>2, <1>4
  <2>2. k + 1 \in 1..Len(r.todo) /\ k + 1 # 1 /\ n.todo[k] = r.todo[k + 1]  BY <1>1, <1>2, <1>4, <2>1
  <2> QED  BY <1>0, <1>1, <1>4, <2>2 DEF Untouched
<1>7. ASSUME meterConfiguration = 1, NEW q \in Productions, v[q] # {}, \A k \in DOMAIN n.todo : n.todo[k] # q
      PROVE  n.taken[q] = Due(v[Consumption], v[q], Cardinality(v[Consumption]))
  <2>1. CASE q = p
    <3>1. Position(v[Consumption], v[q], r.i, r.j, r.taken[q]) /\ r.i > Cardinality(v[Consumption])
          BY <1>0, <1>7, <2>1 DEF UnderWay
    <3>2. v[Consumption] \in SUBSET Minutes  BY <1>0, MeterFacts
    <3>3. Cardinality(v[Consumption]) \in Nat  BY <3>2, SortedFile
    <3>4. r.i - 1 = Cardinality(v[Consumption])  BY <3>1, <3>3 DEF Position
    <3>5. r.taken[q] = Due(v[Consumption], v[q], r.i - 1)  BY <3>1 DEF Position
    <3> QED  BY <1>4, <3>4, <3>5
  <2>2. CASE q # p
    <3>1. ASSUME NEW k \in DOMAIN r.todo PROVE r.todo[k] # q
      <4>1. CASE k = 1  BY <2>2, <4>1
      <4>2. CASE k # 1
        <5>1. k - 1 \in 1..(Len(r.todo) - 1) /\ (k - 1) + 1 = k  BY <1>1, <4>2
        <5> QED  BY <1>2, <1>4, <1>7, <5>1
      <4> QED  BY <4>1, <4>2
    <3> QED  BY <1>0, <1>4, <1>7, <3>1 DEF Completed
  <2> QED  BY <2>1, <2>2
<1>8. Completed(n, v)  BY <1>7 DEF Completed
<1>9. UnderWay(n, v)
  <2>1. CASE n.todo = <<>>  BY <1>4, <2>1 DEF UnderWay
  <2>2. CASE n.todo # <<>>
    <3> DEFINE q == n.todo[1]
    <3>1. 1 \in DOMAIN n.todo /\ 2 \in DOMAIN r.todo /\ q = r.todo[2] /\ q \in Productions
      <4>1. Len(n.todo) >= 1  BY <1>2, <1>4, <2>2, EmptySeq
      <4>2. 1 \in 1..(Len(r.todo) - 1) /\ 2 \in 1..Len(r.todo) /\ 1 + 1 = 2  BY <1>1, <1>2, <1>4, <4>1
      <4>3. q = r.todo[1 + 1]  BY <1>2, <1>4, <4>2
      <4> QED  BY <1>1, <1>2, <1>4, <4>2, <4>3
    <3>2. n.taken[q] = <<>>  BY <1>0, <1>4, <3>1 DEF Untouched
    <3> HIDE DEF q
    <3>3. v[q] \in SUBSET Minutes /\ v[Consumption] \in SUBSET Minutes  BY <1>0, <3>1, MeterFacts
    <3>4. CASE v[q] = {}  BY <1>4, <2>2, <3>4 DEF UnderWay, q
    <3>5. CASE v[q] # {}
      <4>1. Cardinality(v[q]) \in Nat /\ Cardinality(v[q]) >= 1 /\ Cardinality(v[Consumption]) \in Nat
            BY <3>3, <3>5, SortedFile
      <4>2. Position(v[Consumption], v[q], 1, 1, <<>>)  BY <4>1, DueNothing DEF Position
      <4> QED  BY <1>4, <2>2, <3>2, <3>5, <4>2 DEF UnderWay, q
    <3> QED  BY <3>4, <3>5
  <2> QED  BY <2>1, <2>2
<1> QED  BY <1>0, <1>3, <1>5, <1>6, <1>8, <1>9 DEF Merging

\* A round that takes off what belongs to a minute, or looks at the next value.
LEMMA RoundKeeps ==
    ASSUME NEW r, NEW v, Merging(r, v), r.todo # <<>>, v[r.todo[1]] # {},
           NEW i \in Nat \ {0}, NEW j \in Nat \ {0}, NEW taken \in Seq(Minutes),
           Position(v[Consumption], v[r.todo[1]], i, j, taken),
           NEW n, RoundRecord(n, r, i, j, r.todo[1], taken)
    PROVE  n.draw = r.draw /\ Merging(n, v)
<1> DEFINE p == r.todo[1]
<1>0. /\ r \in MergeRecord /\ v \in [Meters -> SUBSET Minutes]
      /\ Once(r) /\ Completed(r, v) /\ Untouched(r) /\ UnderWay(r, v)
      BY DEF Merging
<1>1. /\ r.todo \in Seq(Productions) /\ r.taken \in [Productions -> Seq(Minutes)]
      /\ DOMAIN r.todo = 1..Len(r.todo) /\ Len(r.todo) \in Nat
      BY <1>0, RecordFacts
<1>2. p \in Productions /\ 1 \in DOMAIN r.todo  BY <1>1, EmptySeq
<1>3. RoundRecord(n, r, i, j, p, taken)  OBVIOUS
<1> HIDE DEF p
<1>4. /\ n \in MergeRecord /\ n.draw = r.draw /\ n.todo = r.todo /\ n.i = i /\ n.j = j /\ n.taken[p] = taken
      /\ \A q \in Productions : q # p => n.taken[q] = r.taken[q]
      BY <1>0, <1>2, <1>3, PutTaken
<1>7. Once(n)  BY <1>0, <1>4 DEF Once
<1>8. Untouched(n)
  <2> SUFFICES ASSUME NEW k \in DOMAIN r.todo, k # 1 PROVE n.taken[r.todo[k]] = <<>>
      BY <1>4 DEF Untouched
  <2>1. r.todo[k] # p  BY <1>0, <1>2 DEF Once, p
  <2>2. r.todo[k] \in Productions  BY <1>1
  <2> QED  BY <1>0, <1>4, <2>1, <2>2 DEF Untouched
<1>9. Completed(n, v)
  <2> SUFFICES ASSUME meterConfiguration = 1, NEW q \in Productions, v[q] # {},
                      \A k \in DOMAIN r.todo : r.todo[k] # q
               PROVE  n.taken[q] = Due(v[Consumption], v[q], Cardinality(v[Consumption]))
      BY <1>4 DEF Completed
  <2>1. q # p  BY <1>2 DEF p
  <2> QED  BY <1>0, <1>4, <2>1 DEF Completed
<1>10. UnderWay(n, v)
  <2>1. Position(v[Consumption], v[p], i, j, n.taken[p])  BY <1>4 DEF p
  <2>2. v[p] # {}  BY DEF p
  <2> QED  BY <1>4, <2>1, <2>2 DEF UnderWay, p
<1> QED  BY <1>0, <1>4, <1>7, <1>8, <1>9, <1>10 DEF Merging, p

---------------------------------------------------------------------------
(* The steps of the page. *)

\* A round of the loop, or the step to the next production meter (MergeStep).
LEMMA MergeStepKeeps == ASSUME MergeInv, MergeStep PROVE MergeInv'
<1> DEFINE v == timeSeries[merge.draw]
           p == Head(merge.todo)
           c == v[Consumption]
           s == Sorted(c)
           q == Sorted(v[p])
           i == merge.i
           j == merge.j
           Round(a, b, t) == [merge EXCEPT !.i = a, !.j = Within(b, Len(q)), !.taken[p] = @ \o t]
<1>0. /\ merge # None /\ merge.todo # <<>> /\ merge.draw <= draws /\ Merging(merge, v)
      /\ UNCHANGED <<draws, timeSeries, drawn>>
      BY DEF MergeStep, MergeInv
<1>1. /\ merge \in MergeRecord /\ v \in [Meters -> SUBSET Minutes] /\ UnderWay(merge, v)
      /\ merge.todo \in Seq(Productions) /\ merge.taken \in [Productions -> Seq(Minutes)]
      BY <1>0, RecordFacts DEF Merging
<1>2. p = merge.todo[1] /\ p \in Productions  BY <1>0, <1>1
<1>3. c \in SUBSET Minutes /\ v[p] \in SUBSET Minutes  BY <1>1, <1>2, MeterFacts
<1>4. merge' = IF q = <<>> \/ i > Len(s) THEN [merge EXCEPT !.todo = Tail(@), !.i = 1, !.j = 1]
               ELSE CASE s[i] = q[j] -> Round(i + 1, j + 1, <<q[j]>>)
                      [] s[i] > q[j] -> Round(i, j + 1, <<>>)
                      [] s[i] < q[j] -> Round(i + 1, j, <<q[LastKnown(j)]>>)
      BY DEF MergeStep
<1>5. /\ Len(s) = Cardinality(c) /\ Len(q) = Cardinality(v[p]) /\ (q = <<>> <=> v[p] = {})
      /\ Cardinality(c) \in Nat /\ Cardinality(v[p]) \in Nat
      /\ q \in [1..Cardinality(v[p]) -> v[p]] /\ s \in [1..Cardinality(c) -> c]
      /\ \A k \in 1..Cardinality(v[p]) : q[k] \in Int
      /\ \A k \in 1..Cardinality(c) : s[k] \in Int
      BY <1>3, SortedFile
<1> HIDE DEF v, p, c, s, q, i, j, Round
<1>6. merge'.draw = merge.draw /\ Merging(merge', v)
  <2>1. CASE q = <<>> \/ i > Len(s)
    <3>1. v[merge.todo[1]] = {} \/ merge.i > Cardinality(v[Consumption])
          BY <1>2, <1>5, <2>1 DEF i, c
    <3>2. NextRecord(merge', merge, Tail(merge.todo))
      <4>1. merge' = [merge EXCEPT !.todo = Tail(@), !.i = 1, !.j = 1]  BY <1>4, <2>1
      <4> QED  BY <4>1 DEF NextRecord
    <3> QED  BY <1>0, <3>1, <3>2, NextProductionKeeps
  <2>2. CASE ~ (q = <<>> \/ i > Len(s))
    <3>1. v[p] # {} /\ i <= Cardinality(c) /\ Position(c, v[p], i, j, merge.taken[p])
      <4>1. v[p] # {}  BY <1>5, <2>2
      <4>2. Position(c, v[p], i, j, merge.taken[p])
            BY <1>0, <1>1, <1>2, <4>1 DEF UnderWay, i, j, c
      <4>3. i \in 1..(Cardinality(c) + 1)  BY <4>2 DEF Position
      <4> QED  BY <1>5, <2>2, <4>1, <4>2, <4>3
    <3>2. i \in 1..Cardinality(c) /\ j \in 1..Cardinality(v[p]) /\ merge.taken[p] \in Seq(Minutes)
          BY <1>1, <1>2, <1>5, <3>1 DEF Position
    <3>3. ASSUME NEW a, NEW b, NEW t \in Seq(Minutes), merge' = Round(a, b, t),
                 Position(c, v[p], a, Within(b, Cardinality(v[p])), merge.taken[p] \o t)
          PROVE  merge'.draw = merge.draw /\ Merging(merge', v)
      <4> DEFINE k == Within(b, Cardinality(v[p]))
                 taken == merge.taken[p] \o t
      <4>1. taken \in Seq(Minutes)  BY <3>2
      <4>2. a \in Nat \ {0} /\ k \in Nat \ {0}  BY <1>5, <3>3 DEF Position
      <4>3. RoundRecord(merge', merge, a, k, p, taken)
        <5>1. DOMAIN merge = {"draw", "i", "j", "todo", "taken"}  BY <1>1 DEF MergeRecord
        <5>2. merge' = [merge EXCEPT !.i = a, !.j = k, !.taken[p] = @ \o t]  BY <1>5, <3>3 DEF Round
        <5> HIDE DEF k
        <5> QED  BY <5>1, <5>2 DEF RoundRecord
      <4>4. Position(v[Consumption], v[merge.todo[1]], a, k, taken)  BY <1>2, <3>3 DEF c
      <4>5. v[merge.todo[1]] # {} /\ RoundRecord(merge', merge, a, k, merge.todo[1], taken)
            BY <1>2, <3>1, <4>3
      <4> HIDE DEF k, taken
      <4> QED  BY <1>0, <4>1, <4>2, <4>4, <4>5, RoundKeeps
    <3>4. /\ s[i] = q[j] => Position(c, v[p], i + 1, Within(j + 1, Cardinality(v[p])), merge.taken[p] \o <<q[j]>>)
          /\ s[i] > q[j] => Position(c, v[p], i, Within(j + 1, Cardinality(v[p])), merge.taken[p] \o <<>>)
          /\ s[i] < q[j] => Position(c, v[p], i + 1, Within(j, Cardinality(v[p])), merge.taken[p] \o <<q[LastKnown(j)]>>)
          BY <1>3, <3>1, <3>2, RoundKeepsPosition DEF s, q
    <3>5. s[i] \in Int /\ q[j] \in Int  BY <1>5, <3>2
    <3>6. CASE s[i] = q[j]
      <4>1. merge' = Round(i + 1, j + 1, <<q[j]>>)  BY <1>4, <2>2, <3>5, <3>6
      <4>2. <<q[j]>> \in Seq(Minutes)  BY <1>3, <1>5, <3>2
      <4> QED  BY <3>3, <3>4, <3>6, <4>1, <4>2
    <3>7. CASE s[i] > q[j]
      <4>1. merge' = Round(i, j + 1, <<>>)  BY <1>4, <2>2, <3>5, <3>7
      <4>2. <<>> \in Seq(Minutes)  OBVIOUS
      <4> QED  BY <3>3, <3>4, <3>7, <4>1, <4>2
    <3>8. CASE s[i] < q[j]
      <4>1. merge' = Round(i + 1, j, <<q[LastKnown(j)]>>)  BY <1>4, <2>2, <3>5, <3>8
      <4>2. <<q[LastKnown(j)]>> \in Seq(Minutes)
        <5>1. j - 1 \in Int /\ j \in 1..Cardinality(v[p])  BY <1>5, <3>2
        <5>2. LastKnown(j) = IF j - 1 >= 1 THEN j - 1 ELSE 1  BY <5>1, MaxWithOne DEF LastKnown
        <5>3. LastKnown(j) \in 1..Cardinality(v[p])  BY <1>5, <5>1, <5>2
        <5> QED  BY <1>3, <1>5, <5>3
      <4> QED  BY <3>3, <3>4, <3>8, <4>1, <4>2
    <3> QED  BY <3>5, <3>6, <3>7, <3>8
  <2> QED  BY <2>1, <2>2
<1> QED  BY <1>0, <1>6 DEF MergeInv, v

\* The last file of a draw starts its merge; the others only wait for it.
LEMMA LoadKeeps ==
    ASSUME ServerInv, MergeInv, NEW d \in Draws, NEW m \in Meters, Load(d, m) PROVE MergeInv'
<1> DEFINE f == answers[d][m].minutes
           todo == IF meterConfiguration = 1 THEN SetToSeq(Productions) ELSE <<>>
<1>1. /\ answers[d][m] \in File /\ d <= draws /\ UNCHANGED <<draws, drawn>>
      /\ timeSeries' = [timeSeries EXCEPT ![d][m] = f]
      /\ merge' = IF \E n \in Meters : timeSeries'[d][n] = None THEN None
                  ELSE [draw |-> d, i |-> 1, j |-> 1, todo |-> todo, taken |-> [p \in Productions |-> <<>>]]
      BY DEF Load, ServerInv, ServerType, ServerFresh
<1>2. f \in SUBSET Minutes  BY <1>1 DEF File
<1> HIDE DEF f
<1>3. timeSeries' \in [Draws -> [Meters -> (SUBSET Minutes) \cup {None}]]
  <2>1. timeSeries \in [Draws -> [Meters -> (SUBSET Minutes) \cup {None}]]  BY DEF MergeInv
  <2>2. f \in (SUBSET Minutes) \cup {None}  BY <1>2
  <2> DEFINE R == (SUBSET Minutes) \cup {None}
  <2>3. timeSeries \in [Draws -> [Meters -> R]] /\ f \in R  BY <2>1, <2>2
  <2> HIDE DEF R
  <2>4. timeSeries' \in [Draws -> [Meters -> R]]  BY <1>1, <2>3
  <2> QED  BY <2>4 DEF R
<1>4. ASSUME merge' # None PROVE merge'.draw <= draws /\ Merging(merge', timeSeries'[merge'.draw])
  <2>1. \A n \in Meters : timeSeries'[d][n] \in SUBSET Minutes  BY <1>1, <1>3, <1>4
  <2>2. timeSeries'[d] \in [Meters -> SUBSET Minutes]  BY <1>3, <2>1
  <2>3. merge' = [draw |-> d, i |-> 1, j |-> 1, todo |-> todo, taken |-> [p \in Productions |-> <<>>]]
        BY <1>1, <1>4
  <2>4. /\ todo \in Seq(Productions)
        /\ \A k, l \in DOMAIN todo : todo[k] = todo[l] => k = l
        /\ meterConfiguration = 1 => \A p \in Productions : \E k \in DOMAIN todo : todo[k] = p
    <3>1. CASE meterConfiguration = 1  BY <3>1, AllProductions
    <3>2. CASE meterConfiguration # 1
      <4>1. todo = <<>>  BY <3>2
      <4>2. <<>> \in Seq(Productions) /\ DOMAIN <<>> = {}  OBVIOUS
      <4> HIDE DEF todo
      <4> QED  BY <3>2, <4>1, <4>2
    <3> QED  BY <3>1, <3>2
  <2> HIDE DEF todo
  <2>5. Merging(merge', timeSeries'[d])  BY <2>2, <2>3, <2>4, MergeBegins
  <2>6. merge'.draw = d  BY <2>3
  <2> QED  BY <1>1, <2>5, <2>6
<1> QED  BY <1>1, <1>3, <1>4 DEF MergeInv

\* The merge ends with its chart.
LEMMA DrawKeeps ==
    ASSUME ServerInv, MergeInv, Draw PROVE MergeInv'
<1>1. /\ merge # None /\ merge' = None /\ drawn' = drawn \cup {merge.draw} /\ UNCHANGED draws
      /\ timeSeries' = [timeSeries EXCEPT ![merge.draw] = [m \in Meters |-> None]]
      BY DEF Draw
<1>2. merge.draw \in Draws /\ merge.draw <= draws  BY <1>1, RecordFacts DEF MergeInv, Merging
<1>3. timeSeries' \in [Draws -> [Meters -> (SUBSET Minutes) \cup {None}]]  BY <1>1, <1>2 DEF MergeInv
<1>4. drawn' \subseteq 1..draws
  <2>1. drawn \subseteq 1..draws  BY DEF MergeInv
  <2>2. merge.draw \in 1..draws
    <3>1. draws \in Nat  BY DEF ServerInv, ServerType
    <3> QED  BY <1>2, <3>1 DEF Draws
  <2> QED  BY <1>1, <2>1, <2>2
<1> QED  BY <1>1, <1>3, <1>4 DEF MergeInv

---------------------------------------------------------------------------
(* What holds of the historical chart. *)

\* What the server and the page keep.
HistoryInv == ServerInv /\ MergeInv

\* No file is loaded when the page is opened (Init).
LEMMA InitHistory == HistoryInit => HistoryInv
<1> SUFFICES ASSUME HistoryInit PROVE HistoryInv  OBVIOUS
<1>1. MergeInv  BY DEF HistoryInit, MergeInv
<1> QED  BY <1>1, InitServer DEF HistoryInv

\* What a step that leaves the page alone leaves of the merge.
LEMMA SamePage ==
    ASSUME MergeInv, UNCHANGED <<timeSeries, merge, drawn>>, draws' = draws \/ (draws' = draws + 1 /\ merge = None),
           draws \in Nat
    PROVE  MergeInv'
<1>1. CASE draws' = draws  BY <1>1 DEF MergeInv
<1>2. CASE draws' = draws + 1 /\ merge = None  BY <1>2 DEF MergeInv
<1> QED  BY <1>1, <1>2

\* What a step of the page leaves of the server.
LEMMA SameServer ==
    ASSUME ServerInv, UNCHANGED <<clock, database, server, answers, draws, failures>>
    PROVE  ServerInv' /\ Answered
<1>1. UNCHANGED <<clock, database, cache, threads, answers, draws, failures>>  BY DEF server
<1> QED  BY <1>1 DEF ServerInv, ServerType, ServerFresh, Serves, FreshEntry, Answered

\* Every step keeps both parts, and answers with nothing that is too old.
LEMMA HistoryStepKeeps == ASSUME HistoryInv, [HistoryNext]_historyVars PROVE HistoryInv' /\ Answered
<1>0. ServerInv /\ MergeInv /\ draws \in Nat  BY DEF HistoryInv, ServerInv, ServerType
<1>1. CASE MinutePasses
  <2>1. UNCHANGED <<timeSeries, merge, drawn, draws>>  BY <1>1 DEF MinutePasses, page
  <2> QED  BY <1>0, <1>1, <2>1, MinuteServer, SamePage DEF HistoryInv
<1>2. CASE DrawHistoricalChart
  <2>1. UNCHANGED <<timeSeries, merge, drawn>> /\ draws' = draws + 1 /\ merge = None  BY <1>2 DEF DrawHistoricalChart
  <2> QED  BY <1>0, <1>2, <2>1, DrawServer, SamePage DEF HistoryInv
<1>3. CASE MergeStep
  <2>1. UNCHANGED <<clock, database, server, answers, draws, failures>>  BY <1>3 DEF MergeStep
  <2> QED  BY <1>0, <1>3, <2>1, SameServer, MergeStepKeeps DEF HistoryInv
<1>4. CASE Draw
  <2>1. UNCHANGED <<clock, database, server, answers, draws, failures>>  BY <1>4 DEF Draw
  <2> QED  BY <1>0, <1>4, <2>1, SameServer, DrawKeeps DEF HistoryInv
<1>5. ASSUME NEW d \in Draws, NEW m \in Meters, CheckCache(d, m) \/ Query(d, m) \/ Store(d, m) \/ Fail(d, m)
      PROVE  HistoryInv' /\ Answered
  <2>1. UNCHANGED <<timeSeries, merge, drawn, draws>>  BY <1>5 DEF CheckCache, Query, Store, Fail, Serve, page
  <2>2. MergeInv'  BY <1>0, <2>1, SamePage
  <2>3. ServerInv' /\ Answered  BY <1>0, <1>5, CheckCacheServer, QueryServer, StoreServer, FailServer
  <2> QED  BY <2>2, <2>3 DEF HistoryInv
<1>6. ASSUME NEW d \in Draws, NEW m \in Meters, Load(d, m) PROVE HistoryInv' /\ Answered
      BY <1>0, <1>6, LoadServer, LoadKeeps DEF HistoryInv
<1>7. CASE UNCHANGED historyVars
  <2>1. /\ UNCHANGED <<clock, database, server, answers, draws, failures>>
        /\ UNCHANGED <<timeSeries, merge, drawn, draws>>
        BY <1>7 DEF historyVars, page
  <2> QED  BY <1>0, <2>1, SameServer, SamePage DEF HistoryInv
<1> QED  BY <1>1, <1>2, <1>3, <1>4, <1>5, <1>6, <1>7 DEF HistoryNext, Runs

\* The invariant gives the types, and the positions of a merge.
LEMMA HistoryInvTypes == HistoryInv => HistoryTypeOK
<1> SUFFICES ASSUME HistoryInv PROVE HistoryTypeOK  OBVIOUS
<1>1. ASSUME merge # None
      PROVE  /\ merge.i \in 1..(Cardinality(timeSeries[merge.draw][Consumption]) + 1)
             /\ merge.todo # <<>> =>
                    merge.j \in 1..Max({1, Cardinality(timeSeries[merge.draw][Head(merge.todo)])})
  <2> DEFINE v == timeSeries[merge.draw]
             c == v[Consumption]
             p == merge.todo[1]
  <2>1. merge \in MergeRecord /\ v \in [Meters -> SUBSET Minutes] /\ UnderWay(merge, v)
        BY <1>1 DEF HistoryInv, MergeInv, Merging
  <2>2. merge.todo \in Seq(Productions)  BY <2>1, RecordFacts
  <2>3. c \in SUBSET Minutes /\ (merge.todo # <<>> => v[p] \in SUBSET Minutes /\ p = Head(merge.todo))
        BY <2>1, <2>2, MeterFacts
  <2> HIDE DEF v, p
  <2>4. Cardinality(c) \in Nat /\ (merge.todo # <<>> => Cardinality(v[p]) \in Nat)  BY <2>3, SortedFile
  <2>5. CASE merge.todo = <<>>
    <3>1. merge.i = 1  BY <2>1, <2>5 DEF UnderWay
    <3>2. merge.i \in 1..(Cardinality(c) + 1)  BY <2>4, <3>1
    <3>3. merge.i \in 1..(Cardinality(timeSeries[merge.draw][Consumption]) + 1)  BY <3>2 DEF v
    <3> QED  BY <2>5, <3>3
  <2>6. CASE merge.todo # <<>> /\ v[p] = {}
    <3>1. merge.i = 1 /\ merge.j = 1  BY <2>1, <2>6 DEF UnderWay, p
    <3>2. Max({1, Cardinality(v[p])}) \in Nat /\ Max({1, Cardinality(v[p])}) >= 1  BY <2>4, <2>6, MaxWithOne
    <3>3. merge.i \in 1..(Cardinality(c) + 1) /\ merge.j \in 1..Max({1, Cardinality(v[p])})
          BY <2>4, <3>1, <3>2
    <3>4. merge.i \in 1..(Cardinality(timeSeries[merge.draw][Consumption]) + 1)  BY <3>3 DEF v
    <3>5. v[p] = timeSeries[merge.draw][Head(merge.todo)]  BY <2>3, <2>6 DEF v
    <3> QED  BY <3>3, <3>4, <3>5
  <2>7. CASE merge.todo # <<>> /\ v[p] # {}
    <3>1. merge.i \in 1..(Cardinality(c) + 1) /\ merge.j \in 1..Cardinality(v[p])
          BY <2>1, <2>7 DEF UnderWay, p, Position
    <3>2. Max({1, Cardinality(v[p])}) = Cardinality(v[p])
          BY <2>4, <2>7, <3>1, MaxWithOne
    <3> QED  BY <2>3, <2>7, <3>1, <3>2 DEF v
  <2> QED  BY <2>5, <2>6, <2>7
<1> QED  BY <1>1 DEF HistoryInv, ServerInv, ServerType, MergeInv, HistoryTypeOK, Entry

\* When no production meter is left, every one of them is taken off completely.
LEMMA HistoryInvTakes == HistoryInv => TakesWhatBelongs
<1> SUFFICES ASSUME HistoryInv, merge # None, merge.todo = <<>>, meterConfiguration = 1,
                    NEW p \in Productions, timeSeries[merge.draw][p] # {}
             PROVE  merge.taken[p] = [k \in DOMAIN Sorted(timeSeries[merge.draw][Consumption]) |->
                        Belongs(Sorted(timeSeries[merge.draw][Consumption])[k], timeSeries[merge.draw][p])]
      BY DEF TakesWhatBelongs
<1> DEFINE v == timeSeries[merge.draw]
           c == v[Consumption]
<1>1. v \in [Meters -> SUBSET Minutes] /\ Completed(merge, v)  BY DEF HistoryInv, MergeInv, Merging
<1>2. c \in SUBSET Minutes  BY <1>1, MeterFacts
<1>3. DOMAIN Sorted(c) = 1..Cardinality(c)  BY <1>2, SortedFile
<1>4. merge.taken[p] = Due(c, v[p], Cardinality(c))  BY <1>1 DEF Completed
<1> QED  BY <1>3, <1>4 DEF Due

\* Files, answers and the cache are what HistoricalChart declares, and the loop over the
\* consumption never reads behind the end of either file (drawHistoricalChart).
THEOREM HistoryTyped == HistorySpec => []HistoryTypeOK
<1>1. HistoryInv /\ [HistoryNext]_historyVars => HistoryInv'  BY HistoryStepKeeps
<1> QED  BY <1>1, InitHistory, HistoryInvTypes, PTL DEF HistorySpec

\* However the files have come to lack minutes: the loop takes off each minute of the
\* consumption the value of the production that belongs to it (drawHistoricalChart).
THEOREM MergeTakesWhatBelongs == HistorySpec => []TakesWhatBelongs
<1>1. HistoryInv /\ [HistoryNext]_historyVars => HistoryInv'  BY HistoryStepKeeps
<1> QED  BY <1>1, InitHistory, HistoryInvTakes, PTL DEF HistorySpec

\* What the steps do to the answers is what BoundedStaleness asks for.
LEMMA AnsweredBounds ==
    Answered => \A d \in Draws, m \in Meters :
                   answers'[d][m] \notin {answers[d][m], None, Failed} =>
                       answers'[d][m].made >= clock - CacheTime - MaxQuery
BY DEF Answered

\* DataTsvServlet answers with no file older than the time of its cache and of one request:
\* the timestamp of an entry is that of storing, not that of making the file.
THEOREM AnswersNotTooOld == HistorySpec => BoundedStaleness
<1> DEFINE P == \A d \in Draws, m \in Meters :
                   answers'[d][m] \notin {answers[d][m], None, Failed} =>
                       answers'[d][m].made >= clock - CacheTime - MaxQuery
<1>1. HistoryInv /\ [HistoryNext]_historyVars => HistoryInv'  BY HistoryStepKeeps
<1>2. HistoryInv /\ [HistoryNext]_historyVars => [P]_historyVars  BY HistoryStepKeeps, AnsweredBounds
<1> QED  BY <1>1, <1>2, InitHistory, PTL DEF HistorySpec, BoundedStaleness
=============================================================================
