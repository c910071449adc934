------------------------------ MODULE LiveChart ------------------------------
(***************************************************************************)
(* The live chart of the web page: the loop that redraws it, on the timers *)
(* and transitions of d3 it is made of.  Every redraw starts a transition  *)
(* on the axes, on each of their ticks and on each line of the chart; when *)
(* the transitions of all lines have ended, it redraws.                    *)
(*                                                                         *)
(* JavaScript runs one callback at a time.  A frame calls the timers in    *)
(* the order of their list, one call a step; timers added meanwhile are    *)
(* called in the same frame.  Ids of transitions are only compared, so a   *)
(* transition carries the number of redraws since its own instead.  The    *)
(* timers of a redraw share one time, kept as the age of the redraw.  The  *)
(* axes share a set of ticks; a tick stands for its line and text too.     *)
(* The delay of every transition is 0, no listener throws, and nothing     *)
(* listens to "start" or "interrupt".  A transition that meets another of  *)
(* its element interrupts it or waits for it: OneTransition shows that     *)
(* this never happens here, so that it is left out.                        *)
(***************************************************************************)
EXTENDS SortedSets, Sequences, SequencesExt, FiniteSetsExt

CONSTANTS
    Lines,     \* the lines of the chart: one of each meter and the total
    Ticks,     \* what the ticks of the axes can show
    Axis,      \* the g elements of the axes and their domain paths
    Duration   \* of a transition, in steps of the clock

ASSUME LiveChartAssumption ==
    /\ IsFiniteSet(Lines) /\ Lines # {} /\ IsFiniteSet(Ticks)
    /\ Lines \cap Ticks = {} /\ Axis \notin Lines \cup Ticks
    /\ Duration \in Nat \ {0}

Node == Lines \cup Ticks \cup {Axis}

\* What happens to an element when its transition ends.
Listener == {"count", "remove", "none"}

Transition == [node : Node, ago : Nat, end : Listener, state : {"CREATED", "STARTED", "RUNNING"}]

\* The timer of a transition calls schedule, then start, then tick; the first tick is
\* called by a timer of its own.
Timer == [node : Node, ago : Nat, call : {"schedule", "start", "first tick", "tick", "none"}]

VARIABLES
    document,     \* the ticks in the document
    values,       \* the ticks the latest redraw wants
    transitions,  \* node.__transition of all nodes
    redraws,      \* of each redraw, the latest first: its n and its age
    timers,       \* the list of timers
    cursor,       \* the one the frame is at, 0 outside of a frame
    alarm         \* whether wake is requested for the next frame

vars == <<document, values, transitions, redraws, timers, cursor, alarm>>

Older(t) == [t EXCEPT !.ago = @ + 1]
TimerOf(t, call) == [node |-> t.node, ago |-> t.ago, call |-> call]
TransitionsOf(node) == {t \in transitions : t.node = node}

---------------------------------------------------------------------------
(* A redraw. *)

Created(node, end) == [node |-> node, ago |-> 0, end |-> end, state |-> "CREATED"]

Each(nodes, end) == [i \in 1..Cardinality(nodes) |-> Created(SetToSeq(nodes)[i], end)]
OnAxes(stay, leave) == <<Created(Axis, "none")>> \o Each(stay, "none") \o Each(leave, "remove")

\* The transitions of a redraw in the order they are created.  The ticks wanted are
\* joined with those in the document, and the others leave.
LinesFirst(wanted) == Each(Lines, "count") \o OnAxes(wanted, document \ wanted)  \* mutant
StayAndLeave(wanted) == OnAxes(wanted, document) \o Each(Lines, "count")         \* mutant
Scheduled(wanted) == OnAxes(wanted, document \ wanted) \o Each(Lines, "count")

Schedule(new) == [i \in DOMAIN new |-> TimerOf(new[i], "schedule")]

\* redraw, with the transitions and timers there are, and the redraws they belong to.
\* Every call has its own n, in the closure of its listener.
Redraw(wanted, pending, list) ==
    /\ values' = wanted
    /\ document' = document \cup wanted
    /\ transitions' = {Older(t) : t \in pending} \cup Range(Scheduled(wanted))
    /\ redraws' = <<[n |-> Cardinality(Lines), age |-> 0]>>
                  \o SubSeq(redraws, 1, Max({t.ago + 1 : t \in pending} \cup {0}))
    /\ timers' = [i \in DOMAIN list |-> Older(list[i])] \o Schedule(Scheduled(wanted))

\* The page draws the axes without a transition, and then redraws.
Init ==
    /\ values \in SUBSET Ticks
    /\ \E drawn \in SUBSET Ticks : document = drawn \cup values
    /\ transitions = Range(Scheduled(values))
    /\ redraws = <<[n |-> Cardinality(Lines), age |-> 0]>>
    /\ timers = Schedule(Scheduled(values))
    /\ cursor = 0 /\ alarm = TRUE

---------------------------------------------------------------------------
(* A frame: wake, the calls of timerFlush, nap. *)

Wake ==
    /\ cursor = 0 /\ alarm
    /\ \E step \in 1..Duration :
           redraws' = [i \in DOMAIN redraws |->
                          [redraws[i] EXCEPT !.age = Min({@ + step, Duration})]]
    /\ cursor' = 1 /\ alarm' = FALSE
    /\ UNCHANGED <<document, values, transitions, timers>>

\* The timer the frame is at makes a call about transition self.
Calls(calls, self) ==
    /\ cursor \in DOMAIN timers /\ timers[cursor].call \in calls
    /\ self \in transitions /\ timers[cursor] = TimerOf(self, timers[cursor].call)
    /\ cursor' = cursor + 1
    /\ UNCHANGED alarm

Becomes(self, state) == {[self EXCEPT !.state = state]} \cup (transitions \ {self})

\* schedule, which calls start at once, as the delay is over.
Start(self) ==
    /\ Calls({"schedule"}, self)
    /\ transitions' = Becomes(self, "STARTED")
    /\ timers' = Append([timers EXCEPT ![cursor].call = "start"], TimerOf(self, "first tick"))
    /\ UNCHANGED <<document, values, redraws>>

OffByOne(n) == n < 0  \* mutant
AtFirst(n) == n >= 0  \* mutant
AllEnded(n) == n <= 0

\* A transition ends: tick's last part and stop.  An element leaves only if no other
\* transition waits for it; the last line redraws.
End(self, list) ==
    LET rest == transitions \ {self}
        n == redraws[self.ago + 1].n - 1
    IN  CASE self.end = "none" ->
               /\ transitions' = rest /\ timers' = list
               /\ UNCHANGED <<document, values, redraws>>
          [] self.end = "remove" ->
               /\ document' = IF TransitionsOf(self.node) = {self} THEN document \ {self.node}
                                                                   ELSE document
               /\ transitions' = rest /\ timers' = list
               /\ UNCHANGED <<values, redraws>>
          [] self.end = "count" /\ ~AllEnded(n) ->
               /\ redraws' = [redraws EXCEPT ![self.ago + 1].n = n]
               /\ transitions' = rest /\ timers' = list
               /\ UNCHANGED <<document, values>>
          [] OTHER -> \E wanted \in SUBSET Ticks : Redraw(wanted, rest, list)

\* tick, as the first tick and later; list says what becomes of the timers if it goes on.
Tick(self, own, list) ==
    IF redraws[self.ago + 1].age < Duration
    THEN /\ transitions' = Becomes(self, "RUNNING") /\ timers' = list
         /\ UNCHANGED <<document, values, redraws>>
    ELSE End(self, [list EXCEPT ![own].call = "none"])

FirstTick(self) ==
    /\ Calls({"first tick"}, self) /\ self.state = "STARTED"
    /\ \E own \in DOMAIN timers :
         /\ timers[own] = TimerOf(self, "start")
         /\ Tick(self, own, [timers EXCEPT ![cursor].call = "none", ![own].call = "tick"])

NextTick(self) == Calls({"tick"}, self) /\ Tick(self, cursor, timers)

Running(list) ==
    LET kept == Ascending({i \in DOMAIN list : list[i].call # "none"})
    IN  [i \in DOMAIN kept |-> list[kept[i]]]

\* nap takes the stopped timers from the list; sleep sets the alarm.  In the frame it
\* stops in, a timer is behind the cursor, so that no call skips one.
Nap ==
    /\ cursor > Len(timers)
    /\ timers' = Running(timers)
    /\ alarm' = (timers' # <<>>) /\ cursor' = 0
    /\ UNCHANGED <<document, values, transitions, redraws>>

Next ==
    \/ Wake \/ Nap
    \/ \E self \in transitions : Start(self) \/ FirstTick(self) \/ NextTick(self)

Spec == Init /\ [][Next]_vars

\* Frames come while the page is shown, and a frame calls all its timers.
FairSpec == Spec /\ WF_vars(Next)

---------------------------------------------------------------------------
(* Properties. *)

TypeOK ==
    /\ document \subseteq Ticks /\ values \subseteq document
    /\ transitions \subseteq Transition
    /\ redraws \in Seq([n : 0..Cardinality(Lines), age : 0..Duration])
    /\ timers \in Seq(Timer)
    /\ cursor \in 0..(Len(timers) + 1) /\ alarm \in BOOLEAN

\* No element ever has two transitions, so that a redraw interrupts nothing of the
\* previous one, and the latest n counts exactly the lines whose transition has yet
\* to end: no line of an older redraw is left that would start a second loop.
OneTransition ==
    /\ \A t, u \in transitions : t.node = u.node => t = u
    /\ redraws[1].n = Cardinality({t \in transitions : t.end = "count" /\ t.ago = 0})
    /\ \A t \in transitions : t.end = "count" => t.ago = 0

\* When the chart redraws, the ticks that left the axes at the previous redraw are out
\* of the document: the join finds the ticks of the previous redraw and no other.
\* They end in the same frame as the lines, only the order of the timers sees to it.
TicksHaveLeft == [][redraws'[1].age < redraws[1].age => document = values]_vars

\* The chart is redrawn again and again.
RedrawsForever == []<>(redraws[1].age = 0) /\ []<>(redraws[1].age = Duration)
=============================================================================
