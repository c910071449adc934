------------------------------ MODULE WebPanels ------------------------------
(***************************************************************************)
(* The panels of the web page and the bus connection of autobahn under     *)
(* them.  Autobahn opens transports and sessions, and tries again for some *)
(* time when they are lost.  Every session asks the batteries for their    *)
(* capacity and state of charge (SOC), and subscribes to changes of the    *)
(* SOC.  A battery's driver publishes the SOC when it finds it changed,    *)
(* but only while it is on, and then only if it has a session itself.      *)
(*                                                                         *)
(* The changes of the SOC of a battery are numbered as the driver measures *)
(* them; they are seconds apart, so that the number stands for their time  *)
(* too, and 0 for none.  The meters, of which the page shows the readings, *)
(* are left out.                                                           *)
(***************************************************************************)
EXTENDS Integers, Sequences

CONSTANTS
    Batteries,     \* batteries
    Levels,        \* states of charge a driver measures
    MaxRetries,    \* max_retries of the connection
    MaxLosses,     \* bound on what ends a connection, and on the router stopping
    MaxChanges     \* bound on the changes of the SOC of a battery

ASSUME WebPanelsAssumption ==
    MaxRetries \in Nat /\ MaxLosses \in Nat /\ MaxChanges \in Nat /\ Levels \subseteq Nat

\* A SOC with its number, NoSoc for none, and a call to a battery, with the SOC its answer
\* holds while it is under way.
Number == 0..(MaxChanges + 1)
Soc == [number : Number, value : {-1} \cup Levels]
NoSoc == [number |-> 0, value |-> -1]
Call == [pc : {"none", "called", "answering", "rejected", "answered"}, soc : Soc]
NoCall == [pc |-> "none", soc |-> NoSoc]

VARIABLES
    router,        \* whether the router runs
    transport,     \* "opening", "open", "joined" or "closed"
    retry,         \* _retry, _retry_count and whether _retry_timer runs
    losses,        \* counts what is bounded by MaxLosses
    driver,        \* of each battery: whether it is on and connected, previousStateOfCharge
    soc,           \* the SOC each driver has measured last
    calls,         \* what has become of the call to each battery in this session
    events,        \* the publications of each battery under way to the page
    latestSoc,     \* latest_battery_soc
    total,         \* total_battery_capacity: how often each battery is counted
    told,          \* whether this session has been sent the SOC measured last
    newest         \* the highest number that has been shown

connection == <<router, transport, retry, losses>>
page == <<calls, events, latestSoc, total, told, newest>>
vars == <<connection, driver, soc, page>>

Init ==
    /\ router \in BOOLEAN /\ transport = "opening"
    /\ retry = [on |-> TRUE, count |-> 0, timer |-> FALSE] /\ losses = 0
    /\ driver \in [Batteries -> [on : BOOLEAN, connected : {FALSE}, previous : {-1}]]
    /\ soc \in [Batteries -> [number : {1}, value : Levels]]
    /\ calls = [b \in Batteries |-> NoCall] /\ events = [b \in Batteries |-> <<>>]
    /\ latestSoc = [b \in Batteries |-> [time |-> 0, soc |-> NoSoc]]
    /\ total = [b \in Batteries |-> 0] /\ told = [b \in Batteries |-> FALSE]
    /\ newest = [b \in Batteries |-> 0]

---------------------------------------------------------------------------
(* autobahn.Connection. *)

Loses == losses < MaxLosses /\ losses' = losses + 1

Last(count) == count < MaxRetries  \* mutant: gives up a retry early
WillRetry(count) == count <= MaxRetries

\* onclose: what is under way is dropped; autobahn waits, then tries again, or gives up.
Closes(tryAgain) ==
    /\ transport' = "closed"
    /\ retry' = [on |-> retry.on /\ tryAgain, count |-> retry.count + 1,
                 timer |-> retry.on /\ tryAgain /\ WillRetry(retry.count + 1)]
    /\ calls' = [b \in Batteries |-> NoCall] /\ events' = [b \in Batteries |-> <<>>]
    /\ told' = [b \in Batteries |-> FALSE]
    /\ UNCHANGED <<soc, latestSoc, total, newest>>

RetryAgain ==  \* mutant: the timer stays set
    /\ retry.timer /\ transport = "closed" /\ transport' = "opening"
    /\ UNCHANGED <<retry, router, losses, driver, soc, page>>
Retry ==
    /\ retry.timer /\ transport = "closed"
    /\ transport' = "opening" /\ retry' = [retry EXCEPT !.timer = FALSE]
    /\ UNCHANGED <<router, losses, driver, soc, page>>

TransportRefused ==
    /\ transport = "opening" /\ ~router /\ Closes(TRUE)
    /\ UNCHANGED <<router, losses, driver>>

\* _autoreconnect_reset: the transport opens.
TransportOpens ==
    /\ transport = "opening" /\ router
    /\ transport' = "open" /\ retry' = [retry EXCEPT !.count = 0]
    /\ UNCHANGED <<router, losses, driver, soc, page>>

\* The router stops, and with it the sessions of the drivers.
Stops ==
    /\ router /\ router' = FALSE
    /\ driver' = [b \in Batteries |-> [driver[b] EXCEPT !.connected = FALSE]]

\* The connection breaks, with or without the router.
ConnectionLost ==
    /\ transport # "closed" /\ Loses /\ Closes(TRUE)
    /\ UNCHANGED <<router, driver>> \/ Stops

\* onleave: the router ends the session, with ABORT before it has begun.
Leave ==
    /\ transport \in {"open", "joined"} /\ Loses /\ Closes(FALSE)
    /\ UNCHANGED <<router, driver>>

\* The router starts, or stops while the page is not connected.
RouterStarts ==
    /\ ~router /\ router' = TRUE
    /\ UNCHANGED <<transport, retry, losses, driver, soc, page>>
RouterStops ==
    /\ transport = "closed" /\ Loses /\ Stops
    /\ UNCHANGED <<transport, retry, soc, page>>

---------------------------------------------------------------------------
(* The driver of a battery. *)

\* Its own session breaks, or it has one again.
Reconnects(b) ==
    /\ router \/ driver[b].connected
    /\ driver' = [driver EXCEPT ![b].connected = ~@]
    /\ UNCHANGED <<connection, soc, page>>

SetDriverState(b) ==
    /\ driver' = [driver EXCEPT ![b].on = ~@]
    /\ UNCHANGED <<connection, soc, page>>

\* The driver polls the battery and measures value, and publishes a SOC that is not the one
\* it has seen last while it was on.  That one is set whether or not it can publish.
Poll(b, value) ==
    LET changed == value # soc[b].value
        updates == driver[b].on /\ driver[b].previous # value
        heard == updates /\ driver[b].connected /\ transport = "joined"
    IN  /\ changed \/ updates
        /\ changed => soc[b].number <= MaxChanges
        /\ soc' = IF changed THEN [soc EXCEPT ![b] = [number |-> @.number + 1, value |-> value]] ELSE soc
        /\ driver' = IF updates THEN [driver EXCEPT ![b].previous = value] ELSE driver
        /\ events' = IF heard THEN [events EXCEPT ![b] = Append(@, soc'[b])] ELSE events
        /\ told' = [told EXCEPT ![b] = heard \/ (@ /\ ~changed)]
        /\ UNCHANGED <<connection, calls, latestSoc, total, newest>>

---------------------------------------------------------------------------
(* connection.onopen, and what arrives in the session. *)

\* The session is joined: the page subscribes, and calls every battery.
KeepTotal == UNCHANGED total  \* mutant
ResetTotal == total' = [b \in Batteries |-> 0]

OnOpen ==
    /\ transport = "open" /\ transport' = "joined"
    /\ ResetTotal
    /\ calls' = [b \in Batteries |-> [pc |-> "called", soc |-> NoSoc]]
    /\ UNCHANGED <<router, retry, losses, driver, soc, events, latestSoc, told, newest>>

\* The battery driver answers; it rejects the call while it has no data, and the router
\* does while the driver is not there.
GetBatteryState(b) ==
    /\ calls[b].pc = "called" /\ driver[b].connected
    /\ calls' = [calls EXCEPT ![b] = [pc |-> "answering", soc |-> soc[b]]]
    /\ told' = [told EXCEPT ![b] = TRUE]
    /\ UNCHANGED <<connection, driver, soc, events, latestSoc, total, newest>>

Reject(b) ==
    /\ calls[b].pc = "called"
    /\ calls' = [calls EXCEPT ![b].pc = "rejected"]
    /\ UNCHANGED <<connection, driver, soc, events, latestSoc, total, told, newest>>

Shows(b, time, shown) ==
    /\ latestSoc' = [latestSoc EXCEPT ![b] = [time |-> time, soc |-> shown]]
    /\ newest' = [newest EXCEPT ![b] = IF @ < shown.number THEN shown.number ELSE @]

\* The answer has no time: any publication that follows counts as newer.
OnResult(b) ==
    /\ calls[b].pc = "answering"
    /\ calls' = [calls EXCEPT ![b] = [pc |-> "answered", soc |-> NoSoc]]
    /\ total' = [total EXCEPT ![b] = @ + 1]
    /\ Shows(b, 0, calls[b].soc)
    /\ UNCHANGED <<connection, driver, soc, events, told>>

IfSince(b, time) == calls[b].pc = "answered"  \* mutant: ignores what comes before the answer
IfLater(b, time) == latestSoc[b].time < time

\* Publications come in order, but before or after an answer that was sent in between.
OnSoc(b) ==
    /\ events[b] # <<>> /\ events' = [events EXCEPT ![b] = Tail(@)]
    /\ IF IfLater(b, Head(events[b]).number)
       THEN Shows(b, Head(events[b]).number, Head(events[b]))
       ELSE UNCHANGED <<latestSoc, newest>>
    /\ UNCHANGED <<connection, driver, soc, calls, total, told>>

---------------------------------------------------------------------------
Next ==
    \/ Retry \/ TransportRefused \/ TransportOpens \/ OnOpen
    \/ ConnectionLost \/ Leave \/ RouterStarts \/ RouterStops
    \/ \E b \in Batteries :
         \/ Reconnects(b) \/ SetDriverState(b) \/ \E value \in Levels : Poll(b, value)
         \/ GetBatteryState(b) \/ Reject(b) \/ OnResult(b) \/ OnSoc(b)

Spec == Init /\ [][Next]_vars

\* Timers run out, and a router that runs accepts transports and sessions.
FairSpec == Spec /\ WF_vars(Retry \/ TransportRefused \/ TransportOpens \/ OnOpen)

---------------------------------------------------------------------------
(* Properties. *)

TypeOK ==
    /\ router \in BOOLEAN /\ transport \in {"opening", "open", "joined", "closed"}
    /\ retry \in [on : BOOLEAN, count : 0..(MaxRetries + 1), timer : BOOLEAN]
    /\ retry.timer => transport = "closed" /\ retry.on
    /\ losses \in 0..MaxLosses
    /\ driver \in [Batteries -> [on : BOOLEAN, connected : BOOLEAN, previous : {-1} \cup Levels]]
    /\ \A b \in Batteries : driver[b].connected => router
    /\ soc \in [Batteries -> Soc]
    /\ calls \in [Batteries -> Call] /\ events \in [Batteries -> Seq(Soc)]
    /\ transport # "joined" => \A b \in Batteries : calls[b] = NoCall /\ events[b] = <<>>
    /\ latestSoc \in [Batteries -> [time : Number, soc : Soc]]
    /\ total \in [Batteries -> Nat] /\ told \in [Batteries -> BOOLEAN]
    /\ newest \in [Batteries -> Number]

\* The energy shown is computed from the capacity of every battery that has answered in
\* this session, once each, however often the page has joined before.
CapacityCountedOnce ==
    transport = "joined" =>
        \A b \in Batteries : total[b] = IF calls[b].pc = "answered" THEN 1 ELSE 0

\* Once nothing is under way, a SOC that was sent to this session, published or in an answer,
\* is shown until the driver measures another.  It is not if an answer and a publication have
\* overtaken one another, which puts an older SOC over a newer one that was shown; and no SOC
\* is sent that the driver measures in standby or without a session of its own.
SocCurrent ==
    \A b \in Batteries :
        /\ told[b] /\ events[b] = <<>> /\ calls[b].pc # "answering"
        /\ latestSoc[b].soc.number = newest[b]
        => latestSoc[b].soc.value = soc[b].value

\* The page joins a session again while the router runs, unless the router has ended a
\* session itself or MaxRetries attempts in a row have failed: then it never does.
SessionReturns ==
    []<>(transport = "joined" \/ ~router \/ ~retry.on \/ retry.count > MaxRetries)
=============================================================================
