--------------------------- MODULE WampConnection ---------------------------
(***************************************************************************)
(* A component's connection to the message bus, with the use the scheduler *)
(* makes of it.  The WAMP client library reconnects for ever; it hands     *)
(* status changes and publications, in order, to the one thread of the rx  *)
(* scheduler.  On a connection the scheduler subscribes and wakes the      *)
(* thread that waits for it in Scheduler.run; publications are queued for  *)
(* the event thread, which the first connection starts.                    *)
(***************************************************************************)
EXTENDS Integers, Sequences

CONSTANTS
    MaxLosses,  \* bound on the connections lost
    MaxEvents   \* bound on the publications sent by the router

ASSUME ConnectionAssumption == MaxLosses \in Nat /\ MaxEvents \in Nat

VARIABLES
    link,       \* the client library: "disconnected", "connecting", "connected"
    losses,     \* connections lost so far
    sent,       \* publications sent so far
    asked,      \* subscriptions requested in this session, not acknowledged
    active,     \* subscriptions of this session
    retries,    \* threads that subscribe again after an error
    rx,         \* what waits for the rx thread: statuses and publications
    rxpc,       \* the rx thread in the status callback
    state,      \* Connection.state
    threads,    \* the event threads started, each with its place in run()
    events,     \* length of eventQueue
    waiter      \* Scheduler.run in waitForConnection

subscriptions == <<asked, active, retries>>
vars == <<link, losses, sent, subscriptions, rx, rxpc, state, threads, events, waiter>>

Status == {"disconnected", "connecting", "connected"}

Init ==
    /\ link = "disconnected" /\ losses = 0 /\ sent = 0
    /\ asked = 0 /\ active = 0 /\ retries = 0
    /\ rx = <<"disconnected">>  \* a new subscriber is told the current status
    /\ rxpc = "idle" /\ state = "none"
    /\ threads = <<>> /\ events = 0
    /\ waiter = "check"

---------------------------------------------------------------------------
(* The client library and the router. *)

Connect ==
    /\ \/ link = "disconnected" /\ link' = "connecting"
       \/ link = "connecting" /\ link' = "connected"
    /\ rx' = Append(rx, link')
    /\ UNCHANGED <<losses, sent, subscriptions, rxpc, state, threads, events, waiter>>

\* A lost transport ends the session: its subscriptions are gone, and the error handler
\* of each that was not acknowledged yet starts a thread that tries again.
Lose ==
    /\ link = "connected" /\ losses < MaxLosses
    /\ losses' = losses + 1
    /\ link' = "disconnected" /\ rx' = Append(rx, "disconnected")
    /\ active' = 0 /\ asked' = 0 /\ retries' = retries + asked
    /\ UNCHANGED <<sent, rxpc, state, threads, events, waiter>>

Acknowledge ==
    /\ asked > 0
    /\ asked' = asked - 1 /\ active' = active + 1
    /\ UNCHANGED <<link, losses, sent, retries, rx, rxpc, state, threads, events, waiter>>

\* Every active subscription receives the publication.
Send ==
    /\ active > 0 /\ sent < MaxEvents
    /\ sent' = sent + 1
    /\ rx' = rx \o [i \in 1..active |-> "publication"]
    /\ UNCHANGED <<link, losses, subscriptions, rxpc, state, threads, events, waiter>>

---------------------------------------------------------------------------
(* The status callback of Connection.open, on the rx thread. *)

\* subscribe: refused at once when there is no session, then tried again later.
Subscribe ==
    IF link = "connected" THEN asked' = asked + 1 /\ UNCHANGED retries
    ELSE retries' = retries + 1 /\ UNCHANGED asked
SubscribeOnce ==  \* mutant: only on the first connection
    IF threads = <<>> THEN Subscribe ELSE UNCHANGED <<asked, retries>>
OnOpenSubscribes == Subscribe

Callback(from, to) ==
    /\ rxpc = from /\ rxpc' = to
    /\ UNCHANGED <<link, losses, sent, active>>

\* The first statements of onOpen.  No other status does anything for the scheduler.
OnOpen ==
    /\ Callback("idle", "opened")
    /\ rx # <<>> /\ Head(rx) = "connected"
    /\ rx' = Tail(rx)
    /\ OnOpenSubscribes
    /\ UNCHANGED <<state, threads, events, waiter>>

\* Its last statement: notifyAll on the connection.
WakeWaiterOnce ==  \* mutant: only on the first connection
    waiter' = IF waiter = "waiting" /\ threads = <<>> THEN "returned" ELSE waiter
WakeWaiter == waiter' = IF waiter = "waiting" THEN "returned" ELSE waiter
OnOpenNotifies ==
    /\ Callback("opened", "notified")
    /\ WakeWaiter
    /\ UNCHANGED <<rx, asked, retries, state, threads, events>>

StartAlways ==  \* mutant: a thread for every connection
     threads' = Append(threads, "check")
StartEventThread == threads' = IF threads = <<>> THEN <<"check">> ELSE threads
OnOpenReturns ==
    /\ Callback("notified", "connected")
    /\ StartEventThread
    /\ UNCHANGED <<rx, asked, retries, state, events, waiter>>

OtherStatus ==
    /\ rx # <<>> /\ Head(rx) \in {"disconnected", "connecting"}
    /\ Callback("idle", Head(rx))
    /\ rx' = Tail(rx)
    /\ UNCHANGED <<asked, retries, state, threads, events, waiter>>

\* finally: the status is stored after everything else.
SetState ==
    /\ rxpc \in Status
    /\ state' = rxpc
    /\ Callback(rxpc, "idle")
    /\ UNCHANGED <<rx, asked, retries, threads, events, waiter>>

\* A publication is added to the event queue.
ReceivePublication ==
    /\ Callback("idle", "idle")
    /\ rx # <<>> /\ Head(rx) = "publication"
    /\ events' = events + 1
    /\ rx' = Tail(rx)
    /\ UNCHANGED <<asked, retries, state, threads, waiter>>

---------------------------------------------------------------------------
(* The other threads. *)

\* "wait a few seconds and then try again"
Resubscribe ==
    /\ retries > 0
    /\ IF link = "connected" THEN asked' = asked + 1 /\ retries' = retries - 1
       ELSE UNCHANGED <<asked, retries>>  \* fails again: the next thread
    /\ UNCHANGED <<link, losses, sent, active, rx, rxpc, state, threads, events, waiter>>

EventThread(t, from, to) ==
    /\ threads[t] = from
    /\ threads' = [threads EXCEPT ![t] = to]
    /\ UNCHANGED <<link, losses, sent, subscriptions, rx, rxpc, state, waiter>>

CheckState(t) ==
    /\ EventThread(t, "check", IF state = "connected" THEN "take" ELSE "exited")
    /\ UNCHANGED events

PollEvent(t) ==  \* mutant: does not wait for an event
    /\ EventThread(t, "take", "handle")
    /\ events' = events - 1

TakeEvent(t) ==
    /\ events > 0
    /\ EventThread(t, "take", "handle")
    /\ events' = events - 1

HandleEvent(t) ==
    /\ EventThread(t, "handle", "check")
    /\ UNCHANGED events

\* waitForConnection: the check and the wait are one critical section on the
\* connection, but the rx thread stores the state outside of it.
WaitForConnection ==
    /\ waiter = "check"
    /\ waiter' = IF state = "connected" THEN "returned" ELSE "waiting"
    /\ UNCHANGED <<link, losses, sent, subscriptions, rx, rxpc, state, threads, events>>

\* Object.wait() may return without a notification; there is no loop around it.
SpuriousWakeup ==
    /\ waiter = "waiting"
    /\ waiter' = "returned"
    /\ UNCHANGED <<link, losses, sent, subscriptions, rx, rxpc, state, threads, events>>

RxThread ==
    OnOpen \/ OnOpenNotifies \/ OnOpenReturns \/ OtherStatus \/ SetState \/ ReceivePublication
EventThreads == \E t \in DOMAIN threads : CheckState(t) \/ TakeEvent(t) \/ HandleEvent(t)

Next ==
    Connect \/ Lose \/ Acknowledge \/ Send \/ RxThread \/ Resubscribe \/ EventThreads
    \/ WaitForConnection \/ SpuriousWakeup

Spec == Init /\ [][Next]_vars

\* The threads run, the library keeps reconnecting, the router answers.  Nothing is
\* assumed of losses and of publications.
FairSpec ==
    /\ Spec
    /\ WF_vars(Connect) /\ WF_vars(Acknowledge) /\ WF_vars(RxThread)
    /\ WF_vars(Resubscribe) /\ WF_vars(EventThreads) /\ WF_vars(WaitForConnection)

---------------------------------------------------------------------------
(* Properties. *)

TypeOK ==
    /\ link \in Status /\ losses \in 0..MaxLosses /\ sent \in 0..MaxEvents
    /\ asked \in Nat /\ active \in Nat /\ retries \in Nat
    /\ link # "connected" => asked + active = 0
    /\ \A i \in DOMAIN rx : rx[i] \in Status \cup {"publication"}
    /\ rxpc \in Status \cup {"idle", "opened", "notified"}
    /\ state \in Status \cup {"none"}
    /\ \A t \in DOMAIN threads : threads[t] \in {"check", "take", "handle", "exited"}
    /\ events \in Nat
    /\ waiter \in {"check", "waiting", "returned"}

\* Handlers rely on running alone: whatever the order of reconnections, no two event
\* threads handle events at the same time.
OneHandlerAtATime ==
    \A t, u \in DOMAIN threads : threads[t] = "handle" /\ threads[u] = "handle" => t = u

\* Once the connection stays up, the scheduler is subscribed, even when the session that
\* onOpen ran for was already gone, or the request was lost with it.
Subscribed == <>[](link = "connected") => <>[](active > 0)

\* A waiter that missed its notification is released by the next connection.
LaterConnectionReleases ==
    (waiter = "waiting" /\ link = "disconnected") ~> waiter = "returned"

\* "Waits until a connection is established."  (waitForConnection)
WaitReturns == <>(waiter = "returned")

\* "Handles event queue using a blocking queue."  (Connection.run)
EventsAreHandled == <>[](link = "connected") => []<>(events = 0)
=============================================================================
