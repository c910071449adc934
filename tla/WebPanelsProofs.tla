--------------------------- MODULE WebPanelsProofs ---------------------------
(***************************************************************************)
(* Proofs about WebPanels, for any set of batteries and without the bounds *)
(* of the runs: types, the capacity of the batteries, and the SOC shown.   *)
(***************************************************************************)
EXTENDS WebPanels, TLAPS

\* The type invariant, in parts.
ConnectionType ==
    /\ router \in BOOLEAN /\ transport \in {"opening", "open", "joined", "closed"}
    /\ retry \in [on : BOOLEAN, count : 0..(MaxRetries + 1), timer : BOOLEAN]
    /\ retry.timer => transport = "closed" /\ retry.on
    /\ losses \in 0..MaxLosses
DriverType ==
    /\ driver \in [Batteries -> [on : BOOLEAN, connected : BOOLEAN, previous : {-1} \cup Levels]]
    /\ \A b \in Batteries : driver[b].connected => router
BatteryType ==
    /\ soc \in [Batteries -> Soc]
    /\ calls \in [Batteries -> Call] /\ events \in [Batteries -> Seq(Soc)]
    /\ latestSoc \in [Batteries -> [time : Number, soc : Soc]]
    /\ total \in [Batteries -> Nat] /\ told \in [Batteries -> BOOLEAN]
    /\ newest \in [Batteries -> Number]
NothingLeft == transport # "joined" => \A b \in Batteries : calls[b] = NoCall /\ events[b] = <<>>

LEMMA TypeOKParts ==
    TypeOK <=> ConnectionType /\ DriverType /\ BatteryType /\ NothingLeft
BY DEF TypeOK, ConnectionType, DriverType, BatteryType, NothingLeft

\* A timer, or a transport that is not closed, leaves at least one attempt.
AttemptsLeft == retry.timer \/ transport # "closed" => retry.count <= MaxRetries

\* A SOC that the driver of b has measured: before soc[b], or soc[b] itself.
Measured(b, s) == s.number <= soc[b].number /\ (s.number = soc[b].number => s = soc[b])

\* Whatever is under way or shown was measured, and has the time of its publication, or none.
NotAhead(b) ==
    /\ soc[b].number # 0 /\ Measured(b, latestSoc[b].soc) /\ Measured(b, calls[b].soc)
    /\ \A i \in 1..Len(events[b]) : Measured(b, events[b][i])
    /\ latestSoc[b].time \in {0, latestSoc[b].soc.number}
    /\ latestSoc[b].soc.number <= newest[b] /\ newest[b] <= soc[b].number

\* A SOC that was sent is the publication under way that was sent last, or in the answer under
\* way, or it has been shown.
LastSent(b) == events[b] # <<>> /\ events[b][Len(events[b])].number = soc[b].number
Answers(b) == calls[b].pc = "answering" /\ calls[b].soc.number = soc[b].number
Arrives(b) == told[b] => LastSent(b) \/ Answers(b) \/ newest[b] = soc[b].number

\* CapacityCountedOnce of one battery.
Counted(b) == transport = "joined" => total[b] = IF calls[b].pc = "answered" THEN 1 ELSE 0

Sound(b) == NotAhead(b) /\ Arrives(b) /\ Counted(b)

IInv == TypeOK /\ AttemptsLeft /\ \A b \in Batteries : Sound(b)

LEMMA IInvImplies == IInv => TypeOK /\ CapacityCountedOnce /\ SocCurrent
<1> SUFFICES ASSUME IInv PROVE TypeOK /\ CapacityCountedOnce /\ SocCurrent  OBVIOUS
<1>1. CapacityCountedOnce  BY DEF IInv, Sound, Counted, CapacityCountedOnce
<1>2. SocCurrent
  <2> SUFFICES ASSUME NEW b \in Batteries,
                      told[b], events[b] = <<>>, calls[b].pc # "answering",
                      latestSoc[b].soc.number = newest[b]
               PROVE  latestSoc[b].soc.value = soc[b].value
      BY DEF SocCurrent
  <2> QED  BY DEF IInv, Sound, NotAhead, Arrives, LastSent, Answers, Measured
<1> QED  BY <1>1, <1>2 DEF IInv

---------------------------------------------------------------------------
LEMMA InitIInv == Init => IInv
<1> SUFFICES ASSUME Init PROVE IInv  OBVIOUS
<1> USE WebPanelsAssumption
<1>1. ConnectionType  BY DEF Init, ConnectionType
<1>2. DriverType  BY DEF Init, DriverType
<1>3. BatteryType
  <2>1. 0 \in Number /\ 1 \in Number  BY DEF Number
  <2>2. NoSoc \in Soc /\ [number : {1}, value : Levels] \subseteq Soc  BY <2>1 DEF NoSoc, Soc
  <2>3. NoCall \in Call  BY <2>2 DEF NoCall, Call
  <2>4. <<>> \in Seq(Soc)  OBVIOUS
  <2> QED  BY <2>1, <2>2, <2>3, <2>4 DEF Init, BatteryType
<1>4. NothingLeft  BY DEF Init, NothingLeft
<1>5. AttemptsLeft  BY DEF Init, AttemptsLeft
<1>6. ASSUME NEW b \in Batteries PROVE Sound(b)
  <2>1. /\ soc[b].number = 1 /\ calls[b].soc.number = 0 /\ events[b] = <<>> /\ transport # "joined"
        /\ latestSoc[b].time = 0 /\ latestSoc[b].soc.number = 0 /\ newest[b] = 0 /\ told[b] = FALSE
        BY DEF Init, NoCall, NoSoc
  <2> QED  BY <2>1 DEF Sound, NotAhead, Measured, Arrives, Counted
<1> QED  BY <1>1, <1>2, <1>3, <1>4, <1>5, <1>6, TypeOKParts DEF IInv

BatteryFacts(b) ==
    /\ soc[b] \in Soc /\ soc[b].number \in Nat /\ newest[b] \in Nat
    /\ calls[b] \in Call /\ events[b] \in Seq(Soc)
    /\ latestSoc[b] \in [time : Number, soc : Soc] /\ total[b] \in Nat /\ told[b] \in BOOLEAN

LEMMA BatteryTypeGives ==
    ASSUME BatteryType, NEW b \in Batteries PROVE BatteryFacts(b)
<1>1. Number \subseteq Nat  BY WebPanelsAssumption DEF Number
<1>2. soc[b] \in Soc /\ newest[b] \in Number  BY DEF BatteryType
<1>3. soc[b].number \in Number  BY <1>2 DEF Soc
<1> QED  BY <1>1, <1>2, <1>3 DEF BatteryType, BatteryFacts

---------------------------------------------------------------------------
(* The connection: what it drops, and what it leaves alone. *)

ConnectionStep ==
    \/ Retry \/ TransportRefused \/ TransportOpens
    \/ ConnectionLost \/ Leave \/ RouterStarts \/ RouterStops

\* A router that stops takes the sessions of the drivers with it.
LEMMA DriversKeep ==
    ASSUME DriverType, UNCHANGED <<router, driver>> \/ Stops \/ (router' = TRUE /\ UNCHANGED driver)
    PROVE  DriverType'
<1>1. CASE UNCHANGED <<router, driver>> \/ (router' = TRUE /\ UNCHANGED driver)
      BY <1>1 DEF DriverType
<1>2. CASE Stops
  <2>1. ASSUME NEW b \in Batteries
        PROVE  /\ driver'[b] \in [on : BOOLEAN, connected : BOOLEAN, previous : {-1} \cup Levels]
               /\ driver'[b].connected = FALSE
    <3>1. driver[b] \in [on : BOOLEAN, connected : BOOLEAN, previous : {-1} \cup Levels]
          BY DEF DriverType
    <3>2. driver'[b] = [driver[b] EXCEPT !.connected = FALSE]  BY <1>2 DEF Stops
    <3> QED  BY <3>1, <3>2
  <2>2. driver' \in [Batteries -> [on : BOOLEAN, connected : BOOLEAN, previous : {-1} \cup Levels]]
        BY <1>2, <2>1 DEF Stops
  <2> QED  BY <2>1, <2>2 DEF DriverType
<1> QED  BY <1>1, <1>2

\* The end of a connection leaves no call and no publication, and no timer when it was the
\* last attempt.
LEMMA ClosesKeeps ==
    ASSUME IInv, NEW again \in BOOLEAN, Closes(again), transport # "closed",
           router' \in BOOLEAN, losses' \in 0..MaxLosses, DriverType'
    PROVE  IInv'
<1>0. ConnectionType /\ BatteryType  BY TypeOKParts DEF IInv
<1>1. retry.count \in 0..MaxRetries
      BY <1>0, WebPanelsAssumption DEF IInv, AttemptsLeft, ConnectionType
<1>2. transport' = "closed"  BY DEF Closes
<1>3. retry' \in [on : BOOLEAN, count : 0..(MaxRetries + 1), timer : BOOLEAN]
      BY <1>0, <1>1, WebPanelsAssumption DEF Closes, ConnectionType, WillRetry
<1>4. retry'.timer => retry'.on /\ retry'.count <= MaxRetries
      BY DEF Closes, WillRetry
<1>5. ConnectionType' /\ AttemptsLeft'
      BY <1>2, <1>3, <1>4 DEF ConnectionType, AttemptsLeft
<1>6. NoCall \in Call /\ <<>> \in Seq(Soc)
      BY WebPanelsAssumption DEF NoCall, Call, NoSoc, Soc, Number
<1>7. BatteryType' /\ NothingLeft'
      BY <1>0, <1>6 DEF Closes, BatteryType, NothingLeft
<1>8. ASSUME NEW b \in Batteries PROVE Sound(b)'
  <2>1. soc[b].number \in Nat  BY <1>0, BatteryTypeGives DEF BatteryFacts
  <2>2. NotAhead(b)  BY DEF IInv, Sound
  <2>3. /\ calls'[b].soc.number = 0 /\ events'[b] = <<>> /\ told'[b] = FALSE
        /\ UNCHANGED <<soc, latestSoc, newest>>
        BY DEF Closes, NoCall, NoSoc
  <2>4. NotAhead(b)'  BY <2>1, <2>2, <2>3 DEF NotAhead, Measured
  <2> QED  BY <1>2, <2>3, <2>4 DEF Sound, Arrives, Counted
<1>9. TypeOK'
      BY <1>5, <1>7 DEF TypeOK, ConnectionType, DriverType, BatteryType, NothingLeft
<1> QED  BY <1>5, <1>8, <1>9 DEF IInv

LEMMA LosesKeeps ==
    ASSUME ConnectionType, losses' = losses \/ Loses PROVE losses' \in 0..MaxLosses
BY WebPanelsAssumption DEF ConnectionType, Loses

\* What leaves the page alone, and neither begins nor ends a session, changes nothing there.
LEMMA PageKeeps ==
    ASSUME IInv, UNCHANGED <<soc, page>>, (transport = "joined") = (transport' = "joined"),
           ConnectionType', DriverType', AttemptsLeft'
    PROVE  IInv'
<1>0. BatteryType /\ NothingLeft  BY TypeOKParts DEF IInv
<1>1. BatteryType' /\ NothingLeft'  BY <1>0 DEF BatteryType, NothingLeft, page
<1>2. ASSUME NEW b \in Batteries PROVE Sound(b)'
  <2>1. Sound(b)  BY DEF IInv
  <2>2. NotAhead(b)'  BY <2>1 DEF Sound, NotAhead, Measured, page
  <2>3. Arrives(b)'  BY <2>1 DEF Sound, Arrives, LastSent, Answers, page
  <2> QED  BY <2>1, <2>2, <2>3 DEF Sound, Counted, page
<1>3. TypeOK'  BY <1>1 DEF TypeOK, ConnectionType, DriverType, BatteryType, NothingLeft
<1> QED  BY <1>2, <1>3 DEF IInv

\* The other steps of the connection begin and end outside of a session.
LEMMA ConnectionKeeps ==
    ASSUME IInv, ConnectionStep PROVE IInv'
<1>0. ConnectionType /\ DriverType  BY TypeOKParts DEF IInv
<1>1. CASE TransportRefused \/ ConnectionLost \/ Leave
  <2>1. transport # "closed" /\ (Closes(TRUE) \/ Closes(FALSE))
        BY <1>1 DEF TransportRefused, ConnectionLost, Leave
  <2>2. UNCHANGED <<router, driver>> \/ Stops
        BY <1>1 DEF TransportRefused, ConnectionLost, Leave
  <2>3. losses' \in 0..MaxLosses
    <3>1. losses' = losses \/ Loses
          BY <1>1 DEF TransportRefused, ConnectionLost, Leave
    <3> QED  BY <1>0, <3>1, LosesKeeps
  <2>4. router' \in BOOLEAN /\ DriverType'
        BY <1>0, <2>2, DriversKeep DEF ConnectionType, Stops
  <2> QED  BY <2>1, <2>3, <2>4, ClosesKeeps
<1>2. CASE Retry \/ TransportOpens \/ RouterStarts \/ RouterStops
  <2>1. ConnectionType' /\ AttemptsLeft'
    <3>0. retry \in [on : BOOLEAN, count : 0..(MaxRetries + 1), timer : BOOLEAN] /\ AttemptsLeft
          BY <1>0 DEF IInv, ConnectionType
    <3>1. CASE Retry
      <4>1. retry'.timer = FALSE /\ retry'.count = retry.count /\ retry.timer
            BY <3>0, <3>1 DEF Retry
      <4>2. retry' \in [on : BOOLEAN, count : 0..(MaxRetries + 1), timer : BOOLEAN]
            BY <3>0, <3>1 DEF Retry
      <4> QED  BY <1>0, <3>0, <3>1, <4>1, <4>2 DEF Retry, ConnectionType, AttemptsLeft
    <3>2. CASE TransportOpens
      <4>1. retry'.timer = retry.timer /\ retry'.count = 0 /\ transport = "opening"
            BY <3>0, <3>2 DEF TransportOpens
      <4>2. retry' \in [on : BOOLEAN, count : 0..(MaxRetries + 1), timer : BOOLEAN]
            BY <3>0, <3>2, WebPanelsAssumption DEF TransportOpens
      <4>3. ~retry.timer  BY <1>0, <4>1 DEF ConnectionType
      <4> QED  BY <1>0, <3>2, <4>1, <4>2, <4>3, WebPanelsAssumption DEF TransportOpens, ConnectionType, AttemptsLeft
    <3>3. CASE RouterStarts
          BY <1>0, <3>0, <3>3 DEF RouterStarts, ConnectionType, AttemptsLeft
    <3>4. CASE RouterStops
      <4>1. losses' \in 0..MaxLosses  BY <1>0, <3>4, LosesKeeps DEF RouterStops
      <4>2. router' \in BOOLEAN  BY <3>4 DEF RouterStops, Stops
      <4> QED  BY <1>0, <3>0, <3>4, <4>1, <4>2 DEF RouterStops, ConnectionType, AttemptsLeft
    <3> QED  BY <1>2, <3>1, <3>2, <3>3, <3>4
  <2>2. (transport = "joined") = (transport' = "joined") /\ UNCHANGED <<soc, page>>
        BY <1>2 DEF Retry, TransportOpens, RouterStarts, RouterStops
  <2>3. DriverType'
    <3>1. UNCHANGED <<router, driver>> \/ Stops \/ (router' = TRUE /\ UNCHANGED driver)
          BY <1>2 DEF Retry, TransportOpens, RouterStarts, RouterStops
    <3> QED  BY <1>0, <3>1, DriversKeep
  <2> QED  BY <2>1, <2>2, <2>3, PageKeeps
<1> QED  BY <1>1, <1>2 DEF ConnectionStep

---------------------------------------------------------------------------
(* The batteries. *)

\* A driver that is switched, or whose session breaks or returns, tells the page nothing.
LEMMA DriverKeeps ==
    ASSUME IInv, NEW b \in Batteries, Reconnects(b) \/ SetDriverState(b) PROVE IInv'
<1>0. ConnectionType /\ DriverType /\ AttemptsLeft  BY TypeOKParts DEF IInv
<1>1. UNCHANGED <<connection, soc, page>>  BY DEF Reconnects, SetDriverState
<1>2. ConnectionType' /\ AttemptsLeft'
      BY <1>0, <1>1 DEF connection, ConnectionType, AttemptsLeft
<1>3. DriverType'
  <2>1. CASE Reconnects(b)
    <3>1. driver[b] \in [on : BOOLEAN, connected : BOOLEAN, previous : {-1} \cup Levels]
          BY <1>0 DEF DriverType
    <3>2. driver' = [driver EXCEPT ![b] = [driver[b] EXCEPT !.connected = ~driver[b].connected]]
          BY <2>1 DEF Reconnects
    <3>3. [driver[b] EXCEPT !.connected = ~driver[b].connected]
              \in [on : BOOLEAN, connected : BOOLEAN, previous : {-1} \cup Levels]
          BY <3>1
    <3>4. router' = router /\ (router \/ driver[b].connected)
          BY <1>1, <2>1 DEF Reconnects, connection
    <3>5. router  BY <1>0, <3>4 DEF DriverType
    <3> QED  BY <1>0, <3>2, <3>3, <3>4, <3>5 DEF DriverType
  <2>2. CASE SetDriverState(b)
    <3>1. driver[b] \in [on : BOOLEAN, connected : BOOLEAN, previous : {-1} \cup Levels]
          BY <1>0 DEF DriverType
    <3> DEFINE new == [driver[b] EXCEPT !.on = ~driver[b].on]
    <3>2. driver' = [driver EXCEPT ![b] = new]  BY <2>2 DEF SetDriverState
    <3>3. new \in [on : BOOLEAN, connected : BOOLEAN, previous : {-1} \cup Levels]
          /\ new.connected = driver[b].connected
          BY <3>1
    <3> HIDE DEF new
    <3>4. router' = router  BY <1>1 DEF connection
    <3> QED  BY <1>0, <3>2, <3>3, <3>4 DEF DriverType
  <2> QED  BY <2>1, <2>2
<1>4. transport' = transport  BY <1>1 DEF connection
<1> QED  BY <1>1, <1>2, <1>3, <1>4, PageKeeps

\* The session begins: nothing is left of the one before.
LEMMA OnOpenKeeps == ASSUME IInv, OnOpen PROVE IInv'
<1>0. ConnectionType /\ DriverType /\ BatteryType /\ NothingLeft  BY TypeOKParts DEF IInv
<1>1. ConnectionType' /\ DriverType' /\ AttemptsLeft'
      BY <1>0 DEF OnOpen, IInv, ConnectionType, DriverType, AttemptsLeft
<1>2. [pc |-> "called", soc |-> NoSoc] \in Call
      BY WebPanelsAssumption DEF Call, NoSoc, Soc, Number
<1>3. BatteryType' /\ NothingLeft'
      BY <1>0, <1>2 DEF OnOpen, ResetTotal, BatteryType, NothingLeft
<1>4. ASSUME NEW b \in Batteries PROVE Sound(b)'
  <2>1. events[b] = <<>> /\ calls[b].pc = "none" /\ Sound(b)
        BY <1>0 DEF OnOpen, NothingLeft, NoCall, IInv
  <2>2. /\ total'[b] = 0 /\ calls'[b].pc = "called" /\ calls'[b].soc.number = 0
        /\ UNCHANGED <<soc, events, latestSoc, told, newest>>
        BY DEF OnOpen, ResetTotal, NoSoc
  <2>3. soc[b].number \in Nat  BY <1>0, BatteryTypeGives DEF BatteryFacts
  <2>4. NotAhead(b)'  BY <2>1, <2>2, <2>3 DEF Sound, NotAhead, Measured
  <2>5. Arrives(b)'  BY <2>1, <2>2 DEF Sound, Arrives, LastSent, Answers
  <2> QED  BY <2>2, <2>4, <2>5 DEF Sound, Counted
<1>5. TypeOK'
      BY <1>1, <1>3 DEF TypeOK, ConnectionType, DriverType, BatteryType, NothingLeft
<1> QED  BY <1>1, <1>4, <1>5 DEF IInv

\* What leaves the connection and the drivers alone leaves their part of the invariant.
LEMMA BatteryStepKeeps ==
    ASSUME IInv, UNCHANGED connection, DriverType', BatteryType', NothingLeft',
           \A b \in Batteries : Sound(b)'
    PROVE  IInv'
<1>1. ConnectionType /\ AttemptsLeft  BY TypeOKParts DEF IInv
<1>2. ConnectionType' /\ AttemptsLeft'  BY <1>1 DEF connection, ConnectionType, AttemptsLeft
<1>3. TypeOK'  BY <1>2 DEF TypeOK, ConnectionType, DriverType, BatteryType, NothingLeft
<1> QED  BY <1>2, <1>3 DEF IInv

\* What the other batteries show does not change.
LEMMA OthersKeep ==
    ASSUME IInv, UNCHANGED transport, NEW c \in Batteries,
           soc'[c] = soc[c], calls'[c] = calls[c], events'[c] = events[c],
           latestSoc'[c] = latestSoc[c], total'[c] = total[c], told'[c] = told[c],
           newest'[c] = newest[c]
    PROVE  Sound(c)'
<1>1. Sound(c)  BY DEF IInv
<1>2. NotAhead(c)'  BY <1>1 DEF Sound, NotAhead, Measured
<1>3. Arrives(c)'  BY <1>1 DEF Sound, Arrives, LastSent, Answers
<1> QED  BY <1>1, <1>2, <1>3 DEF Sound, Counted

LEMMA CallKeeps ==
    ASSUME IInv, NEW b \in Batteries, GetBatteryState(b) \/ Reject(b) PROVE IInv'
<1>0. DriverType /\ BatteryType /\ NothingLeft /\ BatteryFacts(b) /\ Sound(b)
      BY TypeOKParts, BatteryTypeGives DEF IInv
<1>1. /\ UNCHANGED <<connection, driver, soc, events, latestSoc, total, newest, transport, router>>
      /\ calls[b].pc = "called"
      BY DEF GetBatteryState, Reject, connection
<1>2. PICK call \in Call, t \in BOOLEAN :
        /\ calls' = [calls EXCEPT ![b] = call] /\ told' = [told EXCEPT ![b] = t]
        /\ \/ call.pc = "answering" /\ call.soc = soc[b]
           \/ call.pc = "rejected" /\ call.soc = calls[b].soc /\ t = told[b]
  <2>1. CASE GetBatteryState(b)
    <3>1. [pc |-> "answering", soc |-> soc[b]] \in Call  BY <1>0 DEF Call, BatteryFacts
    <3> QED  BY <2>1, <3>1 DEF GetBatteryState
  <2>2. CASE Reject(b)
    <3> DEFINE call == [calls[b] EXCEPT !.pc = "rejected"]
    <3>1. call \in Call /\ call.soc = calls[b].soc /\ call.pc = "rejected"
          BY <1>0 DEF Call, BatteryFacts
    <3>2. calls' = [calls EXCEPT ![b] = call]  BY <2>2 DEF Reject
    <3>3. told' = [told EXCEPT ![b] = told[b]] /\ told[b] \in BOOLEAN
          BY <1>0, <2>2 DEF Reject, BatteryType, BatteryFacts
    <3> HIDE DEF call
    <3> QED  BY <3>1, <3>2, <3>3
  <2> QED  BY <2>1, <2>2
<1>3. /\ calls'[b] = call /\ told'[b] = t
      /\ \A c \in Batteries \ {b} : calls'[c] = calls[c] /\ told'[c] = told[c]
      BY <1>0, <1>2 DEF BatteryType
<1>4. transport = "joined"  BY <1>0, <1>1 DEF NothingLeft, NoCall
<1>5. DriverType' /\ BatteryType' /\ NothingLeft'
      BY <1>0, <1>1, <1>2, <1>4 DEF DriverType, BatteryType, NothingLeft
<1>6. ASSUME NEW c \in Batteries PROVE Sound(c)'
  <2>1. CASE c = b
    <3>1. NotAhead(b)'
      <4>1. NotAhead(b) /\ soc[b].number \in Nat  BY <1>0 DEF Sound, BatteryFacts
      <4>2. UNCHANGED <<soc, events, latestSoc, newest>>  BY <1>1
      <4>3. calls'[b].soc = soc[b] \/ calls'[b].soc = calls[b].soc  BY <1>2, <1>3
      <4>4. Measured(b, calls[b].soc)'  BY <4>1, <4>2, <4>3 DEF NotAhead, Measured
      <4> QED  BY <4>1, <4>2, <4>4 DEF NotAhead, Measured
    <3>2. Arrives(b)'
          BY <1>0, <1>1, <1>2, <1>3 DEF Sound, Arrives, LastSent, Answers
    <3>3. Counted(b)'  BY <1>0, <1>1, <1>2, <1>3 DEF Sound, Counted
    <3> QED  BY <2>1, <3>1, <3>2, <3>3 DEF Sound
  <2>2. CASE c # b  BY <1>1, <1>3, <2>2, OthersKeep
  <2> QED  BY <2>1, <2>2
<1> QED  BY <1>1, <1>5, <1>6, BatteryStepKeeps

\* What an answer or a publication shows was measured.
ShowsIt(b, time, s) ==
    /\ latestSoc'[b].time = time /\ latestSoc'[b].soc = s
    /\ newest'[b] = IF newest[b] < s.number THEN s.number ELSE newest[b]

LEMMA ShowsTyped ==
    ASSUME BatteryType, NEW b \in Batteries, NEW time \in Number, NEW s \in Soc, Shows(b, time, s)
    PROVE  /\ latestSoc' \in [Batteries -> [time : Number, soc : Soc]]
           /\ newest' \in [Batteries -> Number] /\ ShowsIt(b, time, s)
           /\ \A c \in Batteries \ {b} : latestSoc'[c] = latestSoc[c] /\ newest'[c] = newest[c]
<1>1. [time |-> time, soc |-> s] \in [time : Number, soc : Soc]  OBVIOUS
<1>2. newest[b] \in Number /\ s.number \in Number  BY DEF BatteryType, Soc
<1>3. latestSoc' = [latestSoc EXCEPT ![b] = [time |-> time, soc |-> s]]  BY DEF Shows
<1>4. newest' = [newest EXCEPT ![b] = IF newest[b] < s.number THEN s.number ELSE newest[b]]
      BY DEF Shows
<1>5. latestSoc' \in [Batteries -> [time : Number, soc : Soc]]  BY <1>1, <1>3 DEF BatteryType
<1>6. newest' \in [Batteries -> Number]  BY <1>2, <1>4 DEF BatteryType
<1> QED  BY <1>1, <1>3, <1>4, <1>5, <1>6 DEF BatteryType, ShowsIt

\* An answer is shown at once.
LEMMA OnResultKeeps ==
    ASSUME IInv, NEW b \in Batteries, OnResult(b) PROVE IInv'
<1>0. DriverType /\ BatteryType /\ NothingLeft /\ BatteryFacts(b) /\ Sound(b)
      BY TypeOKParts, BatteryTypeGives DEF IInv
<1>1. /\ UNCHANGED <<connection, driver, soc, events, told, transport, router>>
      /\ calls[b].pc = "answering" /\ transport = "joined"
      BY <1>0 DEF OnResult, connection, NothingLeft, NoCall
<1>2. /\ calls'[b].pc = "answered" /\ calls'[b].soc.number = 0 /\ total'[b] = total[b] + 1
      BY <1>0 DEF OnResult, BatteryType, NoSoc
<1>3. \A c \in Batteries \ {b} : calls'[c] = calls[c] /\ total'[c] = total[c]
      BY <1>0 DEF OnResult, BatteryType
<1>4. calls[b].soc \in Soc /\ 0 \in Number
      BY <1>0, WebPanelsAssumption DEF BatteryFacts, Call, Number
<1>5. /\ latestSoc' \in [Batteries -> [time : Number, soc : Soc]]
      /\ newest' \in [Batteries -> Number] /\ ShowsIt(b, 0, calls[b].soc)
      /\ \A c \in Batteries \ {b} : latestSoc'[c] = latestSoc[c] /\ newest'[c] = newest[c]
      BY <1>0, <1>4, ShowsTyped DEF OnResult
<1>6. DriverType' /\ BatteryType' /\ NothingLeft'
  <2>1. [pc |-> "answered", soc |-> NoSoc] \in Call
        BY WebPanelsAssumption DEF Call, NoSoc, Soc, Number
  <2>2. total' \in [Batteries -> Nat] /\ calls' \in [Batteries -> Call]
        BY <1>0, <2>1 DEF OnResult, BatteryType
  <2> QED  BY <1>0, <1>1, <1>5, <2>2 DEF DriverType, BatteryType, NothingLeft
<1>7. ASSUME NEW c \in Batteries PROVE Sound(c)'
  <2>1. CASE c = b
    <3>1. calls[b].soc.number \in Nat  BY <1>4, WebPanelsAssumption DEF Soc, Number
    <3>2. NotAhead(b)'
          BY <1>0, <1>1, <1>2, <1>5, <3>1 DEF Sound, NotAhead, Measured, BatteryFacts, ShowsIt
    <3>3. Arrives(b)'
      <4>1. calls[b].soc.number <= soc[b].number /\ newest[b] <= soc[b].number
            BY <1>0 DEF Sound, NotAhead, Measured
      <4>2. Answers(b) \/ newest[b] = soc[b].number => newest'[b] = soc'[b].number
            BY <1>0, <1>1, <1>5, <3>1, <4>1 DEF Answers, ShowsIt, BatteryFacts
      <4> QED  BY <1>0, <1>1, <4>2 DEF Sound, Arrives, LastSent
    <3>4. Counted(b)'  BY <1>0, <1>1, <1>2 DEF Sound, Counted, BatteryFacts
    <3> QED  BY <2>1, <3>2, <3>3, <3>4 DEF Sound
  <2>2. CASE c # b  BY <1>1, <1>3, <1>5, <2>2, OthersKeep
  <2> QED  BY <2>1, <2>2
<1> QED  BY <1>1, <1>6, <1>7, BatteryStepKeeps

\* A driver's new SOC is ahead of all others; what it publishes is sent after the publications
\* that are under way.
LEMMA PollKeeps ==
    ASSUME IInv, NEW b \in Batteries, NEW value \in Levels, Poll(b, value) PROVE IInv'
<1> DEFINE changed == value # soc[b].value
           updates == driver[b].on /\ driver[b].previous # value
           heard == updates /\ driver[b].connected /\ transport = "joined"
<1>0. DriverType /\ BatteryType /\ NothingLeft /\ BatteryFacts(b) /\ Sound(b)
      BY TypeOKParts, BatteryTypeGives DEF IInv
<1>1. UNCHANGED <<connection, calls, latestSoc, total, newest, transport, router>>
      BY DEF Poll, connection
<1>2. PICK s \in Soc :
        /\ soc' = [soc EXCEPT ![b] = s]
        /\ changed => s.number = soc[b].number + 1
        /\ ~changed => s = soc[b]
  <2>1. CASE changed
    <3> DEFINE s == [number |-> soc[b].number + 1, value |-> value]
    <3>1. soc' = [soc EXCEPT ![b] = s]  BY <2>1 DEF Poll
    <3>2. s \in Soc
      <4>1. soc[b].number <= MaxChanges  BY <2>1 DEF Poll
      <4>2. soc[b].number \in Nat  BY <1>0 DEF BatteryFacts
      <4>3. soc[b].number + 1 \in Number  BY <4>1, <4>2, WebPanelsAssumption DEF Number
      <4> QED  BY <4>3 DEF Soc
    <3>3. s.number = soc[b].number + 1  OBVIOUS
    <3> HIDE DEF s
    <3> QED  BY <2>1, <3>1, <3>2, <3>3
  <2>2. CASE ~changed
    <3>1. soc' = [soc EXCEPT ![b] = soc[b]]  BY <1>0, <2>2 DEF Poll, BatteryType
    <3> QED  BY <1>0, <2>2, <3>1 DEF BatteryFacts
  <2> QED  BY <2>1, <2>2
<1>3. soc'[b] = s /\ \A c \in Batteries \ {b} : soc'[c] = soc[c]
      BY <1>0, <1>2 DEF BatteryType
<1>4. /\ events'[b] = IF heard THEN Append(events[b], s) ELSE events[b]
      /\ events' \in [Batteries -> Seq(Soc)]
      /\ \A c \in Batteries \ {b} : events'[c] = events[c]
  <2>1. events' = IF heard THEN [events EXCEPT ![b] = Append(@, soc'[b])] ELSE events
        BY DEF Poll
  <2>2. Append(events[b], s) \in Seq(Soc)  BY <1>0 DEF BatteryFacts
  <2> HIDE DEF heard
  <2>3. CASE heard
    <3>1. events' = [events EXCEPT ![b] = Append(events[b], s)]  BY <1>3, <2>1, <2>3
    <3> QED  BY <1>0, <2>2, <2>3, <3>1 DEF BatteryType
  <2>4. CASE ~heard  BY <1>0, <2>1, <2>4 DEF BatteryType
  <2> QED  BY <2>3, <2>4
<1>5. /\ told' \in [Batteries -> BOOLEAN]
      /\ told'[b] = (heard \/ (told[b] /\ ~changed))
      /\ \A c \in Batteries \ {b} : told'[c] = told[c]
  <2>1. told' = [told EXCEPT ![b] = heard \/ (told[b] /\ ~changed)]  BY DEF Poll
  <2>2. (heard \/ (told[b] /\ ~changed)) \in BOOLEAN  OBVIOUS
  <2> HIDE DEF heard, changed
  <2> QED  BY <1>0, <2>1, <2>2 DEF BatteryType
<1>6. DriverType'
  <2>1. driver' = IF updates THEN [driver EXCEPT ![b] = [driver[b] EXCEPT !.previous = value]] ELSE driver
        BY DEF Poll
  <2>2. driver[b] \in [on : BOOLEAN, connected : BOOLEAN, previous : {-1} \cup Levels]
        BY <1>0 DEF DriverType
  <2> DEFINE new == [driver[b] EXCEPT !.previous = value]
  <2>3. new \in [on : BOOLEAN, connected : BOOLEAN, previous : {-1} \cup Levels]
        /\ new.connected = driver[b].connected
        BY <2>2
  <2> HIDE DEF new
  <2>4. driver' = driver \/ driver' = [driver EXCEPT ![b] = new]  BY <2>1 DEF new
  <2> QED  BY <1>0, <1>1, <2>3, <2>4 DEF DriverType
<1>7. BatteryType' /\ NothingLeft'
  <2>1. soc' \in [Batteries -> Soc]  BY <1>0, <1>2 DEF BatteryType
  <2>2. BatteryType'  BY <1>0, <1>1, <1>4, <1>5, <2>1 DEF BatteryType
  <2>3. transport # "joined" => \A c \in Batteries : events'[c] = events[c]  BY <1>4
  <2> QED  BY <1>0, <1>1, <2>2, <2>3 DEF NothingLeft
<1>8. soc[b].number \in Nat /\ s.number \in Nat /\ (s = soc[b] \/ soc[b].number < s.number)
      BY <1>0, <1>2, WebPanelsAssumption DEF BatteryFacts, Soc, Number
<1>9. ASSUME NEW r \in Soc, Measured(b, r) PROVE Measured(b, r)'
  <2>1. r.number \in Nat  BY WebPanelsAssumption DEF Soc, Number
  <2> QED  BY <1>3, <1>8, <1>9, <2>1 DEF Measured
<1>10. ASSUME NEW e \in Seq(Soc), NEW x \in Soc
       PROVE  /\ Len(e) \in Nat /\ Len(Append(e, x)) = Len(e) + 1 /\ Append(e, x) # <<>>
              /\ Append(e, x)[Len(e) + 1] = x
              /\ \A i \in 1..Len(e) : Append(e, x)[i] = e[i] /\ e[i] \in Soc
       OBVIOUS
<1>11. NotAhead(b)'
  <2>1. latestSoc[b].soc \in Soc /\ calls[b].soc \in Soc  BY <1>0 DEF BatteryFacts, Call
  <2>2. Measured(b, latestSoc[b].soc)' /\ Measured(b, calls[b].soc)'
    <3>1. Measured(b, latestSoc[b].soc) /\ Measured(b, calls[b].soc)  BY <1>0 DEF Sound, NotAhead
    <3>2. latestSoc' = latestSoc /\ calls' = calls  BY <1>1
    <3> QED  BY <1>9, <2>1, <3>1, <3>2
  <2>3. ASSUME NEW i \in 1..Len(events'[b]) PROVE Measured(b, events[b][i])'
    <3>1. events[b] \in Seq(Soc)  BY <1>0 DEF BatteryFacts
    <3>2. CASE i \in 1..Len(events[b])
      <4>1. events'[b][i] = events[b][i] /\ events[b][i] \in Soc  BY <1>4, <1>10, <3>1, <3>2
      <4>2. Measured(b, events[b][i])  BY <1>0, <3>2 DEF Sound, NotAhead
      <4> QED  BY <1>3, <1>8, <4>1, <4>2, WebPanelsAssumption DEF Measured, Soc, Number
    <3>3. CASE i \notin 1..Len(events[b])
      <4>1. events'[b][i] = s  BY <1>4, <1>10, <2>3, <3>1, <3>3
      <4> QED  BY <1>3, <1>8, <4>1 DEF Measured
    <3> QED  BY <3>2, <3>3
  <2>4. /\ soc'[b].number # 0 /\ newest'[b] <= soc'[b].number
        BY <1>0, <1>1, <1>3, <1>8 DEF Sound, NotAhead, BatteryFacts
  <2>5. /\ latestSoc'[b].time \in {0, latestSoc'[b].soc.number}
        /\ latestSoc'[b].soc.number <= newest'[b]
        BY <1>0, <1>1 DEF Sound, NotAhead
  <2> QED  BY <2>2, <2>3, <2>4, <2>5 DEF NotAhead
<1>12. Arrives(b)'
  <2>1. events[b] \in Seq(Soc)  BY <1>0 DEF BatteryFacts
  <2>2. CASE heard
    <3>1. events'[b] = Append(events[b], s)  BY <1>4, <2>2
    <3>2. LastSent(b)'  BY <1>3, <1>10, <2>1, <3>1 DEF LastSent
    <3> QED  BY <3>2 DEF Arrives
  <2>3. CASE ~heard /\ changed  BY <1>5, <2>3 DEF Arrives
  <2>4. CASE ~heard /\ ~changed
    <3>1. /\ events'[b] = events[b] /\ soc'[b] = soc[b] /\ told'[b] = told[b]
          /\ calls'[b] = calls[b] /\ newest'[b] = newest[b]
          BY <1>0, <1>1, <1>2, <1>3, <1>4, <1>5, <2>4 DEF BatteryFacts
    <3> HIDE DEF heard, changed
    <3> QED  BY <1>0, <3>1 DEF Sound, Arrives, LastSent, Answers
  <2> QED  BY <2>2, <2>3, <2>4
<1>13. ASSUME NEW c \in Batteries PROVE Sound(c)'
  <2>1. CASE c = b
    <3>1. Counted(b)'  BY <1>0, <1>1 DEF Sound, Counted
    <3> QED  BY <1>11, <1>12, <2>1, <3>1 DEF Sound
  <2>2. CASE c # b  BY <1>1, <1>3, <1>4, <1>5, <2>2, OthersKeep
  <2> QED  BY <2>1, <2>2
<1> QED  BY <1>1, <1>6, <1>7, <1>13, BatteryStepKeeps

\* A publication that is shown is the SOC when it is the last one; one that is not shown
\* then has the time of what is shown.
LEMMA OnSocKeeps ==
    ASSUME IInv, NEW b \in Batteries, OnSoc(b) PROVE IInv'
<1> DEFINE h == Head(events[b])
<1>0. DriverType /\ BatteryType /\ NothingLeft /\ BatteryFacts(b) /\ Sound(b)
      BY TypeOKParts, BatteryTypeGives DEF IInv
<1>1. /\ UNCHANGED <<connection, driver, soc, calls, total, told, transport, router>>
      /\ events[b] # <<>> /\ transport = "joined"
      BY <1>0 DEF OnSoc, connection, NothingLeft
<1>2. events'[b] = Tail(events[b]) /\ events[b] \in Seq(Soc)
      BY <1>0 DEF OnSoc, BatteryType, BatteryFacts
<1>3. ASSUME NEW e \in Seq(Soc), e # <<>>
      PROVE  /\ Len(e) \in Nat \ {0} /\ Head(e) = e[1] /\ Head(e) \in Soc /\ Tail(e) \in Seq(Soc)
             /\ Len(Tail(e)) = Len(e) - 1
             /\ \A i \in 1..(Len(e) - 1) : Tail(e)[i] = e[i + 1]
             /\ Tail(e) = <<>> => Len(e) = 1
             /\ Tail(e) # <<>> => Len(e) - 1 \in 1..(Len(e) - 1)
  <2>1. Len(e) \in Nat /\ Len(e) # 0  BY <1>3
  <2>2. Head(e) = e[1] /\ Head(e) \in Soc  BY <1>3
  <2>3. Tail(e) \in Seq(Soc) /\ Len(Tail(e)) = Len(e) - 1  BY <1>3
  <2>4. \A i \in 1..(Len(e) - 1) : Tail(e)[i] = e[i + 1]  BY <1>3
  <2>a. Len(<<>>) = 0  OBVIOUS
  <2>5. Tail(e) = <<>> => Len(Tail(e)) = 0  BY <2>a
  <2>6. Tail(e) # <<>> => Len(Tail(e)) # 0  BY <2>3
  <2> QED  BY <2>1, <2>2, <2>3, <2>4, <2>5, <2>6
<1>4. /\ h \in Soc /\ h.number \in Nat /\ h.number \in Number /\ Measured(b, h)
      /\ Tail(events[b]) \in Seq(Soc)
      /\ Tail(events[b]) = <<>> => h = events[b][Len(events[b])]
  <2>1. /\ h = events[b][1] /\ h \in Soc /\ Tail(events[b]) \in Seq(Soc)
        /\ Len(events[b]) \in Nat \ {0} /\ (Tail(events[b]) = <<>> => Len(events[b]) = 1)
        BY <1>1, <1>2, <1>3
  <2>2. Measured(b, h)  BY <1>0, <2>1 DEF Sound, NotAhead
  <2>3. h.number \in Number  BY <2>1 DEF Soc
  <2>4. h.number \in Nat  BY <2>3, WebPanelsAssumption DEF Number
  <2>5. Tail(events[b]) = <<>> => h = events[b][Len(events[b])]  BY <2>1
  <2> QED  BY <2>1, <2>2, <2>3, <2>4, <2>5
<1>5. IF latestSoc[b].time < h.number THEN Shows(b, h.number, h) ELSE UNCHANGED <<latestSoc, newest>>
      BY DEF OnSoc, IfLater
<1> HIDE DEF h
<1>6. /\ latestSoc' \in [Batteries -> [time : Number, soc : Soc]]
      /\ newest' \in [Batteries -> Number]
      /\ \A c \in Batteries \ {b} : latestSoc'[c] = latestSoc[c] /\ newest'[c] = newest[c]
      /\ \/ latestSoc[b].time < h.number /\ ShowsIt(b, h.number, h)
         \/ ~(latestSoc[b].time < h.number) /\ latestSoc'[b] = latestSoc[b] /\ newest'[b] = newest[b]
  <2>1. CASE latestSoc[b].time < h.number
        BY <1>0, <1>4, <1>5, <2>1, ShowsTyped
  <2>2. CASE ~(latestSoc[b].time < h.number)
        BY <1>0, <1>5, <2>2 DEF BatteryType
  <2> QED  BY <2>1, <2>2
<1>7. events' \in [Batteries -> Seq(Soc)] /\ \A c \in Batteries \ {b} : events'[c] = events[c]
      BY <1>0, <1>4 DEF OnSoc, BatteryType
<1>8. DriverType' /\ BatteryType' /\ NothingLeft'
      BY <1>0, <1>1, <1>6, <1>7 DEF DriverType, BatteryType, NothingLeft
<1>9. latestSoc[b].time \in Nat /\ latestSoc[b].soc.number \in Nat /\ soc[b].number \in Nat /\ newest[b] \in Nat
      BY <1>0, WebPanelsAssumption DEF BatteryFacts, Soc, Number
<1>10. NotAhead(b)'
  <2>1. /\ soc'[b] = soc[b] /\ soc[b].number # 0 /\ calls'[b] = calls[b]
        /\ Measured(b, latestSoc[b].soc) /\ Measured(b, calls[b].soc)
        /\ latestSoc[b].time \in {0, latestSoc[b].soc.number}
        /\ latestSoc[b].soc.number <= newest[b] /\ newest[b] <= soc[b].number
        BY <1>0, <1>1 DEF Sound, NotAhead
  <2>2. ASSUME NEW i \in 1..Len(events'[b]) PROVE Measured(b, events[b][i])'
    <3>1. /\ Len(events[b]) \in Nat \ {0} /\ Len(events'[b]) = Len(events[b]) - 1
          /\ \A j \in 1..(Len(events[b]) - 1) : events'[b][j] = events[b][j + 1]
          BY <1>1, <1>2, <1>3
    <3>2. i + 1 \in 1..Len(events[b]) /\ events'[b][i] = events[b][i + 1]  BY <2>2, <3>1
    <3>3. Measured(b, events[b][i + 1])  BY <1>0, <3>2 DEF Sound, NotAhead
    <3> QED  BY <2>1, <3>2, <3>3 DEF Measured
  <2>3. CASE latestSoc[b].time < h.number /\ ShowsIt(b, h.number, h)
    <3>1. latestSoc'[b].time = h.number /\ latestSoc'[b].soc = h  BY <2>3 DEF ShowsIt
    <3>2. newest'[b] = IF newest[b] < h.number THEN h.number ELSE newest[b]  BY <2>3 DEF ShowsIt
    <3>3. h.number <= newest'[b] /\ newest'[b] <= soc'[b].number
          BY <1>4, <1>9, <2>1, <3>2 DEF Measured
    <3> QED  BY <1>4, <2>1, <2>2, <3>1, <3>3 DEF NotAhead, Measured
  <2>4. CASE latestSoc'[b] = latestSoc[b] /\ newest'[b] = newest[b]
        BY <2>1, <2>2, <2>4 DEF NotAhead, Measured
  <2> QED  BY <1>6, <2>3, <2>4
<1>11. Arrives(b)'
  <2> SUFFICES ASSUME told'[b] PROVE LastSent(b)' \/ Answers(b)' \/ newest'[b] = soc'[b].number
      BY DEF Arrives
  <2>1. LastSent(b) \/ Answers(b) \/ newest[b] = soc[b].number
        BY <1>0, <1>1 DEF Sound, Arrives
  <2>2. CASE LastSent(b) /\ events'[b] # <<>>
    <3>1. events'[b][Len(events'[b])] = events[b][Len(events[b])]
          BY <1>1, <1>2, <1>3, <2>2
    <3> QED  BY <1>1, <2>2, <3>1 DEF LastSent
  <2>3. CASE LastSent(b) /\ events'[b] = <<>>
    <3>1. h.number = soc[b].number  BY <1>2, <1>4, <2>3 DEF LastSent
    <3>2. /\ newest[b] <= soc[b].number /\ latestSoc[b].time \in {0, latestSoc[b].soc.number}
          /\ latestSoc[b].soc.number <= newest[b] /\ soc[b].number # 0
          BY <1>0 DEF Sound, NotAhead
    <3>3. newest'[b] = soc[b].number  BY <1>6, <1>9, <3>1, <3>2 DEF ShowsIt
    <3> QED  BY <1>1, <3>3
  <2>4. CASE Answers(b)  BY <1>1, <2>4 DEF Answers
  <2>5. CASE newest[b] = soc[b].number
    <3>1. newest'[b] \in {newest[b], h.number} /\ newest[b] <= newest'[b] /\ h.number <= soc[b].number
          BY <1>4, <1>6, <1>9 DEF ShowsIt, Measured
    <3> QED  BY <1>1, <1>4, <1>9, <2>5, <3>1
  <2> QED  BY <2>1, <2>2, <2>3, <2>4, <2>5
<1>12. ASSUME NEW c \in Batteries PROVE Sound(c)'
  <2>1. CASE c = b
    <3>1. Counted(b)'  BY <1>0, <1>1 DEF Sound, Counted
    <3> QED  BY <1>10, <1>11, <2>1, <3>1 DEF Sound
  <2>2. CASE c # b  BY <1>1, <1>6, <1>7, <2>2, OthersKeep
  <2> QED  BY <2>1, <2>2
<1> QED  BY <1>1, <1>8, <1>12, BatteryStepKeeps

---------------------------------------------------------------------------
(* The theorems. *)

LEMMA StepIInv == IInv /\ [Next]_vars => IInv'
<1> SUFFICES ASSUME IInv, [Next]_vars PROVE IInv'  OBVIOUS
<1>1. CASE ConnectionStep  BY <1>1, ConnectionKeeps
<1>2. CASE OnOpen  BY <1>2, OnOpenKeeps
<1>3. CASE \E b \in Batteries :
             \/ Reconnects(b) \/ SetDriverState(b) \/ \E value \in Levels : Poll(b, value)
             \/ GetBatteryState(b) \/ Reject(b) \/ OnResult(b) \/ OnSoc(b)
      BY <1>3, DriverKeeps, PollKeeps, CallKeeps, OnResultKeeps, OnSocKeeps
<1>4. CASE UNCHANGED vars
  <2>1. UNCHANGED <<soc, page>> /\ transport' = transport  BY <1>4 DEF vars, connection
  <2>2. ConnectionType /\ DriverType /\ AttemptsLeft  BY TypeOKParts DEF IInv
  <2>3. ConnectionType' /\ DriverType' /\ AttemptsLeft'
        BY <1>4, <2>2 DEF vars, connection, ConnectionType, DriverType, AttemptsLeft
  <2> QED  BY <2>1, <2>3, PageKeeps
<1> QED  BY <1>1, <1>2, <1>3, <1>4 DEF Next, ConnectionStep

\* IInv holds in every state: whatever is lost, retried or overtaken, in any order.
THEOREM PanelsInvariance == Spec => []IInv
<1>1. Init => IInv  BY InitIInv
<1>2. IInv /\ [Next]_vars => IInv'  BY StepIInv
<1> QED  BY <1>1, <1>2, PTL DEF Spec

\* The variables keep their types; a timer runs only for a closed transport that is retried,
\* and no call or publication outlives its session.
THEOREM PanelTypeCorrect == Spec => []TypeOK
BY PanelsInvariance, IInvImplies, PTL

\* Every battery that has answered in a session is counted once, however often the page has
\* joined before (the total in connection.onopen and the answers of getBatteryState).
THEOREM CapacityCounted == Spec => []CapacityCountedOnce
BY PanelsInvariance, IInvImplies, PTL

\* A SOC that was sent to this session is shown once nothing is under way, until the driver
\* measures another, unless an answer and a publication have overtaken one another (onSoc,
\* publishSoc and the answers of getBatteryState).
THEOREM SocShown == Spec => []SocCurrent
BY PanelsInvariance, IInvImplies, PTL
=============================================================================
