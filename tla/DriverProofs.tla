----------------------------- MODULE DriverProofs ----------------------------
(***************************************************************************)
(* Proofs about the battery driver: EnabledSignal, the signal that         *)
(* switches it, for every number of coils, and BatteryDriver, what it      *)
(* writes to the inverter, for every choice of the bounds.                 *)
(***************************************************************************)
EXTENDS EnabledSignal, BatteryDriver, TLAPS

---------------------------------------------------------------------------
(* EnabledSignal: what the register can have kept of the writes, and which
   writes switch local control. *)

SignalType ==
    /\ register \subseteq Coils
    /\ enabled \in BOOLEAN
    /\ written \in [Coils -> BOOLEAN]
    /\ GCUEnabled \in BOOLEAN
    /\ notify \in {<<>>, <<enabled>>}

\* A bit is 1 only when the value written last to its coil was "set".
RegisterReflectsWrites == \A c \in register : written[c] = TRUE

\* The flag agrees with the two values of the register that stand for a signal.
FlagAgrees ==
    /\ register = ENABLED_VALUE => enabled = TRUE
    /\ register = DISABLED_VALUE => enabled = FALSE

IInv == SignalType /\ RegisterReflectsWrites /\ FlagAgrees

signalVars == <<register, enabled, notify, written, GCUEnabled>>

\* There is at least one coil, so that the two signals differ.
LEMMA SignalsDiffer == ENABLED_VALUE # DISABLED_VALUE
<1>1. 0 \in Coils  BY SignalAssumption DEF Coils
<1> QED  BY <1>1 DEF ENABLED_VALUE, DISABLED_VALUE

\* The invariant holds when Scheduler.run reaches its end (Init).
LEMMA InitIInv == Init => IInv
<1> SUFFICES ASSUME Init PROVE IInv  OBVIOUS
<1>1. SignalType  BY DEF Init, SignalType, ENABLED_VALUE
<1>2. RegisterReflectsWrites  BY DEF Init, RegisterReflectsWrites, ENABLED_VALUE
<1>3. FlagAgrees  BY SignalsDiffer DEF Init, FlagAgrees
<1> QED  BY <1>1, <1>2, <1>3 DEF IInv

\* It depends on the register, the flag, the listener calls and the history alone.
LEMMA Frame ==
    ASSUME IInv, UNCHANGED signalVars PROVE IInv'
BY DEF IInv, SignalType, RegisterReflectsWrites, FlagAgrees, signalVars

\* What a write of one coil leaves in the register (EnabledRegisterCoil.set).
LEMMA WriteKeepsReflection ==
    ASSUME IInv, NEW c \in Coils, NEW v \in BOOLEAN,
           register' = AfterSet(c, v), written' = [written EXCEPT ![c] = v]
    PROVE  register' \subseteq Coils /\ written' \in [Coils -> BOOLEAN] /\ RegisterReflectsWrites'
<1>1. register' \subseteq Coils  BY DEF IInv, SignalType, AfterSet, Cleared
<1>2. written' \in [Coils -> BOOLEAN]  BY DEF IInv, SignalType
<1>3. SUFFICES ASSUME NEW b \in register' PROVE written'[b] = TRUE
      BY <1>1, <1>2 DEF RegisterReflectsWrites
<1>4. b \in Coils  BY <1>1
<1>5. CASE v = TRUE
  <2>1. b = c \/ b \in register  BY <1>3, <1>5 DEF AfterSet
  <2>2. CASE b = c  BY <2>2, <1>5 DEF IInv, SignalType
  <2>3. CASE b # c /\ b \in register
        BY <2>3, <1>4 DEF IInv, SignalType, RegisterReflectsWrites
  <2> QED  BY <2>1, <2>2, <2>3
<1>6. CASE v = FALSE
  <2>1. b \in register /\ b > c  BY <1>3, <1>6 DEF AfterSet, Cleared
  <2>2. b # c  BY <2>1, <1>4 DEF Coils
  <2> QED  BY <2>1, <2>2, <1>4 DEF IInv, SignalType, RegisterReflectsWrites
<1> QED  BY <1>5, <1>6

\* A write that reaches a signal other than the flag changes the flag.
LEMMA WriteKeepsAgreement ==
    ASSUME IInv, NEW c \in Coils, NEW v \in BOOLEAN, WriteCoil(c, v)
    PROVE  FlagAgrees' /\ enabled' \in BOOLEAN /\ notify' \in {<<>>, <<enabled'>>}
<1>1. enabled \in BOOLEAN /\ notify = <<>>  BY DEF IInv, SignalType, WriteCoil
<1>2. CASE register' # register /\ (~enabled) \in SignalOf(register')
  <2>1. enabled' = ~enabled /\ notify' = <<~enabled>>  BY <1>2 DEF WriteCoil
  <2>2. register' = ENABLED_VALUE => enabled' = TRUE
        BY <1>1, <1>2, <2>1 DEF SignalOf
  <2>3. register' = DISABLED_VALUE => enabled' = FALSE
        BY <1>1, <1>2, <2>1, SignalsDiffer DEF SignalOf
  <2> QED  BY <1>1, <2>1, <2>2, <2>3 DEF FlagAgrees, ENABLED_VALUE, DISABLED_VALUE
<1>3. CASE ~(register' # register /\ (~enabled) \in SignalOf(register'))
  <2>1. enabled' = enabled /\ notify' = notify  BY <1>3 DEF WriteCoil
  <2>2. CASE register' = register
        BY <1>1, <2>1, <2>2 DEF IInv, FlagAgrees, ENABLED_VALUE, DISABLED_VALUE
  <2>3. CASE (~enabled) \notin SignalOf(register')
    <3>1. register' = ENABLED_VALUE => enabled = TRUE
          BY <1>1, <2>3 DEF SignalOf
    <3>2. register' = DISABLED_VALUE => enabled = FALSE
          BY <1>1, <2>3, SignalsDiffer DEF SignalOf
    <3> QED  BY <1>1, <2>1, <3>1, <3>2 DEF FlagAgrees, ENABLED_VALUE, DISABLED_VALUE
  <2> QED  BY <1>3, <2>2, <2>3
<1> QED  BY <1>2, <1>3

\* The start-up puts the saved state into the flag, the register and every coil.
LEMMA PropagateKeepsIInv ==
    ASSUME IInv, PropagateSaved PROVE IInv'
<1>1. GCUEnabled \in BOOLEAN  BY DEF IInv, SignalType
<1>2. /\ enabled' = GCUEnabled /\ notify' = <<>> /\ GCUEnabled' = GCUEnabled
      /\ register' = (IF GCUEnabled THEN ENABLED_VALUE ELSE DISABLED_VALUE)
      /\ written' = [c \in Coils |-> ~GCUEnabled]
      BY DEF PropagateSaved
<1>3. SignalType'  BY <1>1, <1>2 DEF SignalType, ENABLED_VALUE, DISABLED_VALUE
<1>4. RegisterReflectsWrites'
      BY <1>1, <1>2 DEF RegisterReflectsWrites, ENABLED_VALUE, DISABLED_VALUE
<1>5. FlagAgrees'
      BY <1>1, <1>2, SignalsDiffer DEF FlagAgrees, ENABLED_VALUE, DISABLED_VALUE
<1> QED  BY <1>3, <1>4, <1>5 DEF IInv

LEMMA NextIInv == IInv /\ [Next]_vars => IInv'
<1> SUFFICES ASSUME IInv, [Next]_vars PROVE IInv'  OBVIOUS
<1>1. CASE \E c \in Coils, v \in BOOLEAN : WriteCoil(c, v)
  <2>1. PICK c \in Coils, v \in BOOLEAN : WriteCoil(c, v)  BY <1>1
  <2>2. register' \subseteq Coils /\ written' \in [Coils -> BOOLEAN] /\ RegisterReflectsWrites'
        BY <2>1, WriteKeepsReflection DEF WriteCoil
  <2>3. FlagAgrees' /\ enabled' \in BOOLEAN /\ notify' \in {<<>>, <<enabled'>>}
        BY <2>1, WriteKeepsAgreement
  <2>4. GCUEnabled' \in BOOLEAN  BY <2>1 DEF WriteCoil, IInv, SignalType
  <2> QED  BY <2>2, <2>3, <2>4 DEF IInv, SignalType
<1>2. CASE SetEnabled
  <2>1. notify = <<enabled>> /\ enabled \in BOOLEAN  BY <1>2 DEF SetEnabled, IInv, SignalType
  <2>2. GCUEnabled' = enabled /\ notify' = <<>>  BY <1>2, <2>1 DEF SetEnabled
  <2>3. UNCHANGED <<register, enabled, written>>  BY <1>2 DEF SetEnabled
  <2> QED  BY <2>1, <2>2, <2>3 DEF IInv, SignalType, RegisterReflectsWrites, FlagAgrees
<1>3. CASE PropagateSaved  BY <1>3, PropagateKeepsIInv
<1>4. CASE ReadSignal  BY <1>4, Frame DEF ReadSignal, signalVars
<1>5. CASE SendSignal  BY <1>5, Frame DEF SendSignal, signalVars
<1>6. CASE Retries  BY <1>6, Frame DEF Retries, Retry, signalVars
<1>7. CASE Bus  BY <1>7, Frame DEF Bus, CallSucceeds, CallFails, signalVars
<1>8. CASE RestartDriver  BY <1>8, Frame DEF RestartDriver, signalVars
<1>9. CASE UNCHANGED vars  BY <1>9, Frame DEF vars, signalVars
<1> QED  BY <1>1, <1>2, <1>3, <1>4, <1>5, <1>6, <1>7, <1>8, <1>9 DEF Next

\* The register keeps only bits that were set, and the flag follows its two signals.
THEOREM SignalInvariance == Spec => []IInv
<1> QED  BY InitIInv, NextIInv, PTL DEF Spec

\* Once all coils have been cleared, in whatever order, local control is on: for every
\* number of coils (EnabledRegisterCoil.set).
THEOREM ClearingEnables == Spec => []EnabledWhenAllClear
<1>1. IInv => EnabledWhenAllClear
  <2> SUFFICES ASSUME IInv, AllWritten(FALSE) PROVE enabled  BY DEF EnabledWhenAllClear
  <2>1. register = ENABLED_VALUE
        BY DEF IInv, SignalType, RegisterReflectsWrites, AllWritten, ENABLED_VALUE
  <2> QED  BY <2>1 DEF IInv, FlagAgrees
<1> QED  BY <1>1, SignalInvariance, PTL

\* The step behind it: only a write that completes "all set" switches local control off.
LEMMA OnlyAllSetDisables ==
    ASSUME IInv, IInv', [Next]_vars, enabled, ~enabled', booted = booted'
    PROVE  AllWritten(TRUE)'
<1>1. CASE \E c \in Coils, v \in BOOLEAN : WriteCoil(c, v)
  <2>1. PICK c \in Coils, v \in BOOLEAN : WriteCoil(c, v)  BY <1>1
  <2>2. enabled = TRUE /\ enabled' = FALSE  BY DEF IInv, SignalType
  <2>3. FALSE \in SignalOf(register')  BY <2>1, <2>2 DEF WriteCoil
  <2>4. register' = DISABLED_VALUE  BY <2>3 DEF SignalOf
  <2> QED  BY <2>4 DEF IInv, RegisterReflectsWrites, AllWritten, DISABLED_VALUE
<1>2. CASE PropagateSaved  BY <1>2 DEF PropagateSaved
<1>3. CASE UNCHANGED enabled  BY <1>3
<1> QED
    BY <1>1, <1>2, <1>3 DEF Next, SetEnabled, ReadSignal, SendSignal, Retries, Retry, Bus,
       CallSucceeds, CallFails, RestartDriver, vars

\* Local control is switched off by a write only when the last value written to every
\* coil was "set": for every number of coils and every order of writes
\* (EnabledRegisterCoil.set).
THEOREM DisablingNeedsAllSet == Spec => DisabledOnlyWhenAllSet
<1>1. IInv /\ IInv' /\ [Next]_vars
        => [enabled /\ ~enabled' /\ booted = booted' => AllWritten(TRUE)']_vars
      BY OnlyAllSetDisables
<1> QED  BY <1>1, SignalInvariance, PTL DEF Spec, DisabledOnlyWhenAllSet

---------------------------------------------------------------------------
(* EnabledSignal, types of the bus: what is called, what is repeated and what is counted.  A call that
   fails is counted and queued for one repetition, so that no more calls wait for their
   repetition than have failed. *)

BusType ==
    /\ booted \in BOOLEAN
    /\ rems \in {<<>>} \cup {<<v>> : v \in BOOLEAN}
    /\ calls \in Seq(BOOLEAN)
    /\ driver \in BOOLEAN

RetryType ==
    /\ retries \in [BOOLEAN -> Nat]
    /\ retries[TRUE] + retries[FALSE] <= errors

CountType == writes \in 0..MaxWrites /\ errors \in 0..MaxErrors /\ restarts \in 0..MaxRestarts

\* A call is taken from the bus: it is a Boolean, and what is left are Booleans.
LEMMA TakeCall ==
    ASSUME BusType, calls # <<>>
    PROVE  Head(calls) \in BOOLEAN /\ Tail(calls) \in Seq(BOOLEAN)
BY DEF BusType

LEMMA BusTypeStep == ASSUME SignalType, BusType, [Next]_vars PROVE BusType'
<1>1. CASE \E c \in Coils, v \in BOOLEAN : WriteCoil(c, v)
      BY <1>1 DEF WriteCoil, BusType
<1>2. CASE SetEnabled
  <2>1. calls' = Append(calls, notify[1]) /\ notify[1] \in BOOLEAN
        BY <1>2 DEF SetEnabled, SignalType, BusType
  <2> QED  BY <1>2, <2>1 DEF SetEnabled, BusType
<1>3. CASE PropagateSaved  BY <1>3 DEF PropagateSaved, SignalType, BusType
<1>4. CASE ReadSignal  BY <1>4 DEF ReadSignal, SignalType, BusType
<1>5. CASE SendSignal
  <2>1. PICK v \in BOOLEAN : rems = <<v>>  BY <1>5 DEF SendSignal, BusType
  <2>2. calls' = Append(calls, v)  BY <1>5, <2>1 DEF SendSignal, BusType
  <2> QED  BY <1>5, <2>2 DEF SendSignal, BusType
<1>6. CASE Retries  BY <1>6 DEF Retries, Retry, BusType
<1>7. CASE Bus
  <2>1. driver' \in {driver, Head(calls)} /\ calls' = Tail(calls) /\ calls # <<>>
        BY <1>7 DEF Bus, CallSucceeds, CallFails
  <2>2. UNCHANGED <<booted, rems>>  BY <1>7 DEF Bus, CallSucceeds, CallFails
  <2> QED  BY <2>1, <2>2, TakeCall DEF BusType
<1>8. CASE RestartDriver  BY <1>8 DEF RestartDriver, BusType
<1>9. CASE UNCHANGED vars  BY <1>9 DEF vars, BusType
<1> QED  BY <1>1, <1>2, <1>3, <1>4, <1>5, <1>6, <1>7, <1>8, <1>9 DEF Next

LEMMA CountTypeStep == ASSUME CountType, [Next]_vars PROVE CountType'
BY SignalAssumption DEF CountType, Next, vars, counts, WriteCoil, SetEnabled, PropagateSaved,
   ReadSignal, SendSignal, Retries, Retry, Bus, CallSucceeds, CallFails, RestartDriver

\* Two counts stay within a bound when one of them grows by no more than the bound does.
LEMMA CountsWithinBound ==
    ASSUME NEW a, NEW b, a # b, NEW r \in [{a, b} -> Nat], NEW v \in {a, b},
           NEW n \in Nat, NEW e \in Nat, NEW f \in Nat,
           r[a] + r[b] <= e, n - r[v] <= f - e,
           NEW s, s = [r EXCEPT ![v] = n]
    PROVE  s \in [{a, b} -> Nat] /\ s[a] + s[b] <= f
<1>1. s \in [{a, b} -> Nat]  OBVIOUS
<1>2. r[a] \in Nat /\ r[b] \in Nat  OBVIOUS
<1>3. CASE v = a
  <2>1. s[a] = n /\ s[b] = r[b]  BY <1>3
  <2> QED  BY <1>1, <1>2, <1>3, <2>1
<1>4. CASE v = b
  <2>1. s[b] = n /\ s[a] = r[a]  BY <1>4
  <2> QED  BY <1>1, <1>2, <1>4, <2>1
<1> QED  BY <1>3, <1>4

\* The same of the calls that wait for their repetition.
LEMMA RetriesWithinErrors ==
    ASSUME RetryType, errors \in Nat, errors' \in Nat, NEW v \in BOOLEAN, NEW n \in Nat,
           retries' = [retries EXCEPT ![v] = n], n - retries[v] <= errors' - errors
    PROVE  RetryType'
<1>1. BOOLEAN = {TRUE, FALSE} /\ TRUE # FALSE  OBVIOUS
<1>2. retries \in [{TRUE, FALSE} -> Nat] /\ retries[TRUE] + retries[FALSE] <= errors
      BY <1>1, Zenon DEF RetryType
<1>3. v \in {TRUE, FALSE}  BY <1>1, Zenon
<1>4. /\ retries' \in [{TRUE, FALSE} -> Nat]
      /\ (retries')[TRUE] + (retries')[FALSE] <= errors'
      BY <1>1, <1>2, <1>3, CountsWithinBound, Zenon
<1> QED  BY <1>1, <1>4, Zenon DEF RetryType

\* Of all steps, only a repetition and a failing call change what waits for repetition.
LEMMA RetryTypeStep ==
    ASSUME BusType, RetryType, CountType, CountType', [Next]_vars
    PROVE  RetryType'
<1>0. errors \in Nat /\ errors' \in Nat
      BY SignalAssumption DEF CountType
<1>1. CASE Retries
  <2>1. PICK v \in BOOLEAN : Retry(v)  BY <1>1 DEF Retries
  <2>2. retries' = [retries EXCEPT ![v] = retries[v] - 1] /\ errors' = errors
        BY <2>1 DEF Retry, counts
  <2>3. retries[v] \in Nat  BY DEF RetryType
  <2>4. retries[v] - 1 \in Nat /\ (retries[v] - 1) - retries[v] <= errors' - errors
        BY <1>0, <2>1, <2>2, <2>3 DEF Retry
  <2> QED  BY <1>0, <2>2, <2>4, RetriesWithinErrors
<1>2. CASE CallFails
  <2> DEFINE v == Head(calls)
  <2>1. v \in BOOLEAN  BY <1>2, TakeCall DEF CallFails
  <2>2. retries' = [retries EXCEPT ![v] = retries[v] + 1] /\ errors' = errors + 1
        BY <1>2 DEF CallFails
  <2> HIDE DEF v
  <2>3. retries[v] \in Nat  BY <2>1 DEF RetryType
  <2>4. retries[v] + 1 \in Nat /\ (retries[v] + 1) - retries[v] <= errors' - errors
        BY <1>0, <2>2, <2>3
  <2> QED  BY <1>0, <2>1, <2>2, <2>4, RetriesWithinErrors
<1>3. CASE UNCHANGED <<retries, errors>>  BY <1>3 DEF RetryType
<1> QED
    BY <1>1, <1>2, <1>3 DEF Next, vars, counts, WriteCoil, SetEnabled, PropagateSaved,
       ReadSignal, SendSignal, Bus, CallSucceeds, RestartDriver

\* The signal, the bus and the driver are well typed, and no more calls wait for their
\* repetition than have failed (setDriverState and its onError).
THEOREM SignalTyped == Spec => []TypeOK
<1> DEFINE Typed == BusType /\ RetryType /\ CountType
<1>1. Init => Typed
  <2> SUFFICES ASSUME Init PROVE Typed  OBVIOUS
  <2>1. BusType
    <3>1. booted \in BOOLEAN /\ driver \in BOOLEAN  BY DEF Init
    <3>2. rems \in {<<>>} \cup {<<v>> : v \in BOOLEAN}  BY DEF Init
    <3>3. calls \in Seq(BOOLEAN)  BY DEF Init
    <3> QED  BY <3>1, <3>2, <3>3 DEF BusType
  <2>2. retries \in [BOOLEAN -> Nat]  BY DEF Init
  <2>3. retries[TRUE] = 0 /\ retries[FALSE] = 0 /\ errors = 0  BY Zenon DEF Init
  <2>4. RetryType  BY <2>2, <2>3 DEF RetryType
  <2>5. CountType  BY SignalAssumption DEF Init, CountType
  <2> QED  BY <2>1, <2>4, <2>5
<1>2. IInv /\ Typed /\ [Next]_vars => Typed'
      BY BusTypeStep, CountTypeStep, RetryTypeStep DEF IInv
<1>3. IInv /\ Typed => TypeOK
      BY DEF IInv, SignalType, BusType, RetryType, CountType, TypeOK
<1> QED  BY <1>1, <1>2, <1>3, SignalInvariance, PTL DEF Spec

---------------------------------------------------------------------------
(* BatteryDriver, types. *)

\* The levels of power are closed under reversing the direction.
LEMMA PowerReversed == \A p \in Power : -p \in Power /\ TargetPower(p) \in Power
BY DEF Power, TargetPower

\* The counters of a driver that has just started are in their ranges.
LEMMA ZeroCounts ==
    0 \in Power /\ 0 \in 0..ReconnectionInterval /\ 0 \in 0..MaxFailures /\ 0 \in 0..MaxRequests
BY BatteryAssumption DEF Power

\* setRealPower stores the power it is given, or nothing.
LEMMA SetRealPowerType ==
    ASSUME realPowerReq \in Power, writeToModbus \in BOOLEAN, NEW p \in Power, SetRealPower(p)
    PROVE  realPowerReq' \in Power /\ writeToModbus' \in BOOLEAN
BY DEF SetRealPower, setpoint

\* What is set when the driver starts is well typed (Init).
LEMMA InitType == DriverInit => DriverTypeOK
<1> SUFFICES ASSUME DriverInit PROVE DriverTypeOK  OBVIOUS
<1> QED  BY ZeroCounts DEF DriverInit, DriverTypeOK

\* The counters stay within their bounds, and an exception only ends the run.
LEMMA BoundedType ==
    ASSUME DriverTypeOK
    PROVE  /\ Fails => failures' \in 0..MaxFailures
           /\ Request => requests' \in 0..MaxRequests /\ UNCHANGED failures
           /\ Succeeds => failures' \in 0..MaxFailures
BY BatteryAssumption DEF DriverTypeOK, Fails, Succeeds, Request

LEMMA ThrowsType ==
    ASSUME DriverTypeOK, NEW from, Throws(from), power' \in Power, UNCHANGED battery,
           failures' \in 0..MaxFailures
    PROVE  DriverTypeOK'
BY DEF DriverTypeOK, Throws, Task, mode, link, setpoint, schedule

LEMMA ThrowsOnNullType ==
    ASSUME DriverTypeOK, NEW from, ThrowsOnNull(from) PROVE DriverTypeOK'
BY ThrowsType DEF ThrowsOnNull, inverter, DriverTypeOK

\* Every step of the periodic task keeps the types.
LEMMA RunType ==
    ASSUME DriverTypeOK, Run PROVE DriverTypeOK'
<1>1. CASE BeginRun
  <2>1. failures' \in 0..MaxFailures  BY <1>1, BoundedType DEF BeginRun
  <2>2. connected' \in BOOLEAN  BY <1>1 DEF BeginRun, DriverTypeOK
  <2> QED  BY <1>1, <2>1, <2>2 DEF DriverTypeOK, BeginRun, Task, mode, setpoint, schedule, inverter
<1>2. CASE Poll
      BY <1>2, BoundedType DEF DriverTypeOK, Poll, Task, mode, link, setpoint, schedule, inverter
<1>3. CASE Branch
      BY <1>3, ZeroCounts
      DEF DriverTypeOK, Branch, mode, link, setpoint, schedule, inverter
<1>4. CASE Control
  <2>1. TargetPower(scheduled) \in Power /\ 0 \in Power
        BY PowerReversed DEF DriverTypeOK, Power
  <2>2. realPowerReq' \in Power /\ writeToModbus' \in BOOLEAN
        BY <1>4, <2>1, SetRealPowerType DEF Control, DriverTypeOK, setpoint
  <2> QED  BY <1>4, <2>2 DEF DriverTypeOK, Control, Task, mode, link, schedule, inverter
<1>5. CASE RequestSystemState
  <2>1. CASE ThrowsOnNull("system")  BY <2>1, ThrowsOnNullType
  <2>2. CASE Throws("system") /\ Fails /\ UNCHANGED inverter
        BY <2>2, ThrowsType, BoundedType DEF inverter, DriverTypeOK
  <2>3. CASE Task("system", "safety") /\ ~ThrowsOnNull("system") /\ ~Throws("system")
    <3>1. battery' = battery \/ battery' = [battery EXCEPT !.systemState = "LineCommutated"]
          BY <1>5, <2>3 DEF RequestSystemState
    <3>2. battery' \in Measurement  BY <3>1 DEF DriverTypeOK, Measurement, SystemState
    <3> QED  BY <1>5, <2>3, <3>2
             DEF DriverTypeOK, RequestSystemState, Task, mode, link, setpoint, schedule
  <2> QED  BY <1>5, <2>1, <2>2, <2>3 DEF RequestSystemState, Task, Throws
<1>6. CASE Safety
  <2>1. CASE ThrowsOnNull("safety")  BY <2>1, ThrowsOnNullType
  <2>2. CASE ~ThrowsOnNull("safety")
    <3>1. /\ realPowerReq' \in Power /\ writeToModbus' \in BOOLEAN
          /\ scheduled' \in Power /\ intervention' \in BOOLEAN
      <4>1. 1 \in Power /\ -1 \in Power  BY DEF Power
      <4>2. ASSUME NEW p \in Power, Intervene(p)
            PROVE  /\ realPowerReq' \in Power /\ writeToModbus' \in BOOLEAN
                   /\ scheduled' \in Power /\ intervention' \in BOOLEAN
            BY <4>2, SetRealPowerType, PowerReversed DEF Intervene, DriverTypeOK
      <4> QED  BY <1>6, <2>2, <4>1, <4>2, ZeroCounts DEF Safety, DriverTypeOK, setpoint
    <3> QED  BY <1>6, <2>2, <3>1 DEF DriverTypeOK, Safety, Task, mode, link, inverter
  <2> QED  BY <2>1, <2>2
<1>7. CASE WritePower
  <2>1. CASE ThrowsOnNull("write")  BY <2>1, ThrowsOnNullType
  <2>2. CASE Throws("write") /\ Fails /\ power' \in {power, realPowerReq} /\ UNCHANGED battery
        BY <2>2, ThrowsType, BoundedType DEF DriverTypeOK
  <2>3. CASE /\ pc = "write" /\ pc' \in {"end", "clear"} /\ power' \in {power, realPowerReq}
             /\ UNCHANGED <<mode, link, currentState, remsRequest, setpoint, schedule,
                            command, battery, failures, requests>>
        BY <2>3 DEF DriverTypeOK, mode, link, setpoint, schedule
  <2> QED  BY <1>7, <2>1, <2>2, <2>3 DEF WritePower, Task
<1>8. CASE ClearWrite
      BY <1>8 DEF DriverTypeOK, ClearWrite, Task, mode, link, schedule, inverter
<1>9. CASE CheckRems
      BY <1>9 DEF DriverTypeOK, CheckRems, Task, mode, link, setpoint, schedule, inverter
<1>10. CASE ReadRems
  <2>1. CASE Throws("readRems") /\ UNCHANGED <<inverter, failures>>
        BY <2>1, ThrowsType DEF inverter, DriverTypeOK
  <2>2. CASE ~Throws("readRems")
        BY <1>10, <2>2 DEF DriverTypeOK, ReadRems, Task, mode, link, setpoint, schedule, inverter
  <2> QED  BY <2>1, <2>2, <1>10 DEF ReadRems
<1>11. CASE WriteRems
  <2>1. command \in Power  BY <1>11 DEF WriteRems, Task, Throws, DriverTypeOK
  <2>2. CASE Throws("writeRems") /\ Fails /\ power' \in {power, command} /\ UNCHANGED battery
        BY <2>1, <2>2, ThrowsType, BoundedType DEF DriverTypeOK
  <2>3. CASE /\ Task("writeRems", "clearRems") /\ command' = None
             /\ power' = command /\ UNCHANGED battery
             /\ UNCHANGED <<mode, link, currentState, remsRequest, setpoint, schedule,
                            failures, requests>>
        BY <2>1, <2>3 DEF DriverTypeOK, Task, mode, link, setpoint, schedule
  <2> QED  BY <1>11, <2>2, <2>3 DEF WriteRems
<1>12. CASE ClearRems
      BY <1>12 DEF DriverTypeOK, ClearRems, Task, mode, link, setpoint, schedule, inverter
<1>13. CASE EndRun
  <2>1. connected' \in BOOLEAN /\ communicationCycle' \in 0..ReconnectionInterval
    <3>1. CASE CloseDue
          BY <1>13, <3>1, ZeroCounts DEF EndRun
    <3>2. CASE ~CloseDue
      <4>1. communicationCycle + 1 \in 0..ReconnectionInterval
            BY <3>2, BatteryAssumption DEF DriverTypeOK, CloseDue
      <4> QED  BY <1>13, <3>2, <4>1 DEF EndRun, DriverTypeOK
    <3> QED  BY <3>1, <3>2
  <2> QED  BY <1>13, <2>1 DEF DriverTypeOK, EndRun, Task, mode, setpoint, schedule, inverter
<1> QED  BY <1>1, <1>2, <1>3, <1>4, <1>5, <1>6, <1>7, <1>8, <1>9, <1>10, <1>11, <1>12, <1>13
         DEF Run

\* So does every other step.
LEMMA NextType ==
    ASSUME DriverTypeOK, [DriverNext]_driverVars PROVE DriverTypeOK'
<1>1. CASE Run  BY <1>1, RunType
<1>2. CASE \E state \in {"On", "Standby"} : SetDriverState(state)
      BY <1>2, BoundedType
      DEF DriverTypeOK, SetDriverState, link, setpoint, schedule, task, inverter
<1>3. CASE SwitchOnAtStart
      BY <1>3 DEF DriverTypeOK, SwitchOnAtStart, link, setpoint, schedule, task, inverter
<1>4. CASE ForgetRems
  <2>1. switch' \in {"idle", "poll"} /\ remsRequest' = None /\ writeToModbus' = TRUE
        BY <1>4 DEF ForgetRems, RepeatRequest
  <2> QED  BY <1>4, <2>1 DEF DriverTypeOK, ForgetRems, link, schedule, task, inverter
<1>5. CASE PollOnSwitch
  <2>1. failures' \in 0..MaxFailures  BY <1>5, BoundedType DEF PollOnSwitch
  <2>2. connected' \in BOOLEAN /\ communicationCycle' \in 0..ReconnectionInterval
        BY <1>5, ZeroCounts DEF PollOnSwitch, DriverTypeOK, link
  <2>3. currentState' \in Measurement \cup {None}  BY <1>5 DEF PollOnSwitch, DriverTypeOK
  <2> QED  BY <1>5, <2>1, <2>2, <2>3 DEF DriverTypeOK, PollOnSwitch, setpoint, schedule, task, inverter
<1>6. CASE \E p \in Power : SetRemsRequest(p) \/ SchedulePower(p)
      BY <1>6, BoundedType
      DEF DriverTypeOK, SetRemsRequest, SchedulePower, mode, link, setpoint, schedule, task, inverter
<1>7. CASE Restart
      BY <1>7, BoundedType, ZeroCounts DEF DriverTypeOK, Restart, inverter
<1>8. CASE FollowRegister \/ ChangeSoc \/ SwitchOff
  <2>1. battery' \in Measurement /\ failures' \in 0..MaxFailures
    <3>1. CASE FollowRegister
      <4>1. PICK p \in Power : battery' = [battery EXCEPT !.realPower = p]
            BY <3>1 DEF FollowRegister, Device, DriverTypeOK, Power
      <4> QED  BY <3>1, <4>1, BoundedType DEF FollowRegister, DriverTypeOK, Measurement
    <3>2. CASE ChangeSoc
      <4>1. PICK soc \in 0..FullSoc : battery' = [battery EXCEPT !.stateOfCharge = soc]
            BY <3>2 DEF ChangeSoc, Device, DriverTypeOK, Measurement
      <4> QED  BY <3>2, <4>1, BoundedType DEF ChangeSoc, DriverTypeOK, Measurement
    <3>3. CASE SwitchOff
          BY <3>3, BoundedType DEF SwitchOff, Device, DriverTypeOK, Measurement, SystemState
    <3> QED  BY <1>8, <3>1, <3>2, <3>3
  <2> QED  BY <1>8, <2>1
           DEF DriverTypeOK, FollowRegister, ChangeSoc, SwitchOff, Device, mode, link, setpoint,
               schedule, task
<1>9. CASE UNCHANGED driverVars
      BY <1>9 DEF DriverTypeOK, driverVars, mode, link, setpoint, schedule, task, inverter
<1> QED  BY <1>1, <1>2, <1>3, <1>4, <1>5, <1>6, <1>7, <1>8, <1>9 DEF DriverNext, Switching

\* Powers, measurements and counters stay what Battery declares, the requests a run
\* forwards exist, and the connection is closed in time.
THEOREM DriverTypeCorrect == DriverSpec => []DriverTypeOK
<1>1. DriverInit => DriverTypeOK  BY InitType
<1>2. DriverTypeOK /\ [DriverNext]_driverVars => DriverTypeOK'  BY NextType
<1> QED  BY <1>1, <1>2, PTL DEF DriverSpec

---------------------------------------------------------------------------
(* BatteryDriver: requests are kept. *)

\* A REMS request that is still being written finds the request of the driver marked to
\* be written again: the thread that has switched the driver on did so.
RemsOverwritten ==
    pc \in {"rems", "readRems", "writeRems"} /\ driverState = "On" /\ switch # "forget"
    => writeToModbus

\* What is not marked any more has arrived.
ClearedWhenWritten == pc = "clear" => power = realPowerReq

Kept == RequestWrittenOrPending /\ RemsOverwritten /\ ClearedWhenWritten

\* Requests are kept when the driver starts (Init).
LEMMA InitKept == DriverInit => Kept
BY DEF DriverInit, Kept, RequestWrittenOrPending, RemsOverwritten, ClearedWhenWritten

\* An exception ends the run and leaves the driver and its request alone.
LEMMA ThrowsKeepsFields ==
    ASSUME NEW from, Throws(from)
    PROVE  pc = from /\ pc' = "idle" /\ UNCHANGED <<driverState, switch, realPowerReq, writeToModbus>>
BY DEF Throws, Task, mode, setpoint

\* setRealPower marks what it requests.
LEMMA SetRealPowerMarks ==
    ASSUME NEW p, SetRealPower(p)
    PROVE  writeToModbus' = TRUE \/ UNCHANGED <<realPowerReq, writeToModbus>>
BY DEF SetRealPower, setpoint

\* A step from one place of the run to another keeps the requests when it does not touch
\* the register, and at most requests another power.
LEMMA RunStepKeeps ==
    ASSUME Kept, UNCHANGED <<driverState, switch, power>>,
           writeToModbus' = TRUE \/ UNCHANGED <<realPowerReq, writeToModbus>>,
           pc' # "clear",
           pc' \in {"rems", "readRems", "writeRems"}
               => pc \in {"rems", "readRems", "writeRems"} \/ driverState # "On"
    PROVE  Kept'
BY DEF Kept, RequestWrittenOrPending, RemsOverwritten, ClearedWhenWritten

\* Every step of the periodic task keeps the requests.
LEMMA RunKeeps ==
    ASSUME Kept, Run PROVE Kept'
<1>1. CASE BeginRun
      BY <1>1, RunStepKeeps DEF BeginRun, Task, mode, setpoint, inverter
<1>2. CASE Poll
      BY <1>2, RunStepKeeps DEF Poll, Task, mode, setpoint, inverter
<1>3. CASE Branch
      BY <1>3, RunStepKeeps DEF Branch, mode, setpoint, inverter
<1>4. CASE Control
  <2>1. writeToModbus' = TRUE \/ UNCHANGED <<realPowerReq, writeToModbus>>
        BY <1>4, SetRealPowerMarks DEF Control, setpoint
  <2> QED  BY <1>4, <2>1, RunStepKeeps DEF Control, Task, mode, inverter
<1>5. CASE RequestSystemState
  <2>1. UNCHANGED <<driverState, switch, power, realPowerReq, writeToModbus>>
        /\ pc' \in {"idle", "safety"}
        BY <1>5, ThrowsKeepsFields
        DEF RequestSystemState, ThrowsOnNull, Task, mode, setpoint, inverter
  <2> QED  BY <2>1, RunStepKeeps
<1>6. CASE Safety
  <2>1. CASE ThrowsOnNull("safety")
        BY <2>1, ThrowsKeepsFields, RunStepKeeps DEF ThrowsOnNull, inverter
  <2>2. CASE ~ThrowsOnNull("safety")
    <3>1. writeToModbus' = TRUE \/ UNCHANGED <<realPowerReq, writeToModbus>>
          BY <1>6, <2>2, SetRealPowerMarks DEF Safety, Intervene, setpoint
    <3> QED  BY <1>6, <2>2, <3>1, RunStepKeeps DEF Safety, Task, mode, inverter
  <2> QED  BY <2>1, <2>2
<1>7. CASE WritePower
  <2>1. CASE ThrowsOnNull("write")
        BY <2>1, ThrowsKeepsFields, RunStepKeeps DEF ThrowsOnNull, inverter
  <2>2. CASE Task("write", "end") /\ UNCHANGED <<power, mode, setpoint>>
        BY <2>2, RunStepKeeps DEF Task, mode, setpoint
  <2>3. CASE Task("write", "clear") /\ power' = realPowerReq /\ UNCHANGED <<mode, setpoint>>
        BY <2>3 DEF Kept, RequestWrittenOrPending, RemsOverwritten, ClearedWhenWritten,
                    Task, mode, setpoint
  <2>4. CASE writeToModbus /\ Throws("write")
    <3>1. writeToModbus' /\ pc' = "idle"  BY <2>4, ThrowsKeepsFields
    <3> QED  BY <3>1 DEF Kept, RequestWrittenOrPending, RemsOverwritten, ClearedWhenWritten
  <2> QED  BY <1>7, <2>1, <2>2, <2>3, <2>4 DEF WritePower
<1>8. CASE ClearWrite
  <2>1. power' = realPowerReq' /\ pc' = "end"
        BY <1>8 DEF ClearWrite, Task, inverter, Kept, ClearedWhenWritten
  <2> QED  BY <2>1 DEF Kept, RequestWrittenOrPending, RemsOverwritten, ClearedWhenWritten
<1>9. CASE CheckRems
      BY <1>9, RunStepKeeps DEF CheckRems, Task, mode, setpoint, inverter
<1>10. CASE ReadRems
  <2>1. UNCHANGED <<driverState, switch, power, realPowerReq, writeToModbus>>
        /\ pc = "readRems" /\ pc' \in {"idle", "writeRems"}
        BY <1>10, ThrowsKeepsFields DEF ReadRems, Task, mode, setpoint, inverter
  <2> QED  BY <2>1, RunStepKeeps
<1>11. CASE WriteRems
  <2>1. UNCHANGED <<driverState, switch, realPowerReq, writeToModbus>>
        /\ pc = "writeRems" /\ pc' \in {"idle", "clearRems"}
        BY <1>11, ThrowsKeepsFields DEF WriteRems, Task, mode, setpoint
  <2> QED  BY <2>1 DEF Kept, RequestWrittenOrPending, RemsOverwritten, ClearedWhenWritten
<1>12. CASE ClearRems
      BY <1>12, RunStepKeeps DEF ClearRems, Task, mode, setpoint, inverter
<1>13. CASE EndRun
      BY <1>13, RunStepKeeps DEF EndRun, Task, mode, setpoint, inverter
<1> QED  BY <1>1, <1>2, <1>3, <1>4, <1>5, <1>6, <1>7, <1>8, <1>9, <1>10, <1>11, <1>12, <1>13
         DEF Run

\* So does every step of the bus thread, of a restart, of the inverter and the battery.
LEMMA NextKeeps ==
    ASSUME Kept, [DriverNext]_driverVars PROVE Kept'
<1> USE DEF Kept, RequestWrittenOrPending, RemsOverwritten, ClearedWhenWritten
<1>1. CASE Run  BY <1>1, RunKeeps
<1>2. CASE \E state \in {"On", "Standby"} : SetDriverState(state)
      BY <1>2 DEF SetDriverState, setpoint, task, inverter
<1>3. CASE SwitchOnAtStart
      BY <1>3 DEF SwitchOnAtStart, setpoint, task, inverter
<1>4. CASE ForgetRems
      BY <1>4 DEF ForgetRems, RepeatRequest, task, inverter
<1>5. CASE PollOnSwitch
      BY <1>5 DEF PollOnSwitch, setpoint, task, inverter
<1>6. CASE \E p \in Power : SetRemsRequest(p) \/ SchedulePower(p)
      BY <1>6 DEF SetRemsRequest, SchedulePower, mode, setpoint, task, inverter
<1>7. CASE Restart
      BY <1>7 DEF Restart
<1>8. CASE FollowRegister \/ ChangeSoc \/ SwitchOff
      BY <1>8 DEF FollowRegister, ChangeSoc, SwitchOff, Device, mode, setpoint, task
<1>9. CASE UNCHANGED driverVars
      BY <1>9 DEF driverVars, mode, setpoint, task, inverter
<1> QED  BY <1>1, <1>2, <1>3, <1>4, <1>5, <1>6, <1>7, <1>8, <1>9 DEF DriverNext, Switching

\* Whatever the bus thread, REMS, failing writes and restarts do to the unlocked fields of
\* Battery, an operating driver never believes to have written what it has not.
THEOREM RequestsKept == DriverSpec => []RequestWrittenOrPending
<1>1. DriverInit => Kept  BY InitKept
<1>2. Kept /\ [DriverNext]_driverVars => Kept'  BY NextKeeps
<1>3. Kept => RequestWrittenOrPending  BY DEF Kept
<1> QED  BY <1>1, <1>2, <1>3, PTL DEF DriverSpec
=============================================================================
