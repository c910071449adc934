---------------------------- MODULE BatteryDriver ----------------------------
(***************************************************************************)
(* The battery driver.  A periodic task polls the inverter, follows the    *)
(* scheduled power, intervenes when the state of charge (SOC) leaves its   *)
(* bounds, and writes the requested power; in standby it forwards requests *)
(* of the remote energy management system (REMS) instead.  Meanwhile the   *)
(* bus thread switches the driver, stores REMS requests and changes the    *)
(* scheduled power, all without locks.                                     *)
(*                                                                         *)
(* Power is a level: -1, 0, 1.  The inverter and realPowerReq count        *)
(* discharging as positive, the schedule counts charging as positive.      *)
(* A run that has piled up returns at once and is left out.  The three     *)
(* phase mode writes six registers for one: here a write is one step.  The *)
(* bus is taken to switch the driver only after main has switched it on.   *)
(***************************************************************************)
EXTENDS Integers

CONSTANTS
    MinSoc, MaxSoc,        \* minStateOfCharge, maxStateOfCharge
    FullSoc,               \* the SOC of a full battery
    ReconnectionInterval,  \* reconnectionInterval
    MaxFailures,           \* bound on failing communication with the inverter, on the times
                           \* it switches itself off, and on restarts of the driver
    MaxRequests,           \* bound on calls over the bus and changes of the schedule
    None                   \* null

ASSUME BatteryAssumption ==
    /\ MinSoc \in Nat /\ MaxSoc \in Nat /\ FullSoc \in Nat
    /\ 0 < MinSoc /\ MinSoc < MaxSoc /\ MaxSoc < FullSoc
    /\ ReconnectionInterval \in Nat /\ MaxFailures \in Nat /\ MaxRequests \in Nat

Power == {-1, 0, 1}
SystemState == {"Off", "LineCommutated"}
Measurement == [stateOfCharge : 0..FullSoc, realPower : Power, systemState : SystemState]

VARIABLES
    driverState,         \* "On" or "Standby"
    switch,              \* the thread in setDriverState: "boot", "idle", "forget", "poll"
    connected,           \* modbusConnection.isConnected()
    communicationCycle,
    currentState,        \* the last measurement, or null
    remsRequest,         \* the power a REMS request asks for, or null
    realPowerReq, writeToModbus,
    intervention,
    pc, command,         \* the periodic task: its place, the request it forwards
    scheduled,           \* BatteryScheduler.getScheduledPower(now)
    power,               \* the inverter: its power register,
    battery,             \* and what can be measured
    failures, requests   \* count what is bounded

mode == <<driverState, switch>>
link == <<connected, communicationCycle>>
setpoint == <<realPowerReq, writeToModbus>>
schedule == <<scheduled, intervention>>
task == <<pc, command>>
inverter == <<power, battery>>
driverVars == <<mode, link, currentState, remsRequest, setpoint, schedule, task, inverter,
                failures, requests>>

DriverInit ==
    /\ driverState = "Standby" /\ switch = "boot"
    /\ connected = FALSE /\ communicationCycle = 0
    /\ currentState = None /\ remsRequest = None
    /\ realPowerReq = 0 /\ writeToModbus = FALSE /\ intervention = FALSE
    /\ pc = "idle" /\ command = None
    /\ scheduled \in Power
    /\ power = 0 /\ battery \in Measurement /\ battery.realPower = 0
    /\ failures = 0 /\ requests = 0

Succeeds == UNCHANGED failures
Fails == failures < MaxFailures /\ failures' = failures + 1

---------------------------------------------------------------------------
(* The periodic task, Battery.run. *)

Task(from, to) == pc = from /\ pc' = to

\* An exception ends the run; the part that counts the runs is skipped.
Throws(from) ==
    /\ Task(from, "idle") /\ command' = None
    /\ UNCHANGED <<mode, link, currentState, remsRequest, setpoint, schedule, requests>>
ThrowsOnNull(from) == currentState = None /\ Throws(from) /\ UNCHANGED <<inverter, failures>>

BeginRun ==
    /\ \/ Task("idle", "poll") /\ connected' = TRUE /\ Succeeds
       \/ Task("idle", "idle") /\ ~connected /\ UNCHANGED connected /\ Fails
    /\ UNCHANGED <<mode, communicationCycle, currentState, remsRequest, setpoint, schedule,
                   command, inverter, requests>>

Poll ==
    /\ Task("poll", "branch")
    /\ \/ currentState' = battery /\ Succeeds
       \/ currentState' = None /\ Fails
    /\ UNCHANGED <<mode, link, remsRequest, setpoint, schedule, command, inverter, requests>>

Branch ==
    /\ pc = "branch"
    /\ IF currentState = None
       THEN pc' = "end" /\ connected' = FALSE /\ communicationCycle' = 0
       ELSE /\ pc' = IF driverState = "On" THEN "control" ELSE "rems"
            /\ UNCHANGED link
    /\ UNCHANGED <<mode, currentState, remsRequest, setpoint, schedule, command, inverter,
                   failures, requests>>

\* setRealPower: no discharging of an empty, no charging of a full battery.
LimitsSwapped(p) ==  \* mutant
    /\ p < 0 => currentState.stateOfCharge > MinSoc
    /\ p > 0 => currentState.stateOfCharge < MaxSoc
WithinLimits(p) ==
    /\ p > 0 => currentState.stateOfCharge > MinSoc
    /\ p < 0 => currentState.stateOfCharge < MaxSoc
SetRealPower(p) ==
    IF WithinLimits(p) THEN realPowerReq' = p /\ writeToModbus' = TRUE ELSE UNCHANGED setpoint

\* Mutant: the direction of the schedule is not converted.
Unconverted(p) == p
\* BatteryController.update: follow the schedule, unless the battery is full or empty.
TargetPower(p) == -p
Control ==
    /\ Task("control", "system")
    /\ LET target == TargetPower(scheduled)
           soc == currentState.stateOfCharge
       IN  IF currentState = None THEN UNCHANGED setpoint
           ELSE IF (soc = MaxSoc /\ target < 0) \/ (soc = MinSoc /\ target > 0)
           THEN SetRealPower(0)
           ELSE IF currentState.realPower # target THEN SetRealPower(target)
           ELSE UNCHANGED setpoint
    /\ UNCHANGED <<mode, link, currentState, remsRequest, schedule, command, inverter,
                   failures, requests>>

RequestSystemState ==
    \/ ThrowsOnNull("system")
    \/ /\ currentState # None
       /\ IF currentState.systemState = "LineCommutated" THEN UNCHANGED battery
          ELSE battery' = [battery EXCEPT !.systemState = "LineCommutated"]
       /\ Task("system", "safety")
       /\ UNCHANGED <<mode, link, currentState, remsRequest, setpoint, schedule, command,
                      power, failures, requests>>
    \/ /\ currentState # None /\ currentState.systemState # "LineCommutated"
       /\ Throws("system") /\ Fails
       /\ UNCHANGED inverter

\* The device safety: charge or discharge by force while the SOC is out of its bounds,
\* and schedule no power afterwards.
Intervene(p) ==
    /\ scheduled' = p
    /\ SetRealPower(-p)
    /\ intervention' = TRUE
Safety ==
    \/ ThrowsOnNull("safety")
    \/ /\ currentState # None
       /\ Task("safety", "write")
       /\ IF currentState.stateOfCharge < MinSoc THEN Intervene(1)
          ELSE IF currentState.stateOfCharge > MaxSoc THEN Intervene(-1)
          ELSE /\ intervention' = FALSE
               /\ scheduled' = IF intervention THEN 0 ELSE scheduled
               /\ UNCHANGED setpoint
       /\ UNCHANGED <<mode, link, currentState, remsRequest, command, inverter, failures,
                      requests>>

\* A write that fails may have been carried out.
WritePower ==
    \/ ThrowsOnNull("write")
    \/ /\ currentState # None
       /\ IF currentState.systemState = "Off" \/ ~writeToModbus
          THEN Task("write", "end") /\ UNCHANGED power
          ELSE Task("write", "clear") /\ power' = realPowerReq
       /\ UNCHANGED <<mode, link, currentState, remsRequest, setpoint, schedule, command,
                      battery, failures, requests>>
    \/ /\ currentState # None /\ currentState.systemState # "Off" /\ writeToModbus
       /\ Throws("write") /\ Fails
       /\ power' \in {power, realPowerReq} /\ UNCHANGED battery

ClearWrite ==
    /\ Task("clear", "end")
    /\ writeToModbus' = FALSE
    /\ UNCHANGED <<mode, link, currentState, remsRequest, realPowerReq, schedule, command,
                   inverter, failures, requests>>

\* In standby: the field is read for the test, read again for the writes, and then reset.
CheckRems ==
    /\ Task("rems", IF remsRequest = None THEN "end" ELSE "readRems")
    /\ UNCHANGED <<mode, link, currentState, remsRequest, setpoint, schedule, command,
                   inverter, failures, requests>>
ReadRems ==
    \/ remsRequest = None /\ Throws("readRems") /\ UNCHANGED <<inverter, failures>>
    \/ /\ remsRequest # None
       /\ Task("readRems", "writeRems")
       /\ command' = remsRequest
       /\ UNCHANGED <<mode, link, currentState, remsRequest, setpoint, schedule, inverter,
                      failures, requests>>
WriteRems ==
    \/ /\ Task("writeRems", "clearRems") /\ command' = None
       /\ power' = command /\ UNCHANGED battery
       /\ UNCHANGED <<mode, link, currentState, remsRequest, setpoint, schedule, failures,
                      requests>>
    \/ /\ Throws("writeRems") /\ Fails
       /\ power' \in {power, command} /\ UNCHANGED battery
ClearRems ==
    /\ Task("clearRems", "end")
    /\ remsRequest' = None
    /\ UNCHANGED <<mode, link, currentState, setpoint, schedule, command, inverter,
                   failures, requests>>

\* The end of a run: the connection is closed once in a while.
CloseLate == communicationCycle > ReconnectionInterval  \* mutant: counted too late
CloseDue == communicationCycle + 1 > ReconnectionInterval
EndRun ==
    /\ Task("end", "idle")
    /\ IF CloseDue
       THEN connected' = FALSE /\ communicationCycle' = 0
       ELSE communicationCycle' = communicationCycle + 1 /\ UNCHANGED connected
    /\ UNCHANGED <<mode, currentState, remsRequest, setpoint, schedule, command, inverter,
                   failures, requests>>

Run == \/ BeginRun \/ Poll \/ Branch \/ Control \/ RequestSystemState \/ Safety
       \/ WritePower \/ ClearWrite \/ CheckRems \/ ReadRems \/ WriteRems \/ ClearRems \/ EndRun

---------------------------------------------------------------------------
(* The bus thread. *)

Request == requests < MaxRequests /\ requests' = requests + 1 /\ UNCHANGED failures

\* setDriverState: nothing when the state matches.  The call of main is the first one.
\* Only switching off is counted: every switching on needs one before.
SetDriverState(state) ==
    /\ switch = "idle"
    /\ state # driverState /\ driverState' = state
    /\ IF state = "On" THEN switch' = "forget" /\ UNCHANGED <<failures, requests>>
       ELSE Request /\ UNCHANGED switch
    /\ UNCHANGED <<link, currentState, remsRequest, setpoint, schedule, task, inverter>>
SwitchOnAtStart ==
    /\ switch = "boot"
    /\ driverState' = "On" /\ switch' = "forget"
    /\ UNCHANGED <<link, currentState, remsRequest, setpoint, schedule, task, inverter, failures,
                   requests>>

\* "forget REMS commands", and repeat the request of the driver.
NoRepetition == UNCHANGED writeToModbus  \* mutant
RepeatRequest == writeToModbus' = TRUE
ForgetRems ==
    /\ switch = "forget"
    /\ switch' = IF connected THEN "idle" ELSE "poll"
    /\ remsRequest' = None
    /\ RepeatRequest
    /\ UNCHANGED <<driverState, link, currentState, realPowerReq, schedule, task, inverter,
                   failures, requests>>
PollOnSwitch ==
    /\ switch = "poll" /\ switch' = "idle"
    /\ \/ /\ connected' = TRUE /\ communicationCycle' = 0
          /\ \/ currentState' = battery /\ Succeeds
             \/ currentState' = None /\ Fails
       \/ UNCHANGED <<link, currentState>> /\ Fails
    /\ UNCHANGED <<driverState, remsRequest, setpoint, schedule, task, inverter, requests>>

SetRemsRequest(p) ==
    /\ switch \in {"boot", "idle"} /\ driverState = "Standby" /\ Request
    /\ remsRequest' = p
    /\ UNCHANGED <<mode, link, currentState, setpoint, schedule, task, inverter>>

\* The power scheduled for now changes: by a call, by the battery scheduler, or because
\* the time of the next entry has come.
SchedulePower(p) ==
    /\ Request
    /\ p # scheduled /\ scheduled' = p
    /\ UNCHANGED <<mode, link, currentState, remsRequest, setpoint, intervention, task, inverter>>

Switching == SwitchOnAtStart \/ ForgetRems \/ PollOnSwitch

\* A driver that starts again, with a schedule restored from its file.
Restart ==
    /\ Fails
    /\ driverState' = "Standby" /\ switch' = "boot"
    /\ connected' = FALSE /\ communicationCycle' = 0
    /\ currentState' = None /\ remsRequest' = None
    /\ realPowerReq' = 0 /\ writeToModbus' = FALSE /\ intervention' = FALSE
    /\ pc' = "idle" /\ command' = None
    /\ scheduled' \in Power
    /\ UNCHANGED <<inverter, requests>>

---------------------------------------------------------------------------
(* The inverter and the battery. *)

Device(state) ==
    /\ battery' = state
    /\ UNCHANGED <<mode, link, currentState, remsRequest, setpoint, schedule, task, power,
                   requests>>

FollowRegister ==
    /\ battery.realPower # IF battery.systemState = "Off" THEN 0 ELSE power
    /\ Device([battery EXCEPT !.realPower = IF battery.systemState = "Off" THEN 0 ELSE power])
    /\ Succeeds

ChangeSoc ==
    /\ battery.stateOfCharge - battery.realPower \in 0..FullSoc
    /\ battery.realPower # 0
    /\ Device([battery EXCEPT !.stateOfCharge = @ - battery.realPower])
    /\ Succeeds

SwitchOff ==
    /\ Fails
    /\ battery.systemState # "Off"
    /\ Device([battery EXCEPT !.systemState = "Off"])

DriverNext ==
    \/ Run
    \/ \E state \in {"On", "Standby"} : SetDriverState(state)
    \/ Switching
    \/ \E p \in Power : SetRemsRequest(p) \/ SchedulePower(p)
    \/ Restart
    \/ FollowRegister \/ ChangeSoc \/ SwitchOff

DriverSpec == DriverInit /\ [][DriverNext]_driverVars

InBounds == battery.stateOfCharge \in MinSoc..MaxSoc

\* The threads of the driver run and the inverter follows its register.  How fast the
\* SOC changes depends on the battery: only out of bounds it is assumed to change at all.
FairDriverSpec ==
    /\ DriverSpec
    /\ WF_driverVars(Run) /\ WF_driverVars(Switching)
    /\ WF_driverVars(FollowRegister) /\ WF_driverVars(~InBounds /\ ChangeSoc)

---------------------------------------------------------------------------
(* Properties. *)

DriverTypeOK ==
    /\ driverState \in {"On", "Standby"} /\ switch \in {"boot", "idle", "forget", "poll"}
    /\ connected \in BOOLEAN /\ communicationCycle \in 0..ReconnectionInterval
    /\ currentState \in Measurement \cup {None}
    /\ remsRequest \in Power \cup {None}
    /\ realPowerReq \in Power /\ writeToModbus \in BOOLEAN /\ intervention \in BOOLEAN
    /\ pc \in {"idle", "poll", "branch", "control", "system", "safety", "write", "clear",
               "rems", "readRems", "writeRems", "clearRems", "end"}
    /\ command \in Power \cup {None} /\ (command # None <=> pc = "writeRems")
    /\ scheduled \in Power
    /\ power \in Power /\ battery \in Measurement
    /\ failures \in 0..MaxFailures /\ requests \in 0..MaxRequests

\* No request gets lost between the threads: while the driver is on, what it requests is
\* in the inverter or still marked to be written, whatever REMS has written before or is
\* writing just now, and whichever writes have failed.
RequestWrittenOrPending ==
    driverState = "On" /\ switch # "forget" /\ ~writeToModbus => power = realPowerReq

\* The battery follows its schedule: from any state in which failures, faults, switching
\* and REMS have left driver and inverter, once the schedule and the driver state last.
FollowsSchedule ==
    \A p \in Power :
        <>[](driverState = "On" /\ scheduled = p
             /\ MinSoc < battery.stateOfCharge /\ battery.stateOfCharge < MaxSoc)
          => <>[](power = -p)

\* "Action is only taken if SOC < min" (or > max): an operating driver brings the SOC back
\* between its bounds again and again, against any schedule.
ReturnsIntoBounds == <>[](driverState = "On") => []<>InBounds
=============================================================================
