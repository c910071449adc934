---------------------------- MODULE EnabledSignal ----------------------------
(***************************************************************************)
(* How the grid control unit (GCU) switches the local control on and off.  *)
(* It writes coils of the Modbus slave; together they form a register, and *)
(* two of its values are signals: no coil set enables, all set disables.   *)
(* A change of the signal is passed to the scheduler, which remembers it   *)
(* and tells the driver of the controllable device by a remote call.  A    *)
(* call that fails is repeated later with the value it had, and a periodic *)
(* job of the scheduler sends the current signal anyway.                   *)
(*                                                                         *)
(* One thread serves Modbus (the configured default), so a coil is written *)
(* and the listeners are called before the next write is read.  The end of *)
(* Scheduler.run, which sets signal and coils from the saved state, is one *)
(* step: it is assumed to run while no write is being processed.           *)
(***************************************************************************)
EXTENDS Integers, Sequences

CONSTANTS
    Width,       \* number of coils, 16 in the code
    MaxWrites,   \* bound on the coils written by the GCU
    MaxErrors,   \* bound on failing calls
    MaxRestarts, \* bound on restarts of the driver
    MaxCalls     \* bound on the calls in flight, for the periodic job

ASSUME SignalAssumption ==
    /\ Width \in Nat \ {0} /\ MaxCalls \in Nat \ {0}
    /\ MaxWrites \in Nat /\ MaxErrors \in Nat /\ MaxRestarts \in Nat

Coils == 0..(Width - 1)
ENABLED_VALUE == {}      \* ENABLED, as the set of the bits that are 1
DISABLED_VALUE == Coils  \* DISABLED

VARIABLES
    register,   \* EnabledRegisterCoil.register: the bits that are 1
    enabled,    \* ModbusEnabledListener.enabled, what isEnabled() returns
    notify,     \* the Modbus thread: the listener calls it still has to make
    written,    \* history: the value written last to each coil
    GCUEnabled, \* SchedulerData.GCUEnabled
    booted,     \* Scheduler.run has propagated the saved state
    rems,       \* the periodic job: the value it has read and not sent, if any
    calls,      \* the setDriverState calls on the bus, in order
    retries,    \* value |-> failed calls that wait for their repetition
    driver,     \* driverState of the battery: TRUE is On, FALSE is Standby
    writes, errors, restarts  \* count what is bounded

counts == <<writes, errors, restarts>>
vars == <<register, enabled, notify, written, GCUEnabled, booted, rems, calls, retries,
          driver, counts>>

Init ==
    /\ register = ENABLED_VALUE /\ enabled = TRUE /\ notify = <<>>
    /\ written = [c \in Coils |-> FALSE]
    /\ GCUEnabled \in BOOLEAN  \* restored
    /\ booted = FALSE /\ rems = <<>> /\ calls = <<>>
    /\ retries = [v \in BOOLEAN |-> 0]
    /\ driver \in BOOLEAN
    /\ writes = 0 /\ errors = 0 /\ restarts = 0

---------------------------------------------------------------------------
(* The Modbus slave. *)

\* register & ((~1) << position): the coil and all coils below it are cleared.
Cleared(c) == {b \in register : b > c}
NextCoilSet(c, value) == IF value THEN register \cup {c + 1} ELSE Cleared(c)  \* mutant
AfterSet(c, value) == IF value THEN register \cup {c} ELSE Cleared(c)

\* Mutants: every value but ENABLED disables; ENABLED is ignored.
AnyCoilDisables(reg) == IF reg = ENABLED_VALUE THEN {TRUE} ELSE {FALSE}
NothingEnables(reg) == IF reg = DISABLED_VALUE THEN {FALSE} ELSE {}
\* The signal a value stands for: most values stand for none.
SignalOf(reg) ==
    IF reg = ENABLED_VALUE THEN {TRUE} ELSE IF reg = DISABLED_VALUE THEN {FALSE} ELSE {}

\* EnabledRegisterCoil.set: a change to another signal sets the flag and is passed on.
WriteCoil(c, value) ==
    /\ notify = <<>> /\ writes < MaxWrites
    /\ writes' = writes + 1
    /\ register' = AfterSet(c, value)
    /\ written' = [written EXCEPT ![c] = value]
    /\ IF register' # register /\ (~enabled) \in SignalOf(register')
       THEN enabled' = ~enabled /\ notify' = <<~enabled>>
       ELSE UNCHANGED <<enabled, notify>>
    /\ UNCHANGED <<GCUEnabled, booted, rems, calls, retries, driver, errors, restarts>>

---------------------------------------------------------------------------
(* The scheduler. *)

\* SchedulerController.setEnabled, called by the listener on the Modbus thread.
SetEnabled ==
    /\ notify # <<>>
    /\ GCUEnabled' = notify[1]
    /\ calls' = calls \o notify
    /\ notify' = <<>>
    /\ UNCHANGED <<register, enabled, written, booted, rems, retries, driver, counts>>

\* The end of Scheduler.run: the saved state is sent to the driver and put into the
\* signal and every coil.
PropagateSaved ==
    /\ ~booted /\ notify = <<>>
    /\ booted' = TRUE
    /\ calls' = Append(calls, GCUEnabled)
    /\ enabled' = GCUEnabled
    /\ register' = IF GCUEnabled THEN ENABLED_VALUE ELSE DISABLED_VALUE
    /\ written' = [c \in Coils |-> ~GCUEnabled]
    /\ UNCHANGED <<notify, GCUEnabled, rems, retries, driver, counts>>

\* The periodic job reads the signal, then it sends it.
ReadSignal ==
    /\ rems = <<>> /\ Len(calls) < MaxCalls
    /\ rems' = <<enabled>>
    /\ UNCHANGED <<register, enabled, notify, written, GCUEnabled, booted, calls, retries,
                   driver, counts>>

SendSignalOnChange ==  \* mutant: skips what the scheduler has already announced
    /\ rems # <<>>
    /\ calls' = IF rems[1] = GCUEnabled THEN calls ELSE calls \o rems
    /\ rems' = <<>>
    /\ UNCHANGED <<register, enabled, notify, written, GCUEnabled, booted, retries, driver,
                   counts>>
SendSignal ==
    /\ rems # <<>>
    /\ calls' = calls \o rems
    /\ rems' = <<>>
    /\ UNCHANGED <<register, enabled, notify, written, GCUEnabled, booted, retries, driver,
                   counts>>

\* onError: the same value again in ten seconds.
Retry(value) ==
    /\ retries[value] > 0
    /\ retries' = [retries EXCEPT ![value] = @ - 1]
    /\ calls' = Append(calls, value)
    /\ UNCHANGED <<register, enabled, notify, written, GCUEnabled, booted, rems, driver, counts>>

---------------------------------------------------------------------------
(* The driver, at the other end of the bus. *)

\* Battery.setDriverState
CallSucceeds ==
    /\ calls # <<>>
    /\ driver' = Head(calls)
    /\ calls' = Tail(calls)
    /\ UNCHANGED <<register, enabled, notify, written, GCUEnabled, booted, rems, retries,
                   counts>>

\* The call ends with an error, whether or not it was carried out.
CallFails ==
    /\ calls # <<>> /\ errors < MaxErrors
    /\ errors' = errors + 1
    /\ driver' \in {driver, Head(calls)}
    /\ retries' = [retries EXCEPT ![Head(calls)] = @ + 1]
    /\ calls' = Tail(calls)
    /\ UNCHANGED <<register, enabled, notify, written, GCUEnabled, booted, rems, writes, restarts>>

\* Battery.main switches the driver on, whatever the signal is.
RestartDriver ==
    /\ restarts < MaxRestarts
    /\ restarts' = restarts + 1
    /\ driver' = TRUE
    /\ UNCHANGED <<register, enabled, notify, written, GCUEnabled, booted, rems, calls, retries,
                   writes, errors>>

Retries == \E v \in BOOLEAN : Retry(v)
Bus == CallSucceeds \/ CallFails

Next ==
    \/ \E c \in Coils, v \in BOOLEAN : WriteCoil(c, v)
    \/ SetEnabled \/ PropagateSaved \/ ReadSignal \/ SendSignal \/ Retries
    \/ Bus \/ RestartDriver

Spec == Init /\ [][Next]_vars

\* The threads and timers of the scheduler run, calls end one way or the other.
FairSpec ==
    /\ Spec
    /\ WF_vars(SetEnabled) /\ WF_vars(PropagateSaved)
    /\ WF_vars(ReadSignal) /\ WF_vars(SendSignal)
    /\ \A v \in BOOLEAN : WF_vars(Retry(v))
    /\ WF_vars(Bus)

---------------------------------------------------------------------------
(* Properties. *)

TypeOK ==
    /\ register \subseteq Coils /\ enabled \in BOOLEAN
    /\ notify \in {<<>>, <<enabled>>}
    /\ written \in [Coils -> BOOLEAN]
    /\ GCUEnabled \in BOOLEAN /\ booted \in BOOLEAN
    /\ rems \in {<<>>} \cup {<<v>> : v \in BOOLEAN}
    /\ calls \in Seq(BOOLEAN)
    /\ retries \in [BOOLEAN -> Nat] /\ retries[TRUE] + retries[FALSE] <= errors
    /\ driver \in BOOLEAN
    /\ writes \in 0..MaxWrites /\ errors \in 0..MaxErrors /\ restarts \in 0..MaxRestarts

AllWritten(value) == \A c \in Coils : written[c] = value

\* Fail-safe of the signal: local control is switched off by a write only when the last
\* value written to every coil was "set", although the writes come one by one, in any
\* order, and the start-up writes the coils too (EnabledRegisterCoil.set, 187-208).
DisabledOnlyWhenAllSet ==
    [][enabled /\ ~enabled' /\ booted = booted' => AllWritten(TRUE)']_vars

\* Once all coils have been cleared, in whatever order, local control is on.
EnabledWhenAllClear == booted /\ AllWritten(FALSE) => enabled

\* The driver ends up in the state of the signal, whatever calls failed, were repeated
\* late with an old value, or were overtaken, and however often the driver restarted.
DriverFollowsSignal ==
    \A v \in BOOLEAN : <>[](enabled = v) => <>[](driver = v)
=============================================================================
