--------------------------- MODULE BatteryScheduler ---------------------------
(***************************************************************************)
(* The battery scheduler.  For every day it offers one flexibility and     *)
(* keeps one task, what the energy management system (BEMS) has ordered    *)
(* for that day, and beside them the scheduled power, which the battery    *)
(* follows.  The bus thread offers, schedules, adapts and sets targets; a  *)
(* periodic run sweeps what is over and repairs the schedule where it      *)
(* would leave the bounds of the battery.  They share the data, and some   *)
(* of the steps on the bus thread do not take the lock.                    *)
(*                                                                         *)
(* A power times a time is an energy in watt seconds: what the battery     *)
(* holds, a corridor and a target are counted in them.  The scheduler      *)
(* counts in watt hours, rounded towards 0 for every entry, from a         *)
(* measurement of whole percents.  The times in a task, and in the         *)
(* corridors of a flexibility, are relative to the start of its day.  All  *)
(* days are equally long.  There is a measurement of the battery, and it   *)
(* follows its schedule but for Drift.  A call takes less than a day.      *)
(*                                                                         *)
(* A save cuts the file and then writes it, and both may fail unnoticed; a *)
(* thread that saves holds the lock.  Two new days of one offer are saved  *)
(* as one.  What can only be read is left out, and so is the message that  *)
(* a run has changed the schedule.                                         *)
(***************************************************************************)
EXTENDS SortedMaps
LOCAL INSTANCE FiniteSetsExt

CONSTANTS
    DayLength,             \* of a day
    Hour,                  \* seconds in an hour
    Percent,               \* watt hours in a percent of nominalCapacity
    MinEnergy, MaxEnergy,  \* what minStateOfCharge and maxStateOfCharge stand for, in Wh
    FullEnergy,            \* of a full battery, in Wh
    InitialEnergy,         \* what the battery may hold at first, in Ws
    Buffer,                \* flexibilityEnergyBuffer, in Wh
    Step,                  \* the 100 W that powers are a multiple of
    MaxPower,              \* maxFlexibilityCharge and maxFlexibilityDischarge
    Limit,                 \* the greatest int
    MaxTime,               \* bound on the clock
    MaxFailures,           \* bound on saves that fail
    MaxEvents,             \* bound on them, calls, drifts of the battery and restarts together
    None                   \* null

ASSUME BatterySchedulerAssumption ==
    /\ DayLength \in Nat \ {0} /\ Hour \in Nat \ {0} /\ Percent \in Nat \ {0}
    /\ Step \in Nat \ {0} /\ MaxPower \in Nat /\ MaxPower % Step = 0
    /\ MinEnergy \in Nat /\ MaxEnergy \in Nat /\ FullEnergy \in Nat /\ Buffer \in Nat
    /\ MinEnergy < MaxEnergy /\ MaxEnergy < FullEnergy /\ InitialEnergy \subseteq 0..(FullEnergy * Hour)
    /\ Limit \in Nat /\ MaxTime \in Nat /\ DayLength <= MaxTime
    /\ MaxEvents \in Nat /\ MaxFailures \in Nat /\ None # [op |-> "save"]

Power == {p \in -MaxPower..MaxPower : p % Step = 0}

VARIABLES
    now,        \* the clock
    stored,     \* the energy in the battery, in Ws
    data,       \* the BatterySchedulerData
    file,       \* the data in the file, and whether it is whole
    silent,     \* history: the last save has failed, or the process has ended in it
    call,       \* the call the bus thread is in the middle of, or None
    run,        \* the periodic run: "idle", "fix", "target" or "save"
    published,  \* history: the ids that getSchedule has returned, with the day of each
    followed,   \* history: as long as the schedule is as the last repair has left it, the
                \* number of its entries that were followed since; else 0
    events, failures  \* count what is bounded

disk == <<file, silent, failures>>
vars == <<now, stored, data, disk, call, run, published, followed, events>>

\* A new BatterySchedulerData; no target is 0.
NewData ==
    [idCounter |-> 0, targetSOC |-> 0, targetSocTime |-> 0, scheduledPower |-> Put(EmptyMap, 0, 0),
     tasks |-> EmptyMap, flexibilities |-> EmptyMap]

\* The first day begins at DayLength, long after time 0.
Init ==
    /\ now = DayLength /\ stored \in InitialEnergy
    /\ data = NewData /\ file = [whole |-> TRUE, data |-> NewData] /\ silent = FALSE
    /\ call = None /\ run = "idle"
    /\ published = {} /\ followed = 0
    /\ events = 0 /\ failures = 0

---------------------------------------------------------------------------
(* Maps from times to powers, and the arithmetic of ints. *)

FloorKey(map, t) == CHOOSE k \in FloorKeys(map, t) : TRUE
At(map, t) == map[FloorKey(map, t)]
Later(map, t) == {k \in DOMAIN map : k > t}
NextKey(map, t) == CHOOSE k \in Later(map, t) : \A j \in Later(map, t) : k <= j
\* subMap(first, last), removed
Outside(map, first, last) == [k \in {j \in DOMAIN map : j < first \/ j > last} |-> map[k]]
PutAll(map, new) == [k \in DOMAIN map \cup DOMAIN new |-> IF k \in DOMAIN new THEN new[k] ELSE map[k]]
Shifted(map, t) == [k \in {j + t : j \in DOMAIN map} |-> map[k - t]]
Zeroed(map, keys) == [k \in DOMAIN map |-> IF k \in keys THEN 0 ELSE map[k]]
Smaller(a, b) == IF a < b THEN a ELSE b

\* Division of ints, and the conversion of a quotient to int: towards 0.
Abs(a) == Larger(a, -a)
Quotient(a, b) == IF (a < 0) = (b < 0) THEN Abs(a) \div Abs(b) ELSE -(Abs(a) \div Abs(b))
Remainder(a, b) == a - b * Quotient(a, b)
\* An int that overflows starts again at the other end.
Wrapped(a) == ((a + Limit + 1) % (2 * (Limit + 1))) - (Limit + 1)

\* The energy taken up until t.
Energy(map, t) ==
    LET sum[u \in Nat] == IF u = 0 THEN 0 ELSE sum[u - 1] + At(map, u - 1) IN sum[t]

\* Task.compress: removes entries that repeat the power before.  The entry at 0, which
\* is fixed, does not count as one: the first after it is removed if its power is 0.
Compressed(power) ==
    LET previous(k) == IF {j \in DOMAIN power : 0 < j /\ j < k} = {} THEN 0 ELSE At(power, k - 1)
    IN  [k \in {j \in DOMAIN power : j \in {0, DayLength} \/ power[j] # previous(j)} |-> power[k]]

---------------------------------------------------------------------------
(* Flexibilities.  The power corridor says from when on any power is offered. *)

Unlimited == [min |-> -Limit, max |-> Limit]

\* What the battery can give and take when it holds energy e.
Available(e) == [min |-> -(e - MinEnergy - Buffer) * Hour, max |-> (MaxEnergy - e - Buffer) * Hour]

\* getEnergyConstraint: between two entries the corridor is interpolated.
EnergyConstraint(corridor, t) ==
    LET floor == FloorKey(corridor, t)
        higher == NextKey(corridor, t)
        between(a, b) == Quotient((higher - t) * a + (t - floor) * b, higher - floor)
    IN  IF Later(corridor, t) = {} THEN corridor[floor]
        ELSE [min |-> between(corridor[floor].min, corridor[higher].min),
              max |-> between(corridor[floor].max, corridor[higher].max)]

\* Flexibility.checkValidity: no power where none is offered, and at every entry of the
\* powers and of the corridor an energy within the corridor, counted from the start.
Valid(flexibility, power) ==
    /\ 0 \in DOMAIN power /\ DayLength \in DOMAIN power
    /\ power[DayLength] = 0 /\ Later(power, DayLength) = {}
    /\ \A t \in DOMAIN power \cup DOMAIN flexibility.powerCorridor :
           At(flexibility.powerCorridor, t) \/ At(power, t) = 0
    /\ \A t \in (DOMAIN power \cup DOMAIN flexibility.energyCorridor) \ {0} :
           LET constraint == EnergyConstraint(flexibility.energyCorridor, t)
           IN  constraint.min <= Energy(power, t) /\ Energy(power, t) <= constraint.max

---------------------------------------------------------------------------
(* Saving, with the lock.  The data are turned into text, the file is cut, and written; when *)
(* it cannot be opened, or not be written, the save ends as if nothing had happened.         *)

Saving == [op |-> "save"]
Unlocked == call # Saving /\ run # "save"

Truncate(d) == file' = [whole |-> FALSE, data |-> d] /\ UNCHANGED <<silent, failures>>
Close == file' = [file EXCEPT !.whole = TRUE] /\ silent' = FALSE /\ UNCHANGED failures
Fail ==
    /\ failures < MaxFailures /\ events + failures < MaxEvents
    /\ failures' = failures + 1 /\ silent' = TRUE /\ UNCHANGED file

\* A save by the bus thread, which ends its call, and one by the periodic run, which ends it.
CallSaves(d) == (Truncate(d) /\ call' = Saving) \/ (Fail /\ call' = None)
RunSaves(d) == (Truncate(d) /\ run' = "save") \/ (Fail /\ run' = "idle")
CallSaved ==
    /\ call = Saving /\ call' = None /\ (Close \/ Fail)
    /\ UNCHANGED <<now, stored, data, run, published, followed, events>>
RunSaved ==
    /\ run = "save" /\ run' = "idle" /\ (Close \/ Fail)
    /\ UNCHANGED <<now, stored, data, call, published, followed, events>>

---------------------------------------------------------------------------
(* The bus thread: offers. *)

Event == events + failures < MaxEvents /\ events' = events + 1
Call == call = None /\ Event
Changed(new) ==
    /\ data' = new
    /\ followed' = IF new.scheduledPower = data.scheduledPower THEN followed ELSE 0

\* The measurement, a whole percent, in Wh.
Measured == (stored \div (Hour * Percent)) * Percent

StartOf(t) == t - (t % DayLength)
\* getTaskIdForTime; two tasks meet at midnight, and the map has no order.
TasksAt(d, t, endInclusive) ==
    {id \in DOMAIN d.tasks :
        LET start == d.tasks[id].startingTime
        IN  start <= t /\ (t < start + DayLength \/ (endInclusive /\ t = start + DayLength))}

\* The schedule as it is followed, entry after entry: the times from now on at which an
\* entry is in force until the next one, and the energy that it takes until then.
Times(schedule) == {now} \cup Later(schedule, now)
Followed(schedule) == {t \in Times(schedule) : Later(schedule, t) # {}}
Taken(schedule, t) == Quotient((NextKey(schedule, t) - t) * At(schedule, t), Hour)

\* getExpectedStoredEnergy: with any time in the future, the whole schedule is taken off.
ExpectedStoredEnergy(d, t) ==
    IF t <= now THEN Measured
    ELSE Measured - MapThenSumSet(LAMBDA u : Taken(d.scheduledPower, u), Followed(d.scheduledPower))

\* addFlexibilityForDay: a flexibility and a task of no power, in the data it returns.
Offered(d, start) ==
    [powerCorridor |-> Put(EmptyMap, 0, TRUE),
     energyCorridor |-> Put(EmptyMap, 0, Available(ExpectedStoredEnergy(d, start)))]
AddedForDay(d, t) ==
    LET start == StartOf(t)
    IN  [d EXCEPT !.idCounter = @ + 1,
                  !.flexibilities = Put(@, d.idCounter, Offered(d, start)),
                  !.tasks = Put(@, d.idCounter, [startingTime |-> start, power |-> Put(EmptyMap, 0, 0)]),
                  !.scheduledPower = Put(@, start, 0)]
WithTaskAt(d, t, endInclusive) == IF TasksAt(d, t, endInclusive) = {} THEN AddedForDay(d, t) ELSE d

\* The corridors of the first day of a request: what is possible from now on, or from the
\* time of the target on; what lies before is closed, with no limit to its energy.
Polled(d, start) ==
    LET pending == now < d.targetSocTime /\ d.targetSOC > 0
        open == (IF pending THEN d.targetSocTime ELSE now) - start
        available == Available(Measured)
    IN  [powerCorridor |-> Put(Put(EmptyMap, 0, FALSE), Larger(open, 0), TRUE),
         energyCorridor |->
            Put(Put(Put(EmptyMap, 0, Unlimited), Larger(open - 1, 0), Unlimited), Larger(open, 0),
                [min |-> Smaller(0, available.min), max |-> Larger(0, available.max)])]

\* The corridors of a later day keep the entries they have.
PolledLater(d, flexibility, start) ==
    [powerCorridor |->
        IF start < d.targetSocTime /\ d.targetSOC > 0
        THEN Put(Put(flexibility.powerCorridor, 0, FALSE), d.targetSocTime - start, TRUE)
        ELSE Put(flexibility.powerCorridor, 0, TRUE),
     energyCorridor |->
        Put(flexibility.energyCorridor, 0, Available(ExpectedStoredEnergy(d, start)))]

\* Only a new flexibility is saved.
SavedBefore(new) == data  \* mutant: before the data has changed
SavedAfter(new) == new
GetSchedule(from, to) ==
    /\ Call /\ Unlocked
    /\ LET added == WithTaskAt(WithTaskAt(data, from, FALSE), to, TRUE)
           start(id) == added.tasks[id].startingTime
       IN  \E first \in TasksAt(added, from, FALSE), last \in TasksAt(added, to, TRUE) :
             /\ Changed([added EXCEPT !.flexibilities =
                    [id \in DOMAIN @ |->
                        IF id = first THEN Polled(added, start(id))
                        ELSE IF id = last THEN PolledLater(added, @[id], start(id)) ELSE @[id]]])
             /\ IF added.idCounter = data.idCounter THEN UNCHANGED <<call, disk>>
                ELSE CallSaves(SavedAfter(added))
             /\ published' = published \cup {[id |-> id, start |-> start(id)] : id \in {first, last}}
    /\ UNCHANGED <<now, stored, run>>

---------------------------------------------------------------------------
(* The bus thread: orders. *)

\* scheduleFlexibility, with the starting time of the task: the task is replaced and
\* compressed, then, with the lock, the schedule of its day is replaced by the powers of
\* the task, which are in the same map.
BeginSchedule(id, power) ==
    /\ Call
    /\ id \in DOMAIN data.flexibilities
    /\ data.tasks[id].startingTime >= now
    /\ Valid(data.flexibilities[id], power)
    /\ Changed([data EXCEPT !.tasks[id].power = Compressed(power)])
    /\ call' = [op |-> "schedule", id |-> id, start |-> data.tasks[id].startingTime,
                powers |-> EmptyMap, updated |-> EmptyMap]
    /\ UNCHANGED <<now, stored, disk, run, published>>
EndSchedule ==
    /\ call # None /\ call.op = "schedule" /\ Unlocked
    /\ Changed([data EXCEPT !.scheduledPower =
            PutAll(Outside(@, call.start, call.start + DayLength),
                   Shifted(data.tasks[call.id].power, call.start))])
    /\ CallSaves(data')
    /\ UNCHANGED <<now, stored, run, published, events>>

\* adaptScheduledFlexibility: the powers, whose last entry only marks the end, are merged
\* into a copy of the task's, and tested; then, with the lock, task and schedule take them.
BeginAdapt(id, powers) ==
    /\ Call
    /\ id \in DOMAIN data.flexibilities
    /\ LET power == data.tasks[id].power
           first == CHOOSE k \in DOMAIN powers : \A j \in DOMAIN powers : k <= j
           last == CHOOSE k \in DOMAIN powers : Later(powers, k) = {}
           ended == Put(powers, last, At(power, last))
           updated == PutAll(Outside(power, first, last), ended)
       IN  /\ Valid(data.flexibilities[id], updated)
           /\ call' = [op |-> "adapt", id |-> id, start |-> data.tasks[id].startingTime,
                       powers |-> ended, updated |-> updated]
    /\ UNCHANGED <<now, stored, data, disk, run, published, followed>>
EndAdapt ==
    /\ call # None /\ call.op = "adapt" /\ Unlocked /\ call' = None
    /\ LET powers == Shifted(call.powers, call.start)
           first == CHOOSE k \in DOMAIN powers : \A j \in DOMAIN powers : k <= j
           last == CHOOSE k \in DOMAIN powers : Later(powers, k) = {}
       IN  Changed([data EXCEPT
                !.tasks = [id \in DOMAIN @ |->
                    IF id = call.id THEN [@[id] EXCEPT !.power = Compressed(call.updated)] ELSE @[id]],
                !.scheduledPower = PutAll(Outside(@, first, last), powers)])
    /\ UNCHANGED <<now, stored, disk, run, published, events>>

UnscheduleFlexibility(id) ==
    /\ Call /\ Unlocked
    /\ id \in DOMAIN data.tasks
    /\ LET start == data.tasks[id].startingTime
       IN  /\ start >= now
           /\ Changed([data EXCEPT !.scheduledPower = Outside(@, start, start + DayLength),
                                   !.tasks[id].power = Put(EmptyMap, 0, 0)])
    /\ CallSaves(data')
    /\ UNCHANGED <<now, stored, run, published>>

\* schedulePower, by the bus thread or by the driver when it intervenes.
SchedulePower(power) ==
    /\ Call /\ Unlocked
    /\ Changed([data EXCEPT !.scheduledPower = Put(@, now, power)])
    /\ UNCHANGED <<now, stored, disk, call, run, published>>

---------------------------------------------------------------------------
(* setTargetSoc. *)

\* "to next 100 W step", which it is not: the power may be no multiple of Step.
AveragePower(change, duration) ==
    LET average == Quotient(change, duration)
    IN  IF average < 0 THEN Larger(average - (Remainder(average, Step) - Step), -MaxPower)
        ELSE Smaller(average + (Remainder(average, Step) - Step), MaxPower)

\* The loop, from a time and an energy that is left to charge on.  It divides by the power:
\* when that is 0 it throws, after putting it.
Loop(plan, at, rest, time) ==
    LET power == AveragePower(rest, time - at)
        step == Abs(Quotient(rest, power)) + 1
    IN  IF power = 0 THEN Put(EmptyMap, at, 0)
        ELSE IF at + step < time
        THEN Put(plan[[at |-> at + step, rest |-> rest - power * step]], at, power)
        ELSE Put(Put(EmptyMap, time, 0), at, power)
Charging(time) ==
    LET plan[s \in [at : 0..(time - 1), rest : Int]] == Loop(plan, s.at, s.rest, time) IN plan

\* The change of a percentage is multiplied first, by the capacity and the hour, and divided
\* by 100 then: in between it may overflow.
Change(soc) == Quotient(Wrapped((soc - Measured) * 100 * Hour), 100)

\* A time that has come makes it throw at once; what throws is not saved.
Plan(soc, time) ==
    IF time > now THEN Charging(time)[[at |-> now, rest |-> Change(soc)]] ELSE EmptyMap
Completes(soc, time) == time \in DOMAIN Plan(soc, time)
SetTarget(soc, time) ==
    Changed([data EXCEPT !.targetSOC = soc, !.targetSocTime = time,
        !.scheduledPower = IF time > now THEN PutAll(Outside(@, now, time - 1), Plan(soc, time)) ELSE @])
SetTargetSoc(soc, time) ==
    /\ Call /\ Unlocked /\ SetTarget(soc, time)
    /\ IF Completes(soc, time) THEN CallSaves(data') ELSE UNCHANGED <<call, disk>>
    /\ UNCHANGED <<now, stored, run, published>>

---------------------------------------------------------------------------
(* The periodic run. *)

\* The first part takes the lock to remove finished tasks and old entries of the schedule.
Finished(start) == now > start + DayLength
SweptAll(k) == k + DayLength < now  \* mutant: the entry of a new schedule, too
Swept(k) == k # 0 /\ k + DayLength < now
Sweep ==
    /\ run = "idle" /\ Unlocked
    /\ run' = IF data.targetSocTime > now /\ data.targetSOC > 0 THEN "target" ELSE "fix"
    /\ LET over == {id \in DOMAIN data.tasks : Finished(data.tasks[id].startingTime)}
       IN  Changed([data EXCEPT
                !.tasks = [id \in DOMAIN @ \ over |-> @[id]],
                !.flexibilities = [id \in DOMAIN @ \ over |-> @[id]],
                !.scheduledPower = [k \in {j \in DOMAIN @ : ~Swept(j)} |-> @[k]]])
    /\ UNCHANGED <<now, stored, disk, call, published, events>>

RunTarget ==
    /\ run = "target" /\ Unlocked
    /\ SetTarget(data.targetSOC, data.targetSocTime)
    /\ IF Completes(data.targetSOC, data.targetSocTime) THEN RunSaves(data')
       ELSE run' = "idle" /\ UNCHANGED disk
    /\ UNCHANGED <<now, stored, call, published, events>>

\* fixSchedule: the schedule is followed from now on; a power that would lead out of the
\* bounds is replaced by 0, in the schedule and in the task.
LeadsOutLate(energy, next, power) ==  \* mutant: the energy before the step is tested
    (energy > MaxEnergy /\ power > 0) \/ (energy < MinEnergy /\ power < 0)
LeadsOut(energy, next, power) ==
    (next > MaxEnergy /\ power > 0) \/ (next < MinEnergy /\ power < 0)
\* The energy when the schedule is followed without such powers, at its times from now on.
After(schedule, energy, t) == energy + Taken(schedule, t)
Leads(schedule, energy, t) == LeadsOut(energy, After(schedule, energy, t), At(schedule, t))
EnergyAt(schedule, energy, t) ==
    LET before == CHOOSE k \in Times(schedule) : k < t /\ \A j \in Times(schedule) : j < t => j <= k
    IN  IF t = now THEN Measured
        ELSE IF Leads(schedule, energy[before], before) THEN energy[before]
        ELSE After(schedule, energy[before], before)
RepairedEnergy(schedule) ==
    LET energy[t \in Times(schedule)] == EnergyAt(schedule, energy, t) IN energy
\* The times at which such a power begins, but for the power of the last entry.
Illegal(schedule) ==
    LET energy == RepairedEnergy(schedule)
    IN  {t \in Followed(schedule) : Leads(schedule, energy[t], t)}

Fixed(d) ==
    LET illegal == Illegal(d.scheduledPower)
        hit(id) == {FloorKey(d.tasks[id].power, t - d.tasks[id].startingTime) :
                       t \in {u \in illegal : id \in TasksAt(d, u, FALSE)}}
        reflected(id) == Zeroed(d.tasks[id].power, hit(id))
    IN  [d EXCEPT !.scheduledPower = Zeroed(@, {FloorKey(d.scheduledPower, t) : t \in illegal}),
                  !.tasks = [id \in DOMAIN @ |->
                      [@[id] EXCEPT !.power = IF id \in TasksAt(d, now, FALSE)
                                              THEN Compressed(reflected(id)) ELSE reflected(id)]]]

FixSchedule ==
    /\ run = "fix" /\ Unlocked
    /\ data' = Fixed(data) /\ followed' = 1
    /\ RunSaves(data')
    /\ UNCHANGED <<now, stored, call, published, events>>

\* The driver starts again, with the data in the file or, when it is cut, with new ones.  What
\* the file has not got, because of a save that failed or that did not end, is given up.
Restart ==
    /\ Event
    /\ data' = IF file.whole THEN file.data ELSE NewData
    /\ silent' = ~file.whole
    /\ published' = IF ~file.whole THEN {}
                    ELSE IF silent THEN {p \in published : p.id < file.data.idCounter} ELSE published
    /\ call' = None /\ run' = "idle" /\ followed' = 0
    /\ UNCHANGED <<now, stored, file, failures>>

---------------------------------------------------------------------------
(* Time and the battery. *)

Tick ==
    /\ now < MaxTime /\ now' = now + 1
    /\ call # None /\ call.op = "schedule" => now < call.start + DayLength
    /\ stored' = Larger(0, Smaller(FullEnergy * Hour, stored + At(data.scheduledPower, now)))
    /\ followed' = IF followed > 0 /\ now' \in DOMAIN data.scheduledPower THEN followed + 1 ELSE followed
    /\ UNCHANGED <<data, disk, call, run, published, events>>

\* The battery does not follow, or loses energy.
Drift ==
    /\ Event
    /\ stored' \in {stored - Step, stored + Step} \cap 0..(FullEnergy * Hour)
    /\ followed' = 0
    /\ UNCHANGED <<now, data, disk, call, run, published>>

\* The powers that are ordered: of a whole day, and of a part of it.
DayPowers == {Put(power, DayLength, 0) : power \in [0..(DayLength - 1) -> Power]}
PartPowers(first, last) == {Put(Put(EmptyMap, first, p), last, 0) : p \in Power}

\* Schedules are asked for from now or from midnight on, up to a midnight within two days.
Offers ==
    LET midnights == {StartOf(now) + n * DayLength : n \in 1..3}
    IN  \E from \in {now, StartOf(now) + DayLength}, to \in midnights :
            from < to /\ to - from <= 2 * DayLength /\ GetSchedule(from, to)
Orders ==
    \E id \in DOMAIN data.tasks :
        \/ \E power \in DayPowers : BeginSchedule(id, power)
        \/ \E last \in 1..DayLength : \E first \in 0..(last - 1) :
               \E powers \in PartPowers(first, last) : BeginAdapt(id, powers)
        \/ UnscheduleFlexibility(id)
Targets == \E soc \in {MinEnergy, MaxEnergy}, time \in (now + 1)..MaxTime : SetTargetSoc(soc, time)
Powers == \E power \in Power : SchedulePower(power)
Run == Sweep \/ RunTarget \/ FixSchedule \/ RunSaved

Next ==
    \/ Offers \/ Orders \/ EndSchedule \/ EndAdapt \/ Targets \/ Powers \/ CallSaved
    \/ Run \/ Restart
    \/ Tick \/ Drift

Spec == Init /\ [][Next]_vars

---------------------------------------------------------------------------
(* Properties. *)

\* There is always a power in force, in memory and in the file: without an entry up to
\* now the driver and every run would fail, and no sweep may remove the last one.
DataOK(d) ==
    /\ d.idCounter \in Nat /\ d.targetSOC \in 0..FullEnergy /\ d.targetSocTime \in 0..MaxTime
    /\ DOMAIN d.tasks = DOMAIN d.flexibilities
    /\ \A id \in DOMAIN d.tasks :
           /\ id < d.idCounter /\ d.tasks[id].startingTime % DayLength = 0
           /\ DOMAIN d.tasks[id].power \subseteq 0..DayLength /\ 0 \in DOMAIN d.tasks[id].power
           /\ \A k \in DOMAIN d.tasks[id].power : d.tasks[id].power[k] \in Power
    /\ \A k \in DOMAIN d.scheduledPower : k \in Nat /\ Abs(d.scheduledPower[k]) <= Larger(MaxPower, Step)
    /\ FloorKeys(d.scheduledPower, now) # {}
TypeOK ==
    /\ now \in 0..MaxTime /\ stored \in 0..(FullEnergy * Hour)
    /\ DataOK(data) /\ DataOK(file.data) /\ file.whole \in BOOLEAN /\ silent \in BOOLEAN
    /\ call # None =>
           \/ call.op \in {"adapt", "save"}
           \/ call.op = "schedule" /\ call.id \in DOMAIN data.tasks
    /\ run \in {"idle", "fix", "target", "save"} /\ followed \in Nat
    /\ \A p \in published : p.id \in Nat /\ p.start \in Nat
    /\ events \in 0..MaxEvents /\ failures \in 0..MaxFailures

\* An id that was given out stands for the task of its day, and for no other, until the
\* day is over, whatever was ordered since and however often the driver has restarted; only
\* a restart may forget it, after a save that failed unnoticed or that it has cut short.
PublishedTasksLast ==
    \A p \in published : p.start + DayLength >= now =>
        /\ p.id \in DOMAIN data.tasks
        /\ \A id \in DOMAIN data.tasks : (data.tasks[id].startingTime = p.start) <=> (id = p.id)

\* As long as a schedule is followed as the last run has left it, it drives the battery out
\* of its bounds by no more than is rounded off, up to its last entry: the power of that one
\* is not tested.  What is rounded off is less than a percent when the battery is measured,
\* and less than a watt hour for every entry that is followed.
NeverDrivenOut ==
    [][now' > now /\ followed > 0 /\ Later(data.scheduledPower, now) # {} =>
           LET rounded == followed * (Hour - 1)
           IN  /\ stored' > stored => stored' <= MaxEnergy * Hour + (Percent * Hour - 1) + rounded
               /\ stored' < stored => stored' >= MinEnergy * Hour - rounded]_vars
=============================================================================
