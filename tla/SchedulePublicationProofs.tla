---------------------- MODULE SchedulePublicationProofs ----------------------
(***************************************************************************)
(* For every length of the day, every interval and every number of         *)
(* crashes, reports, answers and failing saves: the state is well typed,   *)
(* at most one thread writes the file at a time, and, unless a save failed *)
(* unnoticed, the file holds the outcome of every attempt from the moment  *)
(* the worker is free for the next job.                                    *)
(***************************************************************************)
EXTENDS SchedulePublication, TLAPS

\* Every publication is for a time that is not empty.
Requests == {r \in Request : r.from < r.to}

TargetType(t) == \A f \in DOMAIN t : f < t[f].to /\ t[f].by \in {"own", "fms"}

DataType(d) ==
    /\ {"latest", "incomplete", "target"} \subseteq DOMAIN d
    /\ d.latest \in [Kind -> Nat]
    /\ d.incomplete \in [Kind -> Requests \cup {None}]
    /\ \A k \in Kind : d.incomplete[k] # None => d.incomplete[k].kind = k
    /\ TargetType(d.target)

QueueType(q) ==
    \A k \in Kind : k \in DOMAIN q /\ \A t \in DOMAIN q[k] : t \in Nat /\ q[k][t] \in Requests

\* What the counters, the clock and the steps of the threads range over.
CountType ==
    /\ clock \in StartTime..MaxTime /\ crashes \in 0..MaxCrashes /\ reports \in 0..MaxReports
    /\ answers \in 0..MaxAnswers /\ failures \in 0..MaxFailures /\ lastUpdate \in Nat /\ cronAt \in Nat

ThreadType ==
    /\ phase \in {"down", "restored", "up", "failed"}
    /\ retry \in [at : {"check", "compare", "drop", "queue", "dead"}, kind : Kind]
    /\ wpc \in {"idle", "solve", "target", "record", "save", "saving"}
    /\ poll \in {"idle", "save", "saving"}
    /\ done \in BOOLEAN

RequestType ==
    /\ request \in Requests \cup {None}
    /\ request # None <=> wpc \in {"solve", "target", "record"}
    /\ published \subseteq Requests

StoreType ==
    /\ DataType(data) /\ DataType(file.data) /\ QueueType(queue)
    /\ {"whole", "data"} \subseteq DOMAIN file

\* A thread that writes the file holds the lock, and the threads of a process that is
\* down write nothing.
SaveLock ==
    /\ file.whole \in BOOLEAN /\ silent \in BOOLEAN
    /\ ~(wpc = "saving" /\ poll = "saving")
    /\ phase # "up" => wpc = "idle"
    /\ phase \notin {"up", "restored"} => poll = "idle"

\* The file f holds the outcome of every attempt that the data d remember.
Holds(f, d) ==
    \A k \in Kind :
        /\ f.latest[k] = d.latest[k]
        /\ d.incomplete[k] # None => f.incomplete[k] = d.incomplete[k]

Writing == wpc = "saving" \/ poll = "saving"

\* Only between Record and the truncation of the file does it not, and from a save that
\* failed to the next truncation: in particular not while the retry job, the FMS or a
\* start-up change the data at the same time.
SavedUnlessRecorded ==
    phase \in {"restored", "up"} =>
        /\ wpc # "save" /\ (~silent \/ Writing) => Holds(file.data, data)
        /\ ~silent => file.whole \/ Writing

IInv == CountType /\ ThreadType /\ RequestType /\ StoreType /\ SaveLock /\ SavedUnlessRecorded

---------------------------------------------------------------------------
(* Times and requests. *)

LEMMA DayBounds ==
    ASSUME NEW t \in Nat
    PROVE  DayStart(t) \in Nat /\ DayStart(t) <= t /\ Tomorrow(t) \in Nat /\ t < Tomorrow(t)
<1>1. DayLength \in Nat /\ DayLength > 0  BY PublicationAssumption
<1>2. t % DayLength \in 0..(DayLength - 1)  BY <1>1
<1>3. t % DayLength <= t
  <2>1. CASE t < DayLength  BY <1>1, <2>1
  <2>2. CASE t >= DayLength  BY <1>1, <1>2, <2>2
  <2> QED  BY <1>1, <2>1, <2>2
<1> QED  BY <1>1, <1>2, <1>3 DEF DayStart, Tomorrow

LEMMA CronIsATime == ASSUME NEW t \in Nat PROVE NextCron(t) \in Nat
<1>1. DayStart(t) \in Nat  BY DayBounds
<1>2. PublishAt \in Nat /\ DayLength \in Nat  BY PublicationAssumption
<1> QED  BY <1>1, <1>2 DEF NextCron

LEMMA InitialIsARequest ==
    ASSUME NEW from \in Nat PROVE InitialFor(from) \in Requests
BY DayBounds DEF InitialFor, Requests, Request, Kind

LEMMA UpdateIsARequest ==
    ASSUME NEW from \in Nat
    PROVE  [kind |-> "update", from |-> from, to |-> Tomorrow(from)] \in Requests
BY DayBounds DEF Requests, Request, Kind

LEMMA OverdueIsARequest ==
    ASSUME CountType, NEW latest \in Nat PROVE Overdue(latest) \in Requests
<1>1. clock \in Nat  BY PublicationAssumption DEF CountType
<1>2. DayStart(latest) + 2 * DayLength \in Nat  BY DayBounds, PublicationAssumption
<1>3. InitialFor(clock) \in Requests /\ InitialFor(DayStart(latest) + 2 * DayLength) \in Requests
      BY <1>1, <1>2, InitialIsARequest
<1> QED  BY <1>3 DEF Overdue

\* A request is not null.
LEMMA RequestIsNotNull == None \notin Requests
BY NullAssumption DEF Requests

---------------------------------------------------------------------------
(* The data, the queue and the target schedules. *)

LEMMA NewDataType == DataType(NewData) /\ Holds(NewData, NewData)
BY DEF NewData, DataType, TargetType, EmptyMap, Holds, Kind

LEMMA WithTarget ==
    ASSUME NEW d, DataType(d), NEW t, TargetType(t), NEW e, e = [d EXCEPT !.target = t]
    PROVE  DataType(e) /\ e.latest = d.latest /\ e.incomplete = d.incomplete
<1>1. DOMAIN e = DOMAIN d  OBVIOUS
<1>2. e.target = t /\ e.latest = d.latest /\ e.incomplete = d.incomplete  BY DEF DataType
<1> QED  BY <1>1, <1>2 DEF DataType

\* The data with a failed publication remembered, or forgotten when r is null.
Remember(d, k, r) == [d EXCEPT !.incomplete[k] = r]

LEMMA RememberType ==
    ASSUME NEW d, DataType(d), NEW k \in Kind, NEW r \in Requests \cup {None},
           r # None => r.kind = k
    PROVE  /\ DataType(Remember(d, k, r)) /\ Remember(d, k, r).latest = d.latest
           /\ Remember(d, k, r).incomplete = [d.incomplete EXCEPT ![k] = r]
<1> DEFINE m == [d.incomplete EXCEPT ![k] = r]
           e == Remember(d, k, r)
<1>1. e = [d EXCEPT !.incomplete = m]  BY DEF Remember
<1>2. m \in [Kind -> Requests \cup {None}]  BY DEF DataType
<1>3. \A j \in Kind : m[j] = IF j = k THEN r ELSE d.incomplete[j]  BY DEF DataType
<1>4. \A j \in Kind : m[j] # None => m[j].kind = j  BY <1>3 DEF DataType
<1> HIDE DEF m, e
<1>5. DOMAIN e = DOMAIN d  BY <1>1
<1>6. e.target = d.target /\ e.latest = d.latest /\ e.incomplete = m  BY <1>1 DEF DataType
<1>7. DataType(e)  BY <1>2, <1>4, <1>5, <1>6 DEF DataType
<1> QED  BY <1>6, <1>7 DEF m, e

\* A failure that is forgotten leaves nothing that the file would have to hold.
LEMMA ForgettingHolds ==
    ASSUME NEW d, DataType(d), NEW f, Holds(f, d), NEW k \in Kind
    PROVE  DataType(Remember(d, k, None)) /\ Holds(f, Remember(d, k, None))
<1> DEFINE e == Remember(d, k, None)
<1>1. DataType(e) /\ e.latest = d.latest /\ e.incomplete = [d.incomplete EXCEPT ![k] = None]
      BY RememberType
<1> HIDE DEF e
<1>2. \A j \in Kind : e.incomplete[j] # None => e.incomplete[j] = d.incomplete[j]
      BY <1>1 DEF DataType
<1>3. DataType(e) /\ Holds(f, e)  BY <1>1, <1>2 DEF Holds
<1> QED  BY <1>3 DEF e

LEMMA CurrentType == ASSUME NEW t, TargetType(t) PROVE TargetType(Current(t))
BY DEF TargetType, Current

LEMMA PutTarget ==
    ASSUME NEW t, TargetType(t), NEW r \in Requests, NEW by \in {"own", "fms"}
    PROVE  TargetType(Put(Current(t), r.from, [by |-> by, to |-> r.to]))
<1> DEFINE c == Current(t)
<1>1. TargetType(c)  BY CurrentType
<1>2. r.from < r.to  BY DEF Requests
<1> HIDE DEF c
<1>3. TargetType(Put(c, r.from, [by |-> by, to |-> r.to]))  BY <1>1, <1>2 DEF TargetType, Put
<1> QED  BY <1>3 DEF c

LEMMA QueuePut ==
    ASSUME NEW q, QueueType(q), NEW k \in Kind, NEW t \in Nat, NEW r \in Requests
    PROVE  QueueType([q EXCEPT ![k] = Put(@, t, r)])
<1> DEFINE p == [q EXCEPT ![k] = Put(@, t, r)]
<1>1. \A j \in Kind : j \in DOMAIN p /\ p[j] = IF j = k THEN Put(q[k], t, r) ELSE q[j]
      BY DEF QueueType
<1> HIDE DEF p
<1>2. ASSUME NEW j \in Kind, NEW x \in DOMAIN p[j] PROVE x \in Nat /\ p[j][x] \in Requests
  <2>1. CASE j = k
    <3>1. p[j] = Put(q[k], t, r)  BY <1>1, <2>1
    <3>2. \A y \in DOMAIN q[k] : y \in Nat /\ q[k][y] \in Requests  BY DEF QueueType
    <3> QED  BY <1>2, <3>1, <3>2 DEF Put
  <2>2. CASE j # k  BY <1>1, <1>2, <2>2 DEF QueueType
  <2> QED  BY <2>1, <2>2
<1>3. QueueType(p)  BY <1>1, <1>2 DEF QueueType
<1> QED  BY <1>3 DEF p

LEMMA QueueWithout ==
    ASSUME NEW q, QueueType(q), NEW k \in Kind, NEW t
    PROVE  QueueType([q EXCEPT ![k] = Without(@, t)])
<1> DEFINE p == [q EXCEPT ![k] = Without(@, t)]
<1>1. \A j \in Kind : j \in DOMAIN p /\ p[j] = IF j = k THEN Without(q[k], t) ELSE q[j]
      BY DEF QueueType
<1> HIDE DEF p
<1>2. QueueType(p)  BY <1>1 DEF QueueType, Without
<1> QED  BY <1>2 DEF p

\* Queueing a publication keeps the queue well typed (queueSchedulePublication).
LEMMA QueueingType ==
    ASSUME QueueType(queue), CountType, NEW r \in Requests, QueueSchedulePublication(r)
    PROVE  QueueType(queue')
<1>1. clock \in Nat /\ lastUpdate \in Nat /\ MinUpdate \in Nat
      BY PublicationAssumption DEF CountType
<1>2. CASE r.kind = "initial"
  <2>1. queue' = [queue EXCEPT !["initial"] = Put(@, clock, r)]
        BY <1>2 DEF QueueSchedulePublication
  <2> QED  BY <1>1, <2>1, QueuePut DEF Kind
<1>3. CASE r.kind # "initial"
  <2>1. PICK floor \in LastSlot(clock) :
          \/ queue' = [queue EXCEPT !["update"] = Put(@, Larger(clock, floor + MinUpdate), r)]
          \/ queue' = queue
        BY <1>3 DEF QueueSchedulePublication
  <2>2. \A k \in DOMAIN queue["update"] : k \in Nat  BY DEF QueueType, Kind
  <2>3. floor \in Nat  BY <1>1, <2>1, <2>2 DEF LastSlot, FloorKeys, Larger
  <2>4. Larger(clock, floor + MinUpdate) \in Nat  BY <1>1, <2>3 DEF Larger
  <2>5. QueueType([queue EXCEPT !["update"] = Put(@, Larger(clock, floor + MinUpdate), r)])
        BY <2>4, QueuePut DEF Kind
  <2> QED  BY <2>1, <2>5
<1> QED  BY <1>2, <1>3

\* The data only change by the target, and the target stays well typed.
LEMMA TargetStep ==
    ASSUME StoreType, NEW t, TargetType(t), data' = [data EXCEPT !.target = t]
    PROVE  DataType(data') /\ \A f : Holds(f, data) => Holds(f, data')
BY WithTarget DEF StoreType, Holds

---------------------------------------------------------------------------
(* The start and the crash. *)

LEMMA InitInv == Init => IInv
<1> SUFFICES ASSUME Init PROVE IInv  OBVIOUS
<1>1. CountType  BY PublicationAssumption DEF Init, CountType
<1>2. ThreadType  BY DEF Init, ThreadType, StartOfRetry, Kind
<1>3. RequestType  BY DEF Init, RequestType
<1>4. PICK t \in Successes : file = [whole |-> TRUE, data |-> [NewData EXCEPT !.latest["initial"] = t]]
      BY DEF Init
<1>5. StoreType
  <2>1. DataType(file.data)
    <3> DEFINE d == [NewData EXCEPT !.latest["initial"] = t]
    <3>1. t \in Nat  BY PublicationAssumption
    <3>2. d.latest \in [Kind -> Nat]  BY <3>1 DEF NewData, Kind
    <3>3. DOMAIN d = DOMAIN NewData /\ d.incomplete = NewData.incomplete /\ d.target = NewData.target
          BY DEF NewData
    <3> HIDE DEF d
    <3>4. DataType(d)  BY <3>2, <3>3, NewDataType DEF DataType
    <3> QED  BY <1>4, <3>4 DEF d
  <2>2. {"whole", "data"} \subseteq DOMAIN file  BY <1>4
  <2> QED  BY <2>1, <2>2, NewDataType DEF Init, StoreType, QueueType, EmptyMap
<1>6. SaveLock  BY <1>4 DEF Init, SaveLock
<1>7. SavedUnlessRecorded  BY DEF Init, SavedUnlessRecorded
<1> QED  BY <1>1, <1>2, <1>3, <1>5, <1>6, <1>7 DEF IInv

\* A crash leaves the file and resets everything else.
LEMMA CrashInv == ASSUME IInv, Crash PROVE IInv'
<1>1. CountType'
  <2>1. crashes' \in 0..MaxCrashes  BY PublicationAssumption DEF Crash, IInv, CountType
  <2> QED  BY <2>1 DEF Crash, IInv, CountType
<1>2. ThreadType'  BY DEF Crash, ThreadType, StartOfRetry, Kind
<1>3. RequestType'  BY DEF Crash, IInv, RequestType
<1>4. StoreType'  BY NewDataType DEF Crash, IInv, StoreType, QueueType, EmptyMap
<1>5. SaveLock'  BY DEF Crash, IInv, SaveLock
<1>6. SavedUnlessRecorded'  BY DEF Crash, SavedUnlessRecorded
<1> QED  BY <1>1, <1>2, <1>3, <1>4, <1>5, <1>6 DEF IInv

\* Restoring drops publications whose time is over and changes nothing else.
LEMMA RestoreInv == ASSUME IInv, RestoreState PROVE IInv'
<1>1. CountType' /\ RequestType'
      BY DEF RestoreState, IInv, CountType, RequestType, bounds, workerVars, fmsVars
<1>2. ThreadType'  BY DEF RestoreState, IInv, ThreadType, workerVars, fmsVars
<1>3. wpc = "idle" /\ poll = "idle"  BY DEF RestoreState, IInv, SaveLock
<1>4. SaveLock'  BY <1>3 DEF RestoreState, disk, IInv, SaveLock, workerVars, fmsVars
<1>5. CASE ~file.whole
  <2>1. StoreType'  BY <1>5 DEF RestoreState, disk, IInv, StoreType
  <2>2. SavedUnlessRecorded'  BY <1>5 DEF RestoreState, SavedUnlessRecorded
  <2> QED  BY <1>1, <1>2, <1>4, <2>1, <2>2 DEF IInv
<1>6. CASE file.whole
  <2> DEFINE d == file.data
             m == [k \in Kind |-> IF d.incomplete[k] # None /\ d.incomplete[k].to < clock
                                  THEN None ELSE d.incomplete[k]]
  <2>1. data' = [d EXCEPT !.incomplete = m]  BY <1>6 DEF RestoreState
  <2>2. DataType(d)  BY DEF IInv, StoreType
  <2>3. m \in [Kind -> Requests \cup {None}]  BY <2>2 DEF DataType
  <2>4. \A k \in Kind : m[k] = None \/ m[k] = d.incomplete[k]  OBVIOUS
  <2> HIDE DEF m
  <2>5. /\ DOMAIN data' = DOMAIN d /\ (data').target = d.target
        /\ (data').latest = d.latest /\ (data').incomplete = m
        BY <2>1, <2>2 DEF DataType
  <2>6. DataType(data')  BY <2>2, <2>3, <2>4, <2>5 DEF DataType
  <2>7. Holds(d, data')  BY <2>4, <2>5 DEF Holds
  <2>8. UNCHANGED <<file, queue>>  BY DEF RestoreState, disk
  <2>9. StoreType'  BY <2>2, <2>6, <2>8 DEF IInv, StoreType
  <2>10. SavedUnlessRecorded'  BY <1>6, <2>7, <2>8 DEF SavedUnlessRecorded
  <2> QED  BY <1>1, <1>2, <1>4, <2>9, <2>10 DEF IInv
<1> QED  BY <1>5, <1>6

\* The overdue publication replaces the failed one, which the file may still hold.
LEMMA ScheduleJobsInv == ASSUME IInv, ScheduleJobs PROVE IInv'
<1>0. clock \in Nat  BY PublicationAssumption DEF IInv, CountType
<1>1. CountType'
  <2>1. cronAt' \in Nat  BY <1>0, CronIsATime DEF ScheduleJobs
  <2> QED  BY <2>1 DEF ScheduleJobs, IInv, CountType, bounds
<1>2. ThreadType'  BY DEF ScheduleJobs, IInv, ThreadType, workerVars, fmsVars
<1>3. RequestType'  BY DEF ScheduleJobs, IInv, RequestType, workerVars, fmsVars
<1>4. SaveLock'  BY DEF ScheduleJobs, disk, IInv, SaveLock, workerVars, fmsVars
<1>5. StoreType' /\ SavedUnlessRecorded'
  <2>1. phase = "restored" /\ phase' = "up" /\ DataType(data) /\ QueueType(queue)
        BY DEF ScheduleJobs, IInv, StoreType
  <2>2. UNCHANGED <<file, silent, wpc, poll>>
        BY DEF ScheduleJobs, disk, workerVars, fmsVars
  <2>3. CASE UNCHANGED <<data, queue>>
        BY <2>1, <2>2, <2>3 DEF IInv, StoreType, SavedUnlessRecorded, Writing
  <2>4. CASE ~UNCHANGED <<data, queue>>
    <3>1. /\ data' = Remember(data, "initial", None)
          /\ queue' = [queue EXCEPT !["initial"] = Put(@, clock, Overdue(data.latest["initial"]))]
          BY <2>4 DEF ScheduleJobs, Remember
    <3>2. data.latest["initial"] \in Nat  BY <2>1 DEF DataType, Kind
    <3>3. Overdue(data.latest["initial"]) \in Requests  BY <3>2, OverdueIsARequest DEF IInv
    <3>4. QueueType(queue')  BY <1>0, <2>1, <3>1, <3>3, QueuePut DEF Kind
    <3>5. DataType(data')
      <4>1. None \in Requests \cup {None} /\ "initial" \in Kind
            /\ (None # None => None.kind = "initial")
            BY DEF Kind
      <4> QED  BY <2>1, <3>1, <4>1, RememberType
    <3>6. Holds(file.data, data) => Holds(file.data, data')
          BY <2>1, <3>1, ForgettingHolds DEF Kind
    <3> QED  BY <2>1, <2>2, <3>4, <3>5, <3>6 DEF IInv, StoreType, SavedUnlessRecorded, Writing
  <2> QED  BY <2>3, <2>4
<1> QED  BY <1>1, <1>2, <1>3, <1>4, <1>5 DEF IInv

---------------------------------------------------------------------------
(* The jobs that request publications. *)

LEMMA PublishDailyInv == ASSUME IInv, PublishDaily PROVE IInv'
<1>0. clock \in Nat  BY PublicationAssumption DEF IInv, CountType
<1>1. CountType'
  <2>1. cronAt' \in Nat  BY <1>0, CronIsATime DEF PublishDaily
  <2> QED  BY <2>1 DEF PublishDaily, IInv, CountType, bounds
<1>2. ThreadType' /\ RequestType' /\ SaveLock'
      BY DEF PublishDaily, disk, IInv, ThreadType, RequestType, SaveLock, workerVars, fmsVars
<1>3. StoreType'
  <2>1. InitialFor(Tomorrow(clock)) \in Requests  BY <1>0, DayBounds, InitialIsARequest
  <2>2. QueueType(queue')
        BY <2>1, QueueingType DEF PublishDaily, IInv, StoreType
  <2> QED  BY <2>2 DEF PublishDaily, disk, IInv, StoreType
<1>4. SavedUnlessRecorded'
      BY DEF PublishDaily, disk, IInv, SavedUnlessRecorded, Writing, workerVars, fmsVars
<1> QED  BY <1>1, <1>2, <1>3, <1>4 DEF IInv

LEMMA ReportDeviationInv == ASSUME IInv, ReportDeviation PROVE IInv'
<1>0. clock \in Nat  BY PublicationAssumption DEF IInv, CountType
<1>1. CountType'
  <2>1. reports' \in 0..MaxReports  BY PublicationAssumption DEF ReportDeviation, IInv, CountType
  <2> QED  BY <2>1 DEF ReportDeviation, IInv, CountType
<1>2. ThreadType' /\ RequestType' /\ SaveLock'
      BY DEF ReportDeviation, disk, IInv, ThreadType, RequestType, SaveLock, workerVars, fmsVars
<1>3. TargetType(Current(data.target))
      BY CurrentType DEF IInv, StoreType, DataType
<1>4. data' = [data EXCEPT !.target = Current(data.target)]  BY DEF ReportDeviation
<1>5. DataType(data') /\ \A f : Holds(f, data) => Holds(f, data')
      BY <1>3, <1>4, TargetStep DEF IInv
<1>6. StoreType'
  <2>1. QueueType(queue')
        BY <1>0, UpdateIsARequest, QueueingType DEF ReportDeviation, IInv, StoreType
  <2> QED  BY <1>5, <2>1 DEF ReportDeviation, disk, IInv, StoreType
<1>7. SavedUnlessRecorded'
      BY <1>5 DEF ReportDeviation, disk, IInv, SavedUnlessRecorded, Writing, workerVars, fmsVars
<1> QED  BY <1>1, <1>2, <1>6, <1>7 DEF IInv

\* The retry job moves between its steps; only RetryDrop changes the data, and only
\* RetryQueue the queue.
LEMMA RetryMoves ==
    ASSUME ThreadType,
           \/ RetryNext
           \/ \E at \in {"check", "compare", "drop", "queue", "dead"} :
                retry' = [retry EXCEPT !.at = at]
    PROVE  retry' \in [at : {"check", "compare", "drop", "queue", "dead"}, kind : Kind]
BY DEF ThreadType, RetryNext, StartOfRetry, Kind

LEMMA RetryFrame ==
    ASSUME IInv, NEW step, RetryAt(step),
           \/ RetryNext
           \/ \E at \in {"check", "compare", "drop", "queue", "dead"} :
                retry' = [retry EXCEPT !.at = at]
    PROVE  CountType' /\ ThreadType' /\ RequestType' /\ SaveLock'
<1>1. retry' \in [at : {"check", "compare", "drop", "queue", "dead"}, kind : Kind]
      BY RetryMoves DEF IInv
<1>2. ThreadType'  BY <1>1 DEF RetryAt, IInv, ThreadType, workerVars, fmsVars
<1>3. CountType'  BY DEF RetryAt, IInv, CountType, bounds
<1>4. RequestType' /\ SaveLock'
      BY DEF RetryAt, disk, IInv, RequestType, SaveLock, workerVars, fmsVars
<1> QED  BY <1>2, <1>3, <1>4

LEMMA RetryJobInv == ASSUME IInv, RetryJob PROVE IInv'
<1>1. CASE RetryCheck \/ RetryCompare
  <2>1. PICK step : RetryAt(step)  BY <1>1 DEF RetryCheck, RetryCompare
  <2>2. \/ RetryNext
        \/ \E at \in {"check", "compare", "drop", "queue", "dead"} :
             retry' = [retry EXCEPT !.at = at]
        BY <1>1 DEF RetryCheck, RetryCompare
  <2>3. UNCHANGED <<phase, data, disk, queue, wpc, poll>>
        BY <1>1 DEF RetryCheck, RetryCompare, RetryAt, workerVars, fmsVars
  <2>4. StoreType' /\ SavedUnlessRecorded'
        BY <2>3 DEF IInv, StoreType, SavedUnlessRecorded, Writing, disk
  <2> QED  BY <2>1, <2>2, <2>4, RetryFrame DEF IInv
<1>2. CASE RetryDrop
  <2>1. CountType' /\ ThreadType' /\ RequestType' /\ SaveLock'
        BY <1>2, RetryFrame DEF RetryDrop
  <2>2. retry.kind \in Kind  BY DEF IInv, ThreadType
  <2>3. data' = Remember(data, retry.kind, None)  BY <1>2 DEF RetryDrop, Remember
  <2>4. UNCHANGED <<phase, disk, queue, wpc, poll>>  BY <1>2 DEF RetryDrop, RetryAt, workerVars, fmsVars
  <2>5. DataType(data)  BY DEF IInv, StoreType
  <2>6. DataType(data')
    <3>1. None \in Requests \cup {None} /\ (None # None => None.kind = retry.kind)  OBVIOUS
    <3> QED  BY <2>2, <2>3, <2>5, <3>1, RememberType
  <2>7. StoreType'  BY <2>4, <2>6 DEF IInv, StoreType, disk
  <2>8. Holds(file.data, data) => Holds(file.data, data')
        BY <2>2, <2>3, <2>5, ForgettingHolds
  <2>9. SavedUnlessRecorded'  BY <2>4, <2>8 DEF IInv, SavedUnlessRecorded, Writing, disk
  <2> QED  BY <2>1, <2>7, <2>9 DEF IInv
<1>3. CASE RetryQueue
  <2>1. CountType' /\ ThreadType' /\ RequestType' /\ SaveLock'
        BY <1>3, RetryFrame DEF RetryQueue
  <2>2. UNCHANGED <<phase, data, disk, wpc, poll>>  BY <1>3 DEF RetryQueue, RetryAt, workerVars, fmsVars
  <2>3. QueueType(queue')
    <3>1. CASE Incomplete = None  BY <1>3, <3>1 DEF RetryQueue, IInv, StoreType
    <3>2. CASE Incomplete # None
      <4>1. Incomplete \in Requests
            BY <3>2 DEF Incomplete, IInv, ThreadType, StoreType, DataType
      <4> QED  BY <1>3, <3>2, <4>1, QueueingType DEF RetryQueue, IInv, StoreType
    <3> QED  BY <3>1, <3>2
  <2>4. StoreType' /\ SavedUnlessRecorded'
        BY <2>2, <2>3 DEF IInv, StoreType, SavedUnlessRecorded, Writing, disk
  <2> QED  BY <2>1, <2>4 DEF IInv
<1> QED  BY <1>1, <1>2, <1>3 DEF RetryJob

---------------------------------------------------------------------------
(* The worker. *)

LEMMA TakeRequestInv == ASSUME IInv, TakeRequest PROVE IInv'
<1>1. PICK h \in Heads :
        /\ request' = queue[h.kind][h.key]
        /\ queue' = [queue EXCEPT ![h.kind] = Without(@, h.key)]
        /\ lastUpdate' = IF h.kind = "update" THEN clock ELSE lastUpdate
      BY DEF TakeRequest
<1>2. h.kind \in Kind /\ h.key \in DOMAIN queue[h.kind]  BY DEF Heads, FloorKeys
<1>3. request' \in Requests  BY <1>1, <1>2 DEF IInv, StoreType, QueueType
<1>4. request' # None  BY <1>3, RequestIsNotNull
<1>5. wpc' \in {"record", "solve"} /\ done' = FALSE /\ phase = "up" /\ wpc = "idle"
      BY DEF TakeRequest
<1>6. UNCHANGED <<bounds, phase, data, disk, cronAt, retry, poll, published>>
      BY DEF TakeRequest, fmsVars
<1>7. CountType'
  <2>1. lastUpdate' \in Nat  BY <1>1, PublicationAssumption DEF IInv, CountType
  <2> QED  BY <1>6, <2>1 DEF IInv, CountType, bounds
<1>8. ThreadType'  BY <1>5, <1>6 DEF IInv, ThreadType
<1>9. RequestType'  BY <1>3, <1>4, <1>5, <1>6 DEF IInv, RequestType
<1>10. StoreType'
  <2>1. QueueType(queue')  BY <1>1, <1>2, QueueWithout DEF IInv, StoreType
  <2> QED  BY <1>6, <2>1 DEF IInv, StoreType, disk
<1>11. SaveLock'  BY <1>5, <1>6 DEF IInv, SaveLock, disk
<1>12. SavedUnlessRecorded'  BY <1>5, <1>6 DEF IInv, SavedUnlessRecorded, Writing, disk
<1> QED  BY <1>7, <1>8, <1>9, <1>10, <1>11, <1>12 DEF IInv

\* An attempt ends in the step "target" or "record"; before that the data at most lose
\* target schedules that have ended.
LEMMA AttemptInv == ASSUME IInv, Attempt PROVE IInv'
<1>1. /\ phase = "up" /\ wpc \in {"solve", "target"} /\ wpc' \in {"target", "record"}
      /\ UNCHANGED <<bounds, phase, disk, queue, lastUpdate, cronAt, retry, request, poll>>
      BY DEF Attempt, PublishThrows, FollowOwnSchedule, Publish, fmsVars
<1>2. done' \in BOOLEAN
      BY DEF Attempt, PublishThrows, FollowOwnSchedule, Publish, IInv, ThreadType
<1>3. request \in Requests  BY <1>1 DEF IInv, RequestType
<1>4. published' \subseteq Requests
      BY <1>3 DEF Attempt, PublishThrows, FollowOwnSchedule, Publish, fmsVars, IInv, RequestType
<1>5. DataType(data') /\ \A f : Holds(f, data) => Holds(f, data')
  <2>1. TargetType(data.target)  BY DEF IInv, StoreType, DataType
  <2>2. CASE UNCHANGED data  BY <2>2 DEF IInv, StoreType
  <2>3. CASE data' = [data EXCEPT !.target = Current(data.target)]
        BY <2>1, <2>3, CurrentType, TargetStep DEF IInv
  <2>4. CASE FollowOwnSchedule
    <3> DEFINE t == Put(Current(data.target), request.from, [by |-> "own", to |-> request.to])
    <3>1. TargetType(t)  BY <1>3, <2>1, PutTarget
    <3>2. data' = [data EXCEPT !.target = t]  BY <2>4 DEF FollowOwnSchedule
    <3> HIDE DEF t
    <3> QED  BY <3>1, <3>2, TargetStep DEF IInv
  <2> QED  BY <2>2, <2>3, <2>4 DEF Attempt, PublishThrows, Publish
<1>6. CountType'  BY <1>1 DEF IInv, CountType, bounds
<1>7. ThreadType'  BY <1>1, <1>2 DEF IInv, ThreadType
<1>8. RequestType'  BY <1>1, <1>3, <1>4 DEF IInv, RequestType
<1>9. StoreType'  BY <1>1, <1>5 DEF IInv, StoreType, disk
<1>10. SaveLock'  BY <1>1 DEF IInv, SaveLock, disk
<1>11. SavedUnlessRecorded'  BY <1>1, <1>5 DEF IInv, SavedUnlessRecorded, Writing, disk
<1> QED  BY <1>6, <1>7, <1>8, <1>9, <1>10, <1>11 DEF IInv

\* The outcome of the attempt is in memory, and the worker has still to save it.
LEMMA RecordInv == ASSUME IInv, Record PROVE IInv'
<1>1. /\ phase = "up" /\ wpc = "record" /\ wpc' = "save" /\ request' = None /\ done' = FALSE
      /\ data' = Recorded
      BY DEF Record, AfterRecord
<1>2. UNCHANGED <<bounds, phase, disk, queue, lastUpdate, cronAt, retry, poll, published>>
      BY DEF Record, fmsVars
<1>3. request \in Requests /\ request.kind \in Kind /\ DataType(data)
      BY <1>1 DEF IInv, RequestType, StoreType, Requests, Request
<1>4. DataType(data')
  <2>1. CASE done
    <3> DEFINE e == Remember(data, request.kind, None)
    <3>1. data' = [e EXCEPT !.latest[request.kind] = clock]
          BY <1>1, <2>1 DEF Recorded, Remember
    <3>2. DataType(e)
      <4>1. None \in Requests \cup {None} /\ (None # None => None.kind = request.kind)  OBVIOUS
      <4> QED  BY <1>3, <4>1, RememberType
    <3> HIDE DEF e
    <3>3. clock \in Nat  BY PublicationAssumption DEF IInv, CountType
    <3>4. data' = [e EXCEPT !.latest = [e.latest EXCEPT ![request.kind] = clock]]  BY <3>1
    <3>5. [e.latest EXCEPT ![request.kind] = clock] \in [Kind -> Nat]
          BY <1>3, <3>2, <3>3 DEF DataType
    <3>6. /\ DOMAIN data' = DOMAIN e /\ (data').incomplete = e.incomplete
          /\ (data').target = e.target /\ (data').latest \in [Kind -> Nat]
          BY <3>2, <3>4, <3>5 DEF DataType
    <3> QED  BY <3>2, <3>6 DEF DataType
  <2>2. CASE ~done
    <3>1. data' = Remember(data, request.kind, request)
          BY <1>1, <2>2 DEF Recorded, Remember
    <3> QED  BY <1>3, <3>1, RememberType
  <2> QED  BY <2>1, <2>2
<1>5. CountType'  BY <1>2 DEF IInv, CountType, bounds
<1>6. ThreadType'  BY <1>1, <1>2 DEF IInv, ThreadType
<1>7. RequestType'  BY <1>1, <1>2 DEF IInv, RequestType
<1>8. StoreType'  BY <1>2, <1>4 DEF IInv, StoreType, disk
<1>9. SaveLock'  BY <1>1, <1>2 DEF IInv, SaveLock, disk
<1>10. SavedUnlessRecorded'
  <2>1. file.whole \/ silent \/ poll = "saving"  BY <1>1 DEF IInv, SavedUnlessRecorded, Writing
  <2> QED  BY <1>1, <1>2, <2>1 DEF SavedUnlessRecorded, Writing, disk
<1> QED  BY <1>5, <1>6, <1>7, <1>8, <1>9, <1>10 DEF IInv

---------------------------------------------------------------------------
(* Saving.  Whoever truncates the file writes all data of that moment. *)

\* What a step of a save leaves: the file with what is in memory, being written; the file
\* closed; or the file as it was, unnoticed.
LEMMA SaveStep ==
    ASSUME IInv, NEW step, NEW next, Save(step, next)
    PROVE  /\ DataType((file').data) /\ {"whole", "data"} \subseteq DOMAIN file'
           /\ (file').whole \in BOOLEAN /\ silent' \in BOOLEAN /\ failures' \in 0..MaxFailures
           /\ \/ /\ step = "save" /\ next = "saving" /\ ~Writing
                 /\ (file').data = data
              \/ /\ step = "saving" /\ next = "idle"
                 /\ (file').whole = TRUE /\ (file').data = file.data /\ silent' = FALSE
              \/ /\ next = "idle"
                 /\ UNCHANGED file /\ silent' = TRUE
<1>0. /\ DataType(data) /\ DataType(file.data) /\ {"whole", "data"} \subseteq DOMAIN file
      /\ file.whole \in BOOLEAN /\ silent \in BOOLEAN /\ failures \in 0..MaxFailures
      BY DEF IInv, StoreType, SaveLock, CountType
<1>1. CASE step = "save" /\ next = "saving" /\ Unlocked /\ Truncate
  <2>1. file' = [whole |-> FALSE, data |-> data] /\ UNCHANGED <<failures, silent>>
        BY <1>1 DEF Truncate
  <2>2. DOMAIN file' = {"whole", "data"} /\ (file').whole = FALSE /\ (file').data = data
        BY <2>1
  <2> QED  BY <1>0, <1>1, <2>1, <2>2 DEF Unlocked, Writing
<1>2. CASE step = "saving" /\ next = "idle" /\ Close
  <2>1. (file').whole = TRUE /\ (file').data = file.data /\ DOMAIN file' = DOMAIN file
        BY <1>0, <1>2 DEF Close
  <2> QED  BY <1>0, <1>2, <2>1 DEF Close
<1>3. CASE next = "idle" /\ Fail
  <2>1. failures' \in 0..MaxFailures  BY <1>0, <1>3, PublicationAssumption DEF Fail
  <2> QED  BY <1>0, <1>3, <2>1 DEF Fail
<1> QED  BY <1>1, <1>2, <1>3 DEF Save

LEMMA SaveOutcomeInv == ASSUME IInv, SaveOutcome PROVE IInv'
<1>1. PICK next \in {"saving", "idle"} : Save(wpc, next) /\ wpc' = next  BY DEF SaveOutcome
<1>2. /\ UNCHANGED <<clock, crashes, reports, answers, phase, data, queue, lastUpdate, cronAt,
                     retry, request, done, poll, published>>
      /\ phase = "up"
      BY DEF SaveOutcome, OtherBounds, fmsVars
<1>3. wpc \in {"save", "saving"}  BY <1>1 DEF Save
<1>4. /\ DataType((file').data) /\ {"whole", "data"} \subseteq DOMAIN file'
      /\ (file').whole \in BOOLEAN /\ silent' \in BOOLEAN /\ failures' \in 0..MaxFailures
      BY <1>1, SaveStep
<1>5. CountType'  BY <1>2, <1>4 DEF IInv, CountType
<1>6. ThreadType' /\ RequestType'  BY <1>1, <1>2, <1>3 DEF IInv, ThreadType, RequestType
<1>7. StoreType'  BY <1>2, <1>4 DEF IInv, StoreType
<1>8. SaveLock' /\ SavedUnlessRecorded'
  <2>1. CASE wpc = "save" /\ wpc' = "saving" /\ ~Writing /\ (file').data = data
    <3>1. Holds((file').data, data')  BY <1>2, <2>1 DEF Holds
    <3> QED  BY <1>2, <1>4, <2>1, <3>1 DEF IInv, SaveLock, SavedUnlessRecorded, Writing
  <2>2. CASE /\ wpc = "saving" /\ wpc' = "idle"
             /\ (file').whole = TRUE /\ (file').data = file.data /\ silent' = FALSE
    <3>1. Holds((file').data, data')
          BY <1>2, <2>2 DEF IInv, SavedUnlessRecorded, Writing
    <3> QED  BY <1>2, <1>4, <2>2, <3>1 DEF IInv, SaveLock, SavedUnlessRecorded
  <2>3. CASE wpc' = "idle" /\ UNCHANGED file /\ silent' = TRUE
    <3>1. wpc = "save" => poll # "saving"  BY <1>1 DEF Save, Unlocked
    <3>2. poll # "saving"  BY <1>3, <3>1 DEF IInv, SaveLock
    <3> QED  BY <1>2, <1>4, <2>3, <3>2 DEF IInv, SaveLock, SavedUnlessRecorded, Writing
  <2>4. \/ wpc = "save" /\ next = "saving" /\ ~Writing /\ (file').data = data
        \/ /\ wpc = "saving" /\ next = "idle"
           /\ (file').whole = TRUE /\ (file').data = file.data /\ silent' = FALSE
        \/ next = "idle" /\ UNCHANGED file /\ silent' = TRUE
        BY <1>1, SaveStep
  <2> QED  BY <1>1, <2>1, <2>2, <2>3, <2>4
<1> QED  BY <1>5, <1>6, <1>7, <1>8 DEF IInv

LEMMA SetTargetScheduleInv ==
    ASSUME IInv, NEW r \in published, SetTargetSchedule(r) PROVE IInv'
<1>1. /\ phase \in {"restored", "up"} /\ poll = "idle" /\ poll' = "save"
      /\ UNCHANGED <<clock, crashes, reports, failures, phase, disk, queue, lastUpdate, cronAt, retry, workerVars>>
      BY DEF SetTargetSchedule
<1>2. CountType'
  <2>1. answers' \in 0..MaxAnswers
        BY PublicationAssumption DEF SetTargetSchedule, Answers, IInv, CountType
  <2> QED  BY <1>1, <2>1 DEF IInv, CountType
<1>3. ThreadType'  BY <1>1 DEF IInv, ThreadType, workerVars
<1>4. RequestType'
  <2>1. published' \subseteq Requests  BY DEF SetTargetSchedule, IInv, RequestType
  <2> QED  BY <1>1, <2>1 DEF IInv, RequestType, workerVars
<1>5. DataType(data') /\ \A f : Holds(f, data) => Holds(f, data')
  <2> DEFINE t == Put(Current(data.target), r.from, [by |-> "fms", to |-> r.to])
  <2>1. TargetType(t)  BY PutTarget DEF IInv, RequestType, StoreType, DataType
  <2>2. data' = [data EXCEPT !.target = t]  BY DEF SetTargetSchedule
  <2> HIDE DEF t
  <2> QED  BY <2>1, <2>2, TargetStep DEF IInv
<1>6. StoreType'  BY <1>1, <1>5 DEF IInv, StoreType, disk
<1>7. SaveLock'  BY <1>1 DEF IInv, SaveLock, workerVars, disk
<1>8. SavedUnlessRecorded'  BY <1>1, <1>5 DEF IInv, SavedUnlessRecorded, Writing, workerVars, disk
<1> QED  BY <1>2, <1>3, <1>4, <1>6, <1>7, <1>8 DEF IInv

\* The thread that polls may write what the worker has recorded and not saved yet.
LEMMA SaveTargetScheduleInv == ASSUME IInv, SaveTargetSchedule PROVE IInv'
<1>1. PICK next \in {"saving", "idle"} : Save(poll, next) /\ poll' = next
      BY DEF SaveTargetSchedule
<1>2. UNCHANGED <<clock, crashes, reports, answers, phase, data, queue, lastUpdate, cronAt,
                  retry, wpc, request, done, published>>
      BY DEF SaveTargetSchedule, OtherBounds, workerVars
<1>3. poll \in {"save", "saving"} /\ phase \in {"up", "restored"}
      BY <1>1 DEF Save, IInv, SaveLock
<1>4. /\ DataType((file').data) /\ {"whole", "data"} \subseteq DOMAIN file'
      /\ (file').whole \in BOOLEAN /\ silent' \in BOOLEAN /\ failures' \in 0..MaxFailures
      BY <1>1, SaveStep
<1>5. CountType'  BY <1>2, <1>4 DEF IInv, CountType
<1>6. ThreadType' /\ RequestType'  BY <1>1, <1>2, <1>3 DEF IInv, ThreadType, RequestType
<1>7. StoreType'  BY <1>2, <1>4 DEF IInv, StoreType
<1>8. SaveLock' /\ SavedUnlessRecorded'
  <2>1. CASE poll = "save" /\ poll' = "saving" /\ ~Writing /\ (file').data = data
    <3>1. Holds((file').data, data')  BY <1>2, <2>1 DEF Holds
    <3> QED  BY <1>2, <1>3, <1>4, <2>1, <3>1 DEF IInv, SaveLock, SavedUnlessRecorded, Writing
  <2>2. CASE /\ poll = "saving" /\ poll' = "idle"
             /\ (file').whole = TRUE /\ (file').data = file.data /\ silent' = FALSE
    <3>1. wpc # "save" => Holds((file').data, data')
          BY <1>2, <1>3, <2>2 DEF IInv, SavedUnlessRecorded, Writing
    <3> QED  BY <1>2, <1>3, <1>4, <2>2, <3>1 DEF IInv, SaveLock, SavedUnlessRecorded
  <2>3. CASE poll' = "idle" /\ UNCHANGED file /\ silent' = TRUE
    <3>1. poll = "save" => wpc # "saving"  BY <1>1 DEF Save, Unlocked
    <3>2. wpc # "saving"  BY <1>3, <3>1 DEF IInv, SaveLock
    <3> QED  BY <1>2, <1>3, <1>4, <2>3, <3>2 DEF IInv, SaveLock, SavedUnlessRecorded, Writing
  <2>4. \/ poll = "save" /\ next = "saving" /\ ~Writing /\ (file').data = data
        \/ /\ poll = "saving" /\ next = "idle"
           /\ (file').whole = TRUE /\ (file').data = file.data /\ silent' = FALSE
        \/ next = "idle" /\ UNCHANGED file /\ silent' = TRUE
        BY <1>1, SaveStep
  <2> QED  BY <1>1, <2>1, <2>2, <2>3, <2>4
<1> QED  BY <1>5, <1>6, <1>7, <1>8 DEF IInv

LEMMA TickInv == ASSUME IInv, Tick PROVE IInv'
<1>1. clock' \in StartTime..MaxTime  BY PublicationAssumption DEF Tick, IInv, CountType
<1>2. CountType'  BY <1>1 DEF Tick, IInv, CountType
<1>3. ThreadType' /\ RequestType' /\ SaveLock' /\ StoreType' /\ SavedUnlessRecorded'
      BY DEF Tick, disk, IInv, ThreadType, RequestType, SaveLock, StoreType, SavedUnlessRecorded, Writing,
         workerVars, fmsVars
<1> QED  BY <1>2, <1>3 DEF IInv

---------------------------------------------------------------------------
(* The theorems. *)

LEMMA StepInv == IInv /\ [Next]_vars => IInv'
<1> SUFFICES ASSUME IInv, [Next]_vars PROVE IInv'  OBVIOUS
<1>1. CASE StartUp  BY <1>1, RestoreInv, ScheduleJobsInv DEF StartUp
<1>2. CASE Crash  BY <1>2, CrashInv
<1>3. CASE PublishDaily \/ ReportDeviation \/ RetryJob
      BY <1>3, PublishDailyInv, ReportDeviationInv, RetryJobInv
<1>4. CASE Worker
      BY <1>4, TakeRequestInv, AttemptInv, RecordInv, SaveOutcomeInv DEF Worker
<1>5. CASE \E r \in published : SetTargetSchedule(r)  BY <1>5, SetTargetScheduleInv
<1>6. CASE SaveTargetSchedule \/ Tick  BY <1>6, SaveTargetScheduleInv, TickInv
<1>7. CASE UNCHANGED vars
      BY <1>7 DEF vars, bounds, disk, workerVars, fmsVars, IInv, CountType, ThreadType, RequestType,
         StoreType, SaveLock, SavedUnlessRecorded, Writing
<1> QED  BY <1>1, <1>2, <1>3, <1>4, <1>5, <1>6, <1>7 DEF Next

LEMMA Invariance == Spec => []IInv
<1> QED  BY InitInv, StepInv, PTL DEF Spec

\* The state is well typed; in particular, the worker and the thread that polls the FMS
\* never write the file at the same time (saveState, both under the scheduler's lock).
THEOREM PublicationTyped == Spec => []TypeOK
<1>1. IInv => TypeOK
  <2> SUFFICES ASSUME IInv PROVE TypeOK  OBVIOUS
  <2>1. \A d \in {data, file.data} :
          /\ d.latest \in [Kind -> Nat]
          /\ \A k \in Kind : d.incomplete[k] = None
                             \/ (d.incomplete[k] \in Request /\ d.incomplete[k].kind = k)
          /\ \A f \in DOMAIN d.target : f < d.target[f].to /\ d.target[f].by \in {"own", "fms"}
        BY DEF IInv, StoreType, DataType, TargetType, Requests
  <2>2. \A k \in Kind : \A t \in DOMAIN queue[k] : t \in Nat /\ queue[k][t] \in Request
        BY DEF IInv, StoreType, QueueType, Requests
  <2>3. published \subseteq Request  BY DEF IInv, RequestType, Requests
  <2> QED  BY <2>1, <2>2, <2>3
           DEF IInv, CountType, ThreadType, RequestType, SaveLock, TypeOK
<1> QED  BY <1>1, Invariance, PTL

\* Crash safety of the outcome: from the moment the worker is free for the next job the
\* file holds the success or the failure of every attempt of this life, whatever the retry
\* job, the answers of the FMS and the start-up change meanwhile (publishSchedule's finally
\* block and saveState), unless the latest save has failed, which nobody is told.
THEOREM OutcomeIsSaved == Spec => []OutcomeSaved
<1>1. IInv => OutcomeSaved  BY DEF IInv, SavedUnlessRecorded, Writing, Holds, OutcomeSaved
<1> QED  BY <1>1, Invariance, PTL

---------------------------------------------------------------------------
(* The saved record of successes never goes back, over all crashes and restarts. *)

LatestInv ==
    /\ \A k \in Kind : data.latest[k] <= clock /\ file.data.latest[k] <= clock
    /\ phase \in {"restored", "up"} => \A k \in Kind : file.data.latest[k] <= data.latest[k]

\* What a step leaves of the latest successes: only a start, a crash and Record change them.
LEMMA LatestKept ==
    ASSUME IInv, [Next]_vars, ~RestoreState, ~Crash, ~Record
    PROVE  /\ (data').latest = data.latest
           /\ phase' \in {"restored", "up"} => phase \in {"restored", "up"}
<1>0. {"latest", "incomplete", "target"} \subseteq DOMAIN data
      BY DEF IInv, StoreType, DataType
<1>1. CASE ScheduleJobs  BY <1>0, <1>1 DEF ScheduleJobs
<1>2. CASE PublishDaily \/ ReportDeviation  BY <1>0, <1>2 DEF PublishDaily, ReportDeviation
<1>3. CASE RetryJob
      BY <1>0, <1>3 DEF RetryJob, RetryAt, RetryCheck, RetryCompare, RetryDrop, RetryQueue
<1>4. CASE TakeRequest \/ SaveOutcome  BY <1>4 DEF TakeRequest, SaveOutcome
<1>5. CASE Attempt
      BY <1>0, <1>5 DEF Attempt, PublishThrows, FollowOwnSchedule, Publish
<1>6. CASE \E r \in published : SetTargetSchedule(r)  BY <1>0, <1>6 DEF SetTargetSchedule
<1>7. CASE SaveTargetSchedule \/ Tick  BY <1>7 DEF SaveTargetSchedule, Tick
<1>8. CASE UNCHANGED vars  BY <1>8 DEF vars
<1> QED
    BY <1>1, <1>2, <1>3, <1>4, <1>5, <1>6, <1>7, <1>8 DEF Next, StartUp, Worker

\* The content of the file changes by a truncation only, to the data of that moment.
LEMMA FileContent ==
    ASSUME IInv, [Next]_vars
    PROVE  \/ (file').data = file.data
           \/ phase \in {"restored", "up"} /\ UNCHANGED <<data, clock, phase>> /\ (file').data = data
<1>1. CASE SaveOutcome
  <2>1. phase = "up" /\ UNCHANGED <<data, clock, phase>>
        BY <1>1 DEF SaveOutcome, OtherBounds
  <2> QED  BY <1>1, <2>1, SaveStep DEF SaveOutcome
<1>3. CASE SaveTargetSchedule
  <2>1. phase \in {"restored", "up"}
        BY <1>3 DEF SaveTargetSchedule, Save, IInv, SaveLock
  <2>2. UNCHANGED <<data, clock, phase>>  BY <1>3 DEF SaveTargetSchedule, OtherBounds
  <2> QED  BY <1>3, <2>1, <2>2, SaveStep DEF SaveTargetSchedule
<1>4. CASE UNCHANGED file  BY <1>4
<1> QED
    BY <1>1, <1>3, <1>4 DEF Next, StartUp, disk, RestoreState, ScheduleJobs, Crash, PublishDaily,
       ReportDeviation, RetryJob, RetryAt, RetryCheck, RetryCompare, RetryDrop, RetryQueue, Worker,
       TakeRequest, Attempt, PublishThrows, FollowOwnSchedule, Publish, Record,
       SetTargetSchedule, Tick, vars

LEMMA ClockMoves ==
    ASSUME IInv, [Next]_vars PROVE clock \in Nat /\ clock' \in Nat /\ clock <= clock'
<1>1. clock \in Nat  BY PublicationAssumption DEF IInv, CountType
<1>2. CASE Tick  BY <1>1, <1>2 DEF Tick
<1>3. CASE UNCHANGED clock  BY <1>1, <1>3
<1> QED
    BY <1>2, <1>3 DEF Next, StartUp, RestoreState, ScheduleJobs, Crash, PublishDaily,
       ReportDeviation, RetryJob, RetryAt, RetryCheck, RetryCompare, RetryDrop, RetryQueue, Worker,
       TakeRequest, Attempt, PublishThrows, FollowOwnSchedule, Publish, Record, SaveOutcome, OtherBounds,
       SetTargetSchedule, SaveTargetSchedule, vars, bounds

LEMMA LatestStep == ASSUME IInv, IInv', LatestInv, [Next]_vars PROVE LatestInv'
<1>1. clock \in Nat /\ clock' \in Nat /\ clock <= clock'  BY ClockMoves
<1>2. /\ data.latest \in [Kind -> Nat] /\ (data').latest \in [Kind -> Nat]
      /\ file.data.latest \in [Kind -> Nat] /\ (file').data.latest \in [Kind -> Nat]
      BY DEF IInv, StoreType, DataType
<1>3. CASE RestoreState
  <2>1. UNCHANGED file /\ UNCHANGED clock  BY <1>3 DEF RestoreState, disk, bounds
  <2>2. phase' \in {"restored", "up"} => (data').latest = file.data.latest
    <3>1. DataType(file.data)  BY DEF IInv, StoreType
    <3> QED  BY <1>3, <3>1 DEF RestoreState, DataType
  <2>3. (data').latest = data.latest \/ (data').latest = file.data.latest
    <3>1. DataType(file.data)  BY DEF IInv, StoreType
    <3> QED  BY <1>3, <3>1 DEF RestoreState, DataType
  <2> QED  BY <1>1, <1>2, <2>1, <2>2, <2>3 DEF LatestInv
<1>4. CASE Crash
  <2>1. UNCHANGED file /\ UNCHANGED clock /\ phase' = "down"  BY <1>4 DEF Crash
  <2>2. \A k \in Kind : (data').latest[k] = 0  BY <1>4 DEF Crash, NewData
  <2> QED  BY <1>1, <1>2, <2>1, <2>2 DEF LatestInv
<1>5. CASE Record
  <2>1. UNCHANGED file /\ UNCHANGED clock /\ UNCHANGED phase  BY <1>5 DEF Record, bounds, disk
  <2>2. data' = Recorded /\ {"latest", "incomplete", "target"} \subseteq DOMAIN data
        BY <1>5 DEF Record, IInv, StoreType, DataType
  <2>3. \A k \in Kind : (data').latest[k] = data.latest[k] \/ (data').latest[k] = clock
    <3>1. CASE done
      <4>1. (data').latest = [data.latest EXCEPT ![request.kind] = clock]
            BY <2>2, <3>1 DEF Recorded
      <4> QED  BY <1>2, <4>1
    <3>2. CASE ~done
      <4>1. (data').latest = data.latest  BY <2>2, <3>2 DEF Recorded
      <4> QED  BY <4>1
    <3> QED  BY <3>1, <3>2
  <2> QED  BY <1>1, <1>2, <2>1, <2>3 DEF LatestInv
<1>6. CASE ~RestoreState /\ ~Crash /\ ~Record
  <2>1. /\ (data').latest = data.latest
        /\ phase' \in {"restored", "up"} => phase \in {"restored", "up"}
        BY <1>6, LatestKept
  <2>2. CASE (file').data = file.data  BY <1>1, <1>2, <2>1, <2>2 DEF LatestInv
  <2>3. CASE (file').data = data /\ UNCHANGED <<data, clock, phase>>
        BY <1>1, <1>2, <2>3 DEF LatestInv
  <2> QED  BY <2>2, <2>3, FileContent
<1> QED  BY <1>3, <1>4, <1>5, <1>6

\* What a restart finds: over any number of crashes and failing saves, wherever they happen,
\* the time of the latest success in the file, or in the save that has cut it, never goes
\* back (saveState writes all data under one lock).  A cut file is read by no later start.
THEOREM SavedSuccessesOnlyAdvance ==
    Spec => [][\A k \in Kind : file.data.latest[k] <= (file').data.latest[k]]_vars
<1>1. Init => LatestInv
  <2> SUFFICES ASSUME Init PROVE LatestInv  OBVIOUS
  <2>1. PICK t \in Successes : file = [whole |-> TRUE, data |-> [NewData EXCEPT !.latest["initial"] = t]]
        BY DEF Init
  <2>2. \A k \in Kind : data.latest[k] = 0 /\ file.data.latest[k] \in {0, t}
        BY <2>1 DEF Init, NewData
  <2>3. phase = "down" /\ clock \in Nat /\ t \in 0..clock  BY PublicationAssumption DEF Init
  <2> QED  BY <2>2, <2>3 DEF LatestInv
<1>2. IInv /\ IInv' /\ LatestInv /\ [Next]_vars => LatestInv'  BY LatestStep
<1>3. IInv /\ LatestInv /\ [Next]_vars
        => [\A k \in Kind : file.data.latest[k] <= (file').data.latest[k]]_vars
  <2> SUFFICES ASSUME IInv, LatestInv, [Next]_vars, NEW k \in Kind
               PROVE  file.data.latest[k] <= (file').data.latest[k]
      OBVIOUS
  <2>1. file.data.latest[k] \in Nat  BY DEF IInv, StoreType, DataType
  <2> QED  BY <2>1, FileContent DEF LatestInv
<1> QED  BY <1>1, <1>2, <1>3, Invariance, PTL DEF Spec
=============================================================================
