------------------------ MODULE SchedulePublication ------------------------
(***************************************************************************)
(* How the scheduler gets its schedules published to the energy management *)
(* system of the grid operator (FMS): the daily cron job and the reports of*)
(* deviations request publications, the worker of the optimization queue   *)
(* attempts them, an attempt that fails is remembered in SchedulerData, and*)
(* a periodic job retries it.  SchedulerData is saved to a file, which is  *)
(* all that survives a crash; the start-up sequence picks up from there.   *)
(* A save may fail, and the program goes on without noticing.              *)
(*                                                                         *)
(* The races inside the queue are the subject of OptimizationQueue: here   *)
(* taking a job and queueing one are single steps.  The retry job runs at  *)
(* any time: its period is not related to how long an attempt takes.       *)
(***************************************************************************)
EXTENDS SortedMaps

CONSTANTS
    DayLength,   \* seconds per day
    PublishAt,   \* second of the day at which the publishing cron job is due
    MinUpdate,   \* minimumScheduleUpdatePublicationInterval
    StartTime,   \* time of the first start
    Successes,   \* times of a success that the file may hold then, 0 for no file
    MaxTime,     \* bound on the clock
    MaxCrashes,  \* bound on the number of crashes
    MaxReports,  \* bound on the number of reported deviations
    MaxAnswers,  \* bound on the number of target schedules the FMS sends
    MaxFailures, \* bound on the number of saves that fail
    MaxTogether, \* bound on the four together
    None         \* null

ASSUME PublicationAssumption ==
    /\ DayLength \in Nat \ {0} /\ PublishAt \in 0..(DayLength - 1)
    /\ MinUpdate \in Nat /\ MaxCrashes \in Nat /\ MaxReports \in Nat /\ MaxAnswers \in Nat
    /\ MaxFailures \in Nat /\ MaxTogether \in Nat
    /\ StartTime \in Nat /\ MaxTime \in Nat /\ StartTime <= MaxTime
    /\ StartTime > 3 * DayLength  \* the epoch is long past
    /\ Successes \subseteq 0..StartTime
    /\ MinUpdate <= StartTime

VARIABLES
    clock,      \* timeService.now()
    crashes,    \* counts crashes
    reports,    \* counts reported deviations
    answers,    \* counts target schedules sent by the FMS
    failures,   \* counts saves that fail
    phase,      \* of Scheduler.run: "down", "restored", "up", or "failed" for good
    data,       \* SchedulerData in memory
    file,       \* schedulerDataFile: whether it is complete, and what was to be written
    silent,     \* whether the latest save of this life failed; the program has no such flag
    queue,      \* kind |-> map from due time to request
    lastUpdate, \* latestUpdatePublicationRun of the queue
    cronAt,     \* nextExecution of the publishing cron job
    retry,      \* the thread of RetrySchedulePublicationJob: step, kind it looks at
    wpc,        \* the worker: "idle", "solve", "target", "record", "save", "saving"
    request,    \* the publication it attempts
    done,       \* its local schedulePublished
    poll,       \* the thread that polls the FMS: "idle", "save", "saving"
    published   \* the initial schedules the FMS has accepted and may yet answer

bounds == <<clock, crashes, reports, answers, failures>>
disk == <<file, silent>>
workerVars == <<wpc, request, done>>
fmsVars == <<poll, published>>
vars == <<bounds, phase, data, disk, queue, lastUpdate, cronAt, retry, workerVars, fmsVars>>

Kind == {"initial", "update"}
Request == [kind : Kind, from : Nat, to : Nat]  \* SchedulePublishingData
ASSUME NullAssumption == None \notin Request

DayStart(t) == t - (t % DayLength)
Tomorrow(t) == DayStart(t) + DayLength
InitialFor(from) == [kind |-> "initial", from |-> from, to |-> Tomorrow(from)]
Bounded == crashes + reports + answers + failures < MaxTogether
Answers == answers < MaxAnswers /\ Bounded  \* the FMS may send one more
NextCron(t) ==
    LET today == DayStart(t) + PublishAt IN IF today > t THEN today ELSE today + DayLength

NewData == [latest |-> [k \in Kind |-> 0],
            incomplete |-> [k \in Kind |-> None],
            target |-> EmptyMap]
StartOfRetry == [at |-> "check", kind |-> "update"]

Init ==
    /\ clock = StartTime /\ crashes = 0 /\ reports = 0 /\ answers = 0 /\ failures = 0
    /\ phase = "down"
    /\ data = NewData
    /\ file \in {[whole |-> TRUE, data |-> [NewData EXCEPT !.latest["initial"] = t]] :
                  t \in Successes}  \* no file: preset values
    /\ silent = FALSE
    /\ queue = [k \in Kind |-> EmptyMap] /\ lastUpdate = 0
    /\ cronAt = 0 /\ retry = StartOfRetry
    /\ wpc = "idle" /\ request = None /\ done = FALSE
    /\ poll = "idle" /\ published = {}

\* Nobody holds the lock of the scheduler, which is held for long by saveState only.
Unlocked == wpc # "saving" /\ poll # "saving"

---------------------------------------------------------------------------
(* Start-up and crash. *)

\* Scheduler.run: restore the state and drop publications whose time is over.  A file
\* cut short is read as null, and the first access to the data throws.
RestoreState ==
    /\ phase = "down"
    /\ IF file.whole
       THEN /\ phase' = "restored"
            /\ data' = [file.data EXCEPT !.incomplete =
                          [k \in Kind |-> IF @[k] # None /\ @[k].to < clock THEN None ELSE @[k]]]
       ELSE phase' = "failed" /\ UNCHANGED data
    /\ UNCHANGED <<bounds, disk, queue, lastUpdate, cronAt, retry, workerVars, fmsVars>>

\* The publication made up for when the latest success is more than a day old: for the
\* day after the one it was due, or, when that is over, for the rest of today.
Overdue(latest) ==
    LET missed == InitialFor(DayStart(latest) + 2 * DayLength)
    IN  IF missed.to < clock THEN InitialFor(clock) ELSE missed

\* Once the bus is connected: the queue with its worker, the cron job, the overdue
\* publication and the retry job.
ScheduleJobs ==
    /\ phase = "restored"
    /\ phase' = "up"
    /\ cronAt' = NextCron(clock)
    /\ IF data.latest["initial"] + DayLength <= clock
       THEN /\ data' = [data EXCEPT !.incomplete["initial"] = None]
            /\ queue' = [queue EXCEPT !["initial"] =
                           Put(@, clock, Overdue(data.latest["initial"]))]
       ELSE UNCHANGED <<data, queue>>
    /\ UNCHANGED <<bounds, disk, lastUpdate, retry, workerVars, fmsVars>>

\* The process ends at any time; all but the file is gone.
Crash ==
    /\ phase \in {"restored", "up"} /\ crashes < MaxCrashes /\ Bounded
    /\ crashes' = crashes + 1
    /\ phase' = "down"
    /\ data' = NewData
    /\ queue' = [k \in Kind |-> EmptyMap] /\ lastUpdate' = 0
    /\ cronAt' = 0 /\ retry' = StartOfRetry
    /\ wpc' = "idle" /\ request' = None /\ done' = FALSE /\ poll' = "idle"
    /\ silent' = FALSE
    /\ UNCHANGED <<clock, reports, answers, failures, file, published>>

---------------------------------------------------------------------------
(* Requests. *)

LastSlot(t) ==
    IF NothingDue(queue["update"], t) THEN {lastUpdate}
    ELSE {Larger(k, lastUpdate) : k \in FloorKeys(queue["update"], t)}

\* queueSchedulePublication: initial publications replace one queued in the same
\* second, updates are throttled.
QueueSchedulePublication(r) ==
    IF r.kind = "initial"
    THEN queue' = [queue EXCEPT !["initial"] = Put(@, clock, r)]
    ELSE \E floor \in LastSlot(clock) :
           IF NothingFrom(queue["update"], clock) /\ floor + MinUpdate <= clock
           THEN queue' = [queue EXCEPT !["update"] = Put(@, Larger(clock, floor + MinUpdate), r)]
           ELSE UNCHANGED queue

\* The publishing cron job: the schedule of tomorrow.
PublishDaily ==
    /\ phase = "up" /\ cronAt <= clock
    /\ QueueSchedulePublication(InitialFor(Tomorrow(clock)))
    /\ cronAt' = NextCron(clock)
    /\ UNCHANGED <<bounds, phase, data, disk, lastUpdate, retry, workerVars, fmsVars>>

\* setTargetSchedule and getTargetSchedule remove the schedules that have ended.
Current(target) ==
    LET live == {f \in DOMAIN target : target[f].to >= clock} IN [f \in live |-> target[f]]

\* The worker, in a target schedule optimization, finds that the target cannot be met.
ReportDeviation ==
    /\ phase = "up" /\ wpc = "idle" /\ reports < MaxReports /\ Bounded
    /\ reports' = reports + 1
    /\ ~NothingDue(Current(data.target), clock)
    /\ data' = [data EXCEPT !.target = Current(@)]
    /\ QueueSchedulePublication([kind |-> "update", from |-> clock, to |-> Tomorrow(clock)])
    /\ UNCHANGED <<clock, crashes, answers, failures, phase, disk, lastUpdate, cronAt, retry, workerVars, fmsVars>>

---------------------------------------------------------------------------
(* RetrySchedulePublicationJob.run: first the update, then the initial publication.
   Its reads of the shared field are separate steps; one that finds null where an
   earlier one did not throws, and the executor drops a periodic job that throws.  *)

RetryUpdatesOnly == retry' = StartOfRetry  \* mutant: returns after the update
RetryNext ==
    retry' = IF retry.kind = "update" THEN [at |-> "check", kind |-> "initial"] ELSE StartOfRetry

Incomplete == data.incomplete[retry.kind]
RetryAt(step) ==
    /\ phase = "up" /\ retry.at = step
    /\ UNCHANGED <<bounds, phase, disk, lastUpdate, cronAt, workerVars, fmsVars>>

RetryCheck ==
    /\ RetryAt("check")
    /\ IF Incomplete = None THEN RetryNext ELSE retry' = [retry EXCEPT !.at = "compare"]
    /\ UNCHANGED <<data, queue>>

OverBefore(to) == to < clock
NeverOver(to) == FALSE  \* mutant: the retry job queues whatever is incomplete
OverSince(to) == to <= clock

RetryCompare ==
    /\ RetryAt("compare")
    /\ retry' = [retry EXCEPT !.at =
                   IF Incomplete = None THEN "dead"
                   ELSE IF OverSince(Incomplete.to) THEN "drop" ELSE "queue"]
    /\ UNCHANGED <<data, queue>>

RetryDrop ==
    /\ RetryAt("drop")
    /\ data' = [data EXCEPT !.incomplete[retry.kind] = None]
    /\ RetryNext
    /\ UNCHANGED queue

RetryQueue ==
    /\ RetryAt("queue")
    /\ IF Incomplete = None
       THEN retry' = [retry EXCEPT !.at = "dead"] /\ UNCHANGED queue
       ELSE QueueSchedulePublication(Incomplete) /\ RetryNext
    /\ UNCHANGED data

RetryJob == RetryCheck \/ RetryCompare \/ RetryDrop \/ RetryQueue

---------------------------------------------------------------------------
(* The worker: SchedulerController.publishSchedule. *)

Heads == {h \in [kind : Kind, key : UNION {DOMAIN queue[k] : k \in Kind}] :
            h.key \in FloorKeys(queue[h.kind], clock)}
Before(g, h) == g.key < h.key \/ (g.key = h.key /\ (g.kind = "initial" \/ g.kind = h.kind))

\* It takes the first due request.  One whose time is over is not attempted, but the
\* finally block treats it as a failure.
TakeRequest ==
    /\ phase = "up" /\ wpc = "idle"
    /\ \E h \in Heads :
         /\ \A g \in Heads : Before(h, g)
         /\ request' = queue[h.kind][h.key]
         /\ queue' = [queue EXCEPT ![h.kind] = Without(@, h.key)]
         /\ lastUpdate' = IF h.kind = "update" THEN clock ELSE lastUpdate
    /\ wpc' = IF OverBefore(request'.to) THEN "record" ELSE "solve"
    /\ done' = FALSE
    /\ UNCHANGED <<bounds, phase, data, disk, cronAt, retry, fmsVars>>

\* The result is handed to the FMS, which accepts it or not.  An update is compared with
\* the current target before, and one that deviates little is done without publishing.
\* Any call may throw before that.
Publish(accepted) ==
    /\ phase = "up" /\ wpc = "solve"
    /\ done' = accepted
    /\ IF request.kind = "initial"
       THEN /\ wpc' = "target"
            /\ published' = IF accepted /\ Answers THEN published \cup {request} ELSE published
            /\ UNCHANGED data
       ELSE /\ wpc' = "record"
            /\ data' = [data EXCEPT !.target = Current(@)]
            /\ UNCHANGED published
    /\ UNCHANGED <<bounds, phase, disk, queue, lastUpdate, cronAt, retry, request, poll>>

\* An initial schedule becomes the target schedule, whether the FMS has accepted it or
\* not.
FollowOwnSchedule ==
    /\ phase = "up" /\ wpc = "target" /\ Unlocked
    /\ wpc' = "record"
    /\ data' = [data EXCEPT !.target =
                  Put(Current(@), request.from, [by |-> "own", to |-> request.to])]
    /\ UNCHANGED <<bounds, phase, disk, queue, lastUpdate, cronAt, retry, request, done, fmsVars>>

PublishThrows ==
    /\ phase = "up" /\ wpc = "solve"
    /\ wpc' = "record" /\ done' = FALSE
    /\ UNCHANGED <<bounds, phase, data, disk, queue, lastUpdate, cronAt, retry,
                   request, fmsVars>>

\* finally: a failure is remembered, a success forgets what failed before.
RecordedAsUpdate ==  \* mutant: every failure is remembered as one of an update
    IF done
    THEN [data EXCEPT !.incomplete[request.kind] = None, !.latest[request.kind] = clock]
    ELSE [data EXCEPT !.incomplete["update"] = request]
Recorded ==
    IF done
    THEN [data EXCEPT !.incomplete[request.kind] = None, !.latest[request.kind] = clock]
    ELSE [data EXCEPT !.incomplete[request.kind] = request]

AfterSuccess == IF done THEN "save" ELSE "idle"  \* mutant: only a success is saved
AfterRecord == "save"

Record ==
    /\ phase = "up" /\ wpc = "record" /\ Unlocked
    /\ data' = Recorded
    /\ wpc' = AfterRecord /\ request' = None /\ done' = FALSE
    /\ UNCHANGED <<bounds, phase, disk, queue, lastUpdate, cronAt, retry, fmsVars>>

\* saveState: the content is collected and the file truncated, both under the lock of
\* the scheduler; the file is whole again when it is closed.  A file that cannot be opened
\* stays as it is, and one that cannot be written stays cut: neither error leaves
\* Json.writeFile.
Truncate == file' = [whole |-> FALSE, data |-> data] /\ UNCHANGED <<failures, silent>>
Close == file' = [file EXCEPT !.whole = TRUE] /\ silent' = FALSE /\ UNCHANGED failures
Fail ==
    /\ failures < MaxFailures /\ Bounded
    /\ failures' = failures + 1 /\ silent' = TRUE
    /\ UNCHANGED file

\* A thread at `step' of its save goes on to `next'.
Save(step, next) ==
    \/ step = "save" /\ next = "saving" /\ Unlocked /\ Truncate
    \/ step = "save" /\ next = "idle" /\ Unlocked /\ Fail
    \/ step = "saving" /\ next = "idle" /\ Close
    \/ step = "saving" /\ next = "idle" /\ Fail
OtherBounds == <<clock, crashes, reports, answers>>

SaveOutcome ==
    /\ phase = "up"
    /\ \E next \in {"saving", "idle"} : Save(wpc, next) /\ wpc' = next
    /\ UNCHANGED <<OtherBounds, phase, data, queue, lastUpdate, cronAt, retry,
                   request, done, fmsVars>>

\* The FMS answers an initial schedule with a target schedule; the thread that polls
\* for it stores and saves it.
SetTargetSchedule(r) ==
    /\ phase \in {"restored", "up"} /\ poll = "idle" /\ Unlocked
    /\ r \in published /\ Answers
    /\ answers' = answers + 1
    /\ data' = [data EXCEPT !.target = Put(Current(@), r.from, [by |-> "fms", to |-> r.to])]
    /\ published' = IF Answers' THEN published \ {r} ELSE {}
    /\ poll' = "save"
    /\ UNCHANGED <<clock, crashes, reports, failures, phase, disk, queue, lastUpdate, cronAt, retry, workerVars>>

SaveTargetSchedule ==
    /\ \E next \in {"saving", "idle"} : Save(poll, next) /\ poll' = next
    /\ UNCHANGED <<OtherBounds, phase, data, queue, lastUpdate, cronAt, retry,
                   workerVars, published>>

Tick ==
    /\ clock < MaxTime
    /\ clock' = clock + 1
    /\ UNCHANGED <<crashes, reports, answers, failures, phase, data, disk, queue, lastUpdate, cronAt, retry,
                   workerVars, fmsVars>>

StartUp == RestoreState \/ ScheduleJobs
Attempt == PublishThrows \/ FollowOwnSchedule \/ \E accepted \in BOOLEAN : Publish(accepted)
Worker == TakeRequest \/ Attempt \/ Record \/ SaveOutcome

Next ==
    \/ StartUp
    \/ Crash
    \/ PublishDaily
    \/ ReportDeviation
    \/ RetryJob
    \/ Worker
    \/ \E r \in published : SetTargetSchedule(r)
    \/ SaveTargetSchedule
    \/ Tick

Spec == Init /\ [][Next]_vars

\* The JVM runs the start-up, the worker and the executors of the periodic jobs; a
\* call to the FMS returns or throws; nothing is assumed of its result, of crashes, of
\* failing saves or of the deviations.
FairSpec ==
    /\ Spec
    /\ WF_vars(StartUp) /\ WF_vars(Worker) /\ WF_vars(RetryJob)
    /\ WF_vars(PublishDaily) /\ WF_vars(SaveTargetSchedule) /\ WF_vars(Tick)

---------------------------------------------------------------------------
(* Properties. *)

TypeOK ==
    /\ clock \in StartTime..MaxTime /\ crashes \in 0..MaxCrashes /\ reports \in 0..MaxReports
    /\ answers \in 0..MaxAnswers /\ failures \in 0..MaxFailures /\ silent \in BOOLEAN
    /\ phase \in {"down", "restored", "up", "failed"}
    /\ \A d \in {data, file.data} :
         /\ d.latest \in [Kind -> Nat]
         /\ \A k \in Kind : d.incomplete[k] = None
                            \/ (d.incomplete[k] \in Request /\ d.incomplete[k].kind = k)
         /\ \A f \in DOMAIN d.target : f < d.target[f].to /\ d.target[f].by \in {"own", "fms"}
    /\ file.whole \in BOOLEAN /\ done \in BOOLEAN
    /\ \A k \in Kind : \A t \in DOMAIN queue[k] : t \in Nat /\ queue[k][t] \in Request
    /\ lastUpdate \in Nat /\ cronAt \in Nat
    /\ retry \in [at : {"check", "compare", "drop", "queue", "dead"}, kind : Kind]
    /\ wpc \in {"idle", "solve", "target", "record", "save", "saving"}
    /\ request # None <=> wpc \in {"solve", "target", "record"}
    /\ poll \in {"idle", "save", "saving"} /\ ~(poll = "saving" /\ wpc = "saving")
    /\ published \subseteq Request

\* Crash safety of the outcome: from the moment the worker is free for the next job,
\* the file holds the success or the failure of every attempt of this life, so that a
\* restart neither forgets a failure nor repeats a success it had recorded.  Excused are
\* the time after a save that failed unnoticed, until one succeeds, and a file that the
\* other thread is writing: a crash then leaves it cut.
OutcomeSaved ==
    phase = "up" /\ wpc \in {"idle", "solve"} /\ ~silent =>
        /\ file.whole \/ poll = "saving"
        /\ \A k \in Kind :
             /\ file.data.latest[k] = data.latest[k]
             /\ data.incomplete[k] # None => file.data.incomplete[k] = data.incomplete[k]

RetryAlive == phase = "up" /\ retry.at # "dead"

\* An initial publication that failed is attempted again, unless it is given up, the
\* retry job has died or the process goes down: no interleaving of the retry job, the
\* cron job, updates and the worker leaves it aside for ever.
IncompleteIsRetried ==
    []<>(~RetryAlive \/ data.incomplete["initial"] = None
         \/ (wpc \in {"solve", "target", "record"} /\ request.kind = "initial"))

\* A publication whose day is over is given up, although attempts that were queued
\* before may still put it back.
Stale(k) == data.incomplete[k] # None /\ data.incomplete[k].to <= clock
StaleIsGivenUp == \A k \in Kind : []<>(~RetryAlive \/ ~Stale(k))
=============================================================================
