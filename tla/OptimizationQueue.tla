------------------------- MODULE OptimizationQueue -------------------------
(***************************************************************************)
(* The scheduler's optimization queue: three maps from a due time to a     *)
(* job (initial publications, update publications, target schedule         *)
(* optimizations), the worker thread that executes due jobs, and the two   *)
(* operations other threads call to queue a job.                           *)
(*                                                                         *)
(* A step is what the code does without interference: one critical section *)
(* under queueLock, or one map access of the worker outside it.  The worker*)
(* reads the time before it takes queueLock, and reads and removes a job   *)
(* after it has released it; queueSchedulePublication reads the time       *)
(* before it takes the lock.  These windows are separate steps here.       *)
(***************************************************************************)
EXTENDS SortedMaps

CONSTANTS
    Initials,    \* requests to publish an initial schedule (SchedulePublishingData)
    Updates,     \* requests to publish a schedule update
    Compliance,  \* the content of every TargetScheduleOptimizationData (it has none)
    MinUpdate,   \* minimumScheduleUpdatePublicationInterval, in seconds
    MinTarget,   \* minimumComplianceOptimizationInterval, in seconds
    StartTime,   \* epoch second at which the queue is created
    MaxTime      \* bound on the clock

Publications == Initials \cup Updates
Kind == {"initial", "update", "target"}
KindOf(d) == IF d \in Initials THEN "initial" ELSE "update"

ASSUME QueueAssumption ==
    /\ Initials \cap Updates = {}
    /\ Compliance \notin Publications
    /\ MinUpdate \in Nat \ {0}  \* an interval of 0 switches throttling off
    /\ MinTarget \in Nat
    /\ StartTime \in Nat /\ MaxTime \in Nat
    /\ MinUpdate <= StartTime  \* the epoch lies further back than the intervals
    /\ MinTarget <= StartTime

VARIABLES
    clock,   \* timeService.now()
    queue,   \* kind |-> map from due time to job data
    latest,  \* kind |-> latest...Run: the worker's time when it last took a job
    wpc,     \* the worker thread: where it stands in Worker.run
    wnow,    \* its local "now"
    wkind,   \* the queue it picked a job from
    wkey,    \* its local "min"
    wdata,   \* its local "data"
    calls,   \* calls of queueSchedulePublication between their first line and the lock
    fate,    \* history: what became of each publication request
    runs     \* history: the publications handed to the observer

workerVars == <<wpc, wnow, wkind, wkey, wdata>>
vars == <<clock, queue, latest, workerVars, calls, fate, runs>>

WorkerPc == {"loop", "lock", "waiting", "get", "remove", "run"}
Fate == {"new", "calling", "dropped", "accepted"}

\* The local "floor" of both queue operations: the latest time, up to t, at which
\* a job of this kind was queued and still waits, or was taken by the worker.
LastSlotWaiting(kind, t) ==
    IF NothingDue(queue[kind], t) THEN {0} ELSE FloorKeys(queue[kind], t)
LastSlot(kind, t) ==
    IF NothingDue(queue[kind], t) THEN {latest[kind]}
    ELSE {Larger(k, latest[kind]) : k \in FloorKeys(queue[kind], t)}

Init ==
    /\ clock = StartTime
    /\ queue = [kind \in Kind |-> EmptyMap]
    /\ latest = [kind \in Kind |-> 0]
    /\ wpc = "loop" /\ wnow = 0 /\ wkind = "target" /\ wkey = 0
    /\ wdata = Compliance
    /\ calls = {}
    /\ fate = [d \in Publications |-> "new"]
    /\ runs = {}

---------------------------------------------------------------------------
(* The operations other threads call. *)

\* queueLock.notifyAll(): only the worker waits on queueLock.
NotifyForgotten == wpc' = wpc
Notify == wpc' = IF wpc = "waiting" THEN "loop" ELSE wpc

Enqueue(kind, key, d) ==
    /\ queue' = [queue EXCEPT ![kind] = Put(queue[kind], key, d)]
    /\ Notify

\* The whole body runs under queueLock, the clock is read inside.
QueueTargetScheduleOptimization(force) ==
    /\ \E floor \in LastSlot("target", clock) :
         /\ \/ force
            \/ NothingFrom(queue["target"], clock) /\ floor + MinTarget <= clock
         /\ Enqueue("target", Larger(clock, floor + MinTarget), Compliance)
    /\ UNCHANGED <<clock, latest, wnow, wkind, wkey, wdata, calls, fate, runs>>

\* queueSchedulePublication, first line: the caller reads the time, then it may
\* have to wait for queueLock.
CallQueueSchedulePublication(d) ==
    /\ fate[d] = "new"
    /\ fate' = [fate EXCEPT ![d] = "calling"]
    /\ calls' = calls \cup {[data |-> d, now |-> clock]}
    /\ UNCHANGED <<clock, queue, latest, workerVars, runs>>

\* queueSchedulePublication, the part under queueLock: initial publications are
\* always put, updates only at the minimum distance from the one before.
QueueInitialPublication(c) ==
    /\ c.data \in Initials
    /\ Enqueue("initial", c.now, c.data)
    /\ calls' = calls \ {c}
    /\ fate' = [fate EXCEPT ![c.data] = "accepted"]
    /\ UNCHANGED <<clock, latest, wnow, wkind, wkey, wdata, runs>>

UpdateAllowed(t, floor) ==
    NothingFrom(queue["update"], t) /\ floor + MinUpdate <= t

QueueUpdateAsInitial(c) ==
    /\ c.data \in Updates
    /\ Enqueue("initial", c.now, c.data)
    /\ fate' = [fate EXCEPT ![c.data] = "accepted"]
    /\ calls' = calls \ {c}
    /\ UNCHANGED <<clock, latest, wnow, wkind, wkey, wdata, runs>>

QueueUpdatePublication(c) ==
    /\ c.data \in Updates
    /\ \E floor \in LastSlot("update", c.now) :
         IF UpdateAllowed(c.now, floor)
         THEN /\ Enqueue("update", Larger(c.now, floor + MinUpdate), c.data)
              /\ fate' = [fate EXCEPT ![c.data] = "accepted"]
         ELSE /\ fate' = [fate EXCEPT ![c.data] = "dropped"]
              /\ UNCHANGED <<queue, wpc>>
    /\ calls' = calls \ {c}
    /\ UNCHANGED <<clock, latest, wnow, wkind, wkey, wdata, runs>>

---------------------------------------------------------------------------
(* The worker thread. *)

ReadTime ==
    /\ wpc = "loop"
    /\ wnow' = clock
    /\ wpc' = "lock"
    /\ UNCHANGED <<clock, queue, latest, wkind, wkey, wdata, calls, fate, runs>>

\* The jobs the worker may start: per queue the one floorKey returns.
Heads == {h \in [kind : Kind, key : UNION {DOMAIN queue[kind] : kind \in Kind}] :
            h.key \in FloorKeys(queue[h.kind], wnow)}

\* Smallest key first; at equal keys initial, then update, then target.
Before(g, h) ==
    \/ g.key < h.key
    \/ /\ g.key = h.key
       /\ g.kind = "initial" \/ h.kind = "target" \/ g.kind = h.kind

\* Critical section under queueLock: pick the next job, or wait when none is due.
\* Since floorKey never returns a key after wnow, the timed wait is unreachable.
SelectJob ==
    /\ wpc = "lock"
    /\ \/ /\ \A kind \in Kind : NothingDue(queue[kind], wnow)
          /\ wpc' = "waiting"
          /\ UNCHANGED <<wkind, wkey>>
       \/ \E h \in Heads :
            /\ \A g \in Heads : Before(h, g)
            /\ wpc' = "get"
            /\ wkind' = h.kind
            /\ wkey' = h.key
    /\ UNCHANGED <<clock, queue, latest, wnow, wdata, calls, fate, runs>>

\* Object.wait() may return without a notification.
SpuriousWakeup ==
    /\ wpc = "waiting"
    /\ wpc' = "loop"
    /\ UNCHANGED <<clock, queue, latest, wnow, wkind, wkey, wdata, calls, fate, runs>>

GetFirstJob ==
    /\ wpc = "get"
    /\ \E k \in DOMAIN queue[wkind] :
         /\ \A j \in DOMAIN queue[wkind] : k <= j
         /\ wdata' = queue[wkind][k]
    /\ wpc' = "remove"
    /\ UNCHANGED <<clock, queue, latest, wnow, wkind, wkey, calls, fate, runs>>

\* ...Queue.get(min), outside every lock
GetJob ==
    /\ wpc = "get"
    /\ wdata' = queue[wkind][wkey]
    /\ wpc' = "remove"
    /\ UNCHANGED <<clock, queue, latest, wnow, wkind, wkey, calls, fate, runs>>

\* latest...Run = now and remove(min), under the lock of the map alone; then the
\* job is handed to observer.update(data).
RemoveJob ==
    /\ wpc = "remove"
    /\ latest' = [latest EXCEPT ![wkind] = wnow]
    /\ queue' = [queue EXCEPT ![wkind] = Without(queue[wkind], wkey)]
    /\ runs' = IF wkind = "target" THEN runs
               ELSE runs \cup {[data |-> wdata, key |-> wkey, at |-> clock]}
    /\ wpc' = "run"
    /\ UNCHANGED <<clock, wnow, wkind, wkey, wdata, calls, fate>>

\* observer.update(data) returns or throws: either way the loop continues.  The
\* locals are dead from here; giving them back their first values merges states.
FinishJob ==
    /\ wpc = "run"
    /\ wpc' = "loop"
    /\ wnow' = 0 /\ wkind' = "target" /\ wkey' = 0 /\ wdata' = Compliance
    /\ UNCHANGED <<clock, queue, latest, calls, fate, runs>>

Tick ==
    /\ clock < MaxTime
    /\ clock' = clock + 1
    /\ UNCHANGED <<queue, latest, workerVars, calls, fate, runs>>

Worker == ReadTime \/ SelectJob \/ GetJob \/ RemoveJob \/ FinishJob
EnterQueue == \E c \in calls : QueueInitialPublication(c) \/ QueueUpdatePublication(c)

Next ==
    \/ Worker
    \/ SpuriousWakeup
    \/ EnterQueue
    \/ \E d \in Publications : CallQueueSchedulePublication(d)
    \/ \E force \in BOOLEAN : QueueTargetScheduleOptimization(force)
    \/ Tick

Spec == Init /\ [][Next]_vars

\* The JVM schedules the worker and a caller that waits for queueLock; time passes.
FairSpec == Spec /\ WF_vars(Worker) /\ WF_vars(EnterQueue) /\ WF_vars(Tick)

\* In addition the daily job of Scheduler.run forces an optimization again and again.
DailySpec == FairSpec /\ WF_vars(QueueTargetScheduleOptimization(TRUE))
---------------------------------------------------------------------------
(* Properties. *)

UpdateRuns == {r \in runs : r.data \in Updates}
UpdateKeys == DOMAIN queue["update"] \cup {r.key : r \in UpdateRuns}

TypeOK ==
    /\ clock \in Nat /\ clock >= StartTime
    /\ DOMAIN queue = Kind
    /\ \A kind \in Kind :
         /\ queue[kind] = [k \in DOMAIN queue[kind] |-> queue[kind][k]]
         /\ DOMAIN queue[kind] \subseteq Nat
    /\ \A k \in DOMAIN queue["initial"] : queue["initial"][k] \in Initials
    /\ \A k \in DOMAIN queue["update"] : queue["update"][k] \in Updates
    /\ \A k \in DOMAIN queue["target"] : queue["target"][k] = Compliance
    /\ latest \in [Kind -> Nat]
    /\ wpc \in WorkerPc
    /\ wnow \in Nat /\ wkind \in Kind /\ wkey \in Nat
    /\ wdata \in Publications \cup {Compliance}
    /\ calls \subseteq [data : Publications, now : Nat]
    /\ fate \in [Publications -> Fate]
    /\ runs \subseteq [data : Publications, key : Nat, at : Nat]

\* The worker never sleeps on work: while it waits on queueLock, every queued job
\* lies after the time it had read before it took the lock (Worker.run, 43-77).
SleepsOnlyWhenNothingDue ==
    wpc = "waiting" => \A kind \in Kind : NothingDue(queue[kind], wnow)

\* Throttling of updates: the due times of all updates ever queued, waiting or
\* already taken, lie at least minimumScheduleUpdatePublicationInterval apart,
\* however late the worker is and however old the time a caller has read.
UpdateSlotsSpaced ==
    /\ \A j, k \in UpdateKeys : j < k => j + MinUpdate <= k
    /\ \A r, s \in UpdateRuns : r # s => r.key # s.key

\* An update that was put into the queue waits there, is held by the worker, or was
\* handed to the observer; no later put ever replaces it.
Waits(d) == \E k \in DOMAIN queue[KindOf(d)] : queue[KindOf(d)][k] = d
HasRun(d) == \E r \in runs : r.data = d
NotLost(d) == fate[d] = "accepted" => (Waits(d) \/ HasRun(d))
NoUpdateLost == \A d \in Updates : NotLost(d)

\* The queue implements JobService for the updates it accepts: each of them is started
\* exactly once and alone, although get(min) and remove(min) are two steps.
UpdateService == INSTANCE JobService WITH
    Jobs <- Updates,
    waiting <- {queue["update"][k] : k \in DOMAIN queue["update"]},
    current <- IF wpc = "run" /\ wkind = "update" THEN {wdata} ELSE {},
    started <- {r.data : r \in UpdateRuns}
UpdatesStartOnce == UpdateService!Spec

\* No job starves: again and again there is a moment when no job of its kind is due,
\* so that one that falls due is taken off its queue.
DueJobsAreTaken == \A kind \in Kind : []<>NothingDue(queue[kind], clock)
=============================================================================
