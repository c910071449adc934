---------------------- MODULE OptimizationQueueProofs ----------------------
(* Proofs about OptimizationQueue, for every set of requests, all intervals *)
(* and every bound on the clock.                                            *)
EXTENDS OptimizationQueue, TLAPS

UpdateQ == queue["update"]

\* What the worker has picked stays in its queue until the worker removes it, and an
\* update it has read is still the one stored there.
WorkerInv ==
    /\ wpc \in {"get", "remove"} => wkey \in DOMAIN queue[wkind] /\ wkey <= wnow
    /\ wpc = "remove" /\ wkind = "update" => wdata = UpdateQ[wkey]
    /\ wpc = "remove" /\ wkind = "initial" => wdata \in Initials
    /\ wpc = "run" /\ wkind = "update" => wdata \in Updates
    /\ SleepsOnlyWhenNothingDue

\* No local time lies ahead of the clock, and the last time an update was taken bounds
\* the due times of all updates taken so far.
SlotInv ==
    /\ wnow <= clock
    /\ \A c \in calls : c.now <= clock
    /\ latest["update"] <= clock
    /\ wpc \in {"lock", "waiting", "get", "remove"} => latest["update"] <= wnow
    /\ \A r \in UpdateRuns : r.key <= latest["update"] /\ r.key \notin DOMAIN UpdateQ
    /\ UpdateSlotsSpaced

\* A request is at one place at a time.
JobInv ==
    /\ \A c \in calls : fate[c.data] = "calling"
    /\ \A c, e \in calls : c.data = e.data => c = e
    /\ \A k \in DOMAIN UpdateQ :
         /\ fate[UpdateQ[k]] = "accepted"
         /\ ~HasRun(UpdateQ[k])
         /\ \A j \in DOMAIN UpdateQ : UpdateQ[j] = UpdateQ[k] => j = k
    /\ \A r \in UpdateRuns : fate[r.data] = "accepted"
    /\ NoUpdateLost

IInv == TypeOK /\ WorkerInv /\ SlotInv /\ JobInv

---------------------------------------------------------------------------
(* The maps. *)

\* put and remove change a map at one key only.
LEMMA PutFacts ==
    ASSUME NEW q, NEW k, NEW d
    PROVE  /\ DOMAIN Put(q, k, d) = DOMAIN q \cup {k}
           /\ Put(q, k, d)[k] = d
           /\ \A x \in DOMAIN q : x # k => Put(q, k, d)[x] = q[x]
           /\ Put(q, k, d) = [x \in DOMAIN Put(q, k, d) |-> Put(q, k, d)[x]]
BY DEF Put

LEMMA WithoutFacts ==
    ASSUME NEW q, NEW k
    PROVE  /\ DOMAIN Without(q, k) = DOMAIN q \ {k}
           /\ \A x \in DOMAIN q : x # k => Without(q, k)[x] = q[x]
           /\ Without(q, k) = [x \in DOMAIN Without(q, k) |-> Without(q, k)[x]]
BY DEF Without

\* Replacing the map of one kind leaves the maps of the others alone.
LEMMA ReplaceFacts ==
    ASSUME TypeOK, NEW kind \in Kind, NEW m, queue' = [queue EXCEPT ![kind] = m]
    PROVE  /\ DOMAIN queue' = Kind
           /\ queue'[kind] = m
           /\ \A o \in Kind : o # kind => queue'[o] = queue[o]
BY DEF TypeOK

\* floor lies at or after the last time a job of the kind was taken and after every
\* waiting job of the kind that is due.
LEMMA LastSlotFacts ==
    ASSUME TypeOK, NEW kind \in Kind, NEW t \in Nat, NEW floor \in LastSlot(kind, t)
    PROVE  /\ floor \in Nat
           /\ latest[kind] <= floor
           /\ \A k \in DOMAIN queue[kind] : k <= t => k <= floor
<1>1. DOMAIN queue[kind] \subseteq Nat /\ latest[kind] \in Nat
  BY DEF TypeOK
<1>2. CASE NothingDue(queue[kind], t)
  BY <1>1, <1>2 DEF LastSlot, NothingDue
<1>3. CASE ~NothingDue(queue[kind], t)
  <2>1. PICK g \in FloorKeys(queue[kind], t) : floor = Larger(g, latest[kind])
    BY <1>3 DEF LastSlot
  <2>2. g \in Nat /\ \A k \in DOMAIN queue[kind] : k <= t => k <= g
    BY <1>1, <2>1 DEF FloorKeys
  <2> QED BY <1>1, <2>1, <2>2 DEF Larger
<1> QED BY <1>2, <1>3

---------------------------------------------------------------------------
(* The initial state. *)

LEMMA InitIInv == Init => IInv
<1> SUFFICES ASSUME Init PROVE IInv
  OBVIOUS
<1>1. \A kind \in Kind : queue[kind] = EmptyMap /\ DOMAIN queue[kind] = {}
  BY DEF Init, EmptyMap
<1>2. TypeOK
  BY <1>1, QueueAssumption DEF Init, TypeOK, EmptyMap, Kind, WorkerPc, Fate, Publications
<1>3. WorkerInv
  BY DEF Init, WorkerInv, SleepsOnlyWhenNothingDue
<1>4. UpdateKeys = {} /\ UpdateRuns = {} /\ DOMAIN UpdateQ = {}
  BY <1>1 DEF Init, UpdateKeys, UpdateRuns, UpdateQ, Kind
<1>5. SlotInv
  BY <1>4, QueueAssumption DEF Init, SlotInv, UpdateSlotsSpaced, Kind
<1>6. JobInv
  BY <1>4 DEF Init, JobInv, NoUpdateLost, NotLost, Publications
<1> QED BY <1>2, <1>3, <1>5, <1>6 DEF IInv

---------------------------------------------------------------------------
(* The steps that leave the queues and the histories alone. *)

LEMMA FrameJobs ==
    ASSUME JobInv, UNCHANGED <<queue, calls, fate, runs>>
    PROVE  JobInv'
BY DEF JobInv, UpdateQ, HasRun, UpdateRuns, NoUpdateLost, NotLost, Waits

LEMMA FrameSlots ==
    ASSUME SlotInv, UNCHANGED <<queue, latest, calls, runs>>,
           wnow' <= clock', clock' \in Nat, clock <= clock', TypeOK,
           wpc' \in {"lock", "waiting", "get", "remove"} => latest["update"] <= wnow'
    PROVE  SlotInv'
<1>1. latest["update"] \in Nat /\ clock \in Nat
  BY DEF TypeOK, Kind
<1>2. \A c \in calls : c.now \in Nat
  BY DEF TypeOK
<1>3. UpdateSlotsSpaced'
  BY DEF SlotInv, UpdateSlotsSpaced, UpdateKeys, UpdateRuns
<1>4. \A r \in UpdateRuns' : r.key <= latest'["update"] /\ r.key \notin DOMAIN UpdateQ'
  BY DEF SlotInv, UpdateRuns, UpdateQ
<1>5. latest'["update"] <= clock' /\ \A c \in calls' : c.now <= clock'
  BY <1>1, <1>2 DEF SlotInv
<1> QED BY <1>3, <1>4, <1>5 DEF SlotInv

LEMMA ReadTimeStep == IInv /\ ReadTime => IInv'
<1> SUFFICES ASSUME IInv, ReadTime PROVE IInv'
  OBVIOUS
<1> USE DEF IInv
<1>1. TypeOK'
  BY DEF TypeOK, ReadTime, WorkerPc
<1>2. WorkerInv'
  BY DEF WorkerInv, ReadTime, SleepsOnlyWhenNothingDue
<1>3. SlotInv'
  BY FrameSlots DEF SlotInv, ReadTime, TypeOK
<1>4. JobInv'
  BY FrameJobs DEF ReadTime
<1> QED BY <1>1, <1>2, <1>3, <1>4

LEMMA SelectJobStep == IInv /\ SelectJob => IInv'
<1> SUFFICES ASSUME IInv, SelectJob PROVE IInv'
  OBVIOUS
<1> USE DEF IInv
<1>1. CASE \A kind \in Kind : NothingDue(queue[kind], wnow) /\ wpc' = "waiting"
                              /\ UNCHANGED <<wkind, wkey>>
  <2>1. TypeOK'
    BY <1>1 DEF TypeOK, SelectJob, WorkerPc, Kind
  <2>2. WorkerInv'
    BY <1>1 DEF WorkerInv, SelectJob, SleepsOnlyWhenNothingDue, NothingDue, Kind
  <2> QED BY <2>1, <2>2, <1>1, FrameSlots, FrameJobs DEF SlotInv, SelectJob, TypeOK
<1>2. CASE \E h \in Heads : wpc' = "get" /\ wkind' = h.kind /\ wkey' = h.key
  <2>1. PICK h \in Heads : wpc' = "get" /\ wkind' = h.kind /\ wkey' = h.key
    BY <1>2
  <2>2. h.kind \in Kind /\ h.key \in DOMAIN queue[h.kind] /\ h.key <= wnow
    BY <2>1 DEF Heads, FloorKeys
  <2>3. h.key \in Nat
    BY <2>2 DEF TypeOK
  <2>4. TypeOK'
    BY <2>1, <2>2, <2>3 DEF TypeOK, SelectJob, WorkerPc
  <2>5. WorkerInv'
    BY <2>1, <2>2 DEF WorkerInv, SelectJob, SleepsOnlyWhenNothingDue
  <2> QED BY <2>1, <2>4, <2>5, FrameSlots, FrameJobs DEF SlotInv, SelectJob, TypeOK
<1>3. QED
  BY <1>1, <1>2 DEF SelectJob, Kind

LEMMA SpuriousWakeupStep == IInv /\ SpuriousWakeup => IInv'
<1> SUFFICES ASSUME IInv, SpuriousWakeup PROVE IInv'
  OBVIOUS
<1> USE DEF IInv
<1>1. TypeOK'
  BY DEF TypeOK, SpuriousWakeup, WorkerPc
<1>2. WorkerInv'
  BY DEF WorkerInv, SpuriousWakeup, SleepsOnlyWhenNothingDue
<1> QED BY <1>1, <1>2, FrameSlots, FrameJobs DEF SlotInv, SpuriousWakeup, TypeOK

LEMMA GetJobStep == IInv /\ GetJob => IInv'
<1> SUFFICES ASSUME IInv, GetJob PROVE IInv'
  OBVIOUS
<1> USE DEF IInv
<1>1. wkey \in DOMAIN queue[wkind] /\ wkind \in Kind
  BY DEF WorkerInv, GetJob, TypeOK
<1>2. queue[wkind][wkey] \in Publications \cup {Compliance}
  BY <1>1 DEF TypeOK, Kind, Publications
<1>3. TypeOK'
  BY <1>2 DEF TypeOK, GetJob, WorkerPc
<1>4. WorkerInv'
  BY <1>1 DEF WorkerInv, GetJob, SleepsOnlyWhenNothingDue, UpdateQ, TypeOK
<1> QED BY <1>3, <1>4, FrameSlots, FrameJobs DEF SlotInv, GetJob, TypeOK

LEMMA FinishJobStep == IInv /\ FinishJob => IInv'
<1> SUFFICES ASSUME IInv, FinishJob PROVE IInv'
  OBVIOUS
<1> USE DEF IInv
<1>1. TypeOK'
  BY DEF TypeOK, FinishJob, WorkerPc, Kind
<1>2. WorkerInv'
  BY DEF WorkerInv, FinishJob, SleepsOnlyWhenNothingDue
<1>3. SlotInv'
  BY FrameSlots DEF SlotInv, FinishJob, TypeOK
<1> QED BY <1>1, <1>2, <1>3, FrameJobs DEF FinishJob

LEMMA TickStep == IInv /\ Tick => IInv'
<1> SUFFICES ASSUME IInv, Tick PROVE IInv'
  OBVIOUS
<1> USE DEF IInv
<1>1. TypeOK' /\ clock' \in Nat /\ clock <= clock' /\ wnow' <= clock'
  BY QueueAssumption DEF TypeOK, Tick, workerVars, SlotInv
<1>2. WorkerInv'
  BY DEF WorkerInv, Tick, workerVars, SleepsOnlyWhenNothingDue, UpdateQ
<1> QED BY <1>1, <1>2, FrameSlots, FrameJobs DEF SlotInv, Tick, workerVars

---------------------------------------------------------------------------
(* The steps that queue a job. *)

\* A put into the target or the initial queue does not concern the updates.
LEMMA OtherQueueSlots ==
    ASSUME TypeOK, SlotInv, NEW kind \in Kind \ {"update"}, NEW k, NEW d,
           Enqueue(kind, k, d),
           UNCHANGED <<clock, latest, wnow, runs>>,
           calls' \subseteq calls
    PROVE  SlotInv'
<1>1. UpdateQ' = UpdateQ
  BY ReplaceFacts DEF Enqueue, UpdateQ, Kind
<1>2. UpdateSlotsSpaced'
  BY <1>1 DEF SlotInv, UpdateSlotsSpaced, UpdateKeys, UpdateRuns, UpdateQ
<1>3. \A r \in UpdateRuns' : r.key <= latest'["update"] /\ r.key \notin DOMAIN UpdateQ'
  BY <1>1 DEF SlotInv, UpdateRuns
<1>4. wpc' \in {"lock", "waiting", "get", "remove"} => latest'["update"] <= wnow'
  BY DEF SlotInv, Enqueue, Notify
<1> QED BY <1>2, <1>3, <1>4 DEF SlotInv

\* After a put the worker is awake, and the job it has picked is still there.
LEMMA EnqueueWorker ==
    ASSUME TypeOK, WorkerInv, NEW kind \in Kind, NEW k, NEW d,
           Enqueue(kind, k, d),
           kind = "update" => k \notin DOMAIN UpdateQ,
           UNCHANGED <<wnow, wkind, wkey, wdata>>
    PROVE  WorkerInv'
<1>1. queue'[kind] = Put(queue[kind], k, d)
      /\ \A o \in Kind : o # kind => queue'[o] = queue[o]
  BY ReplaceFacts DEF Enqueue
<1>2. DOMAIN queue[wkind] \subseteq DOMAIN queue'[wkind]
  BY <1>1 DEF TypeOK, Put
<1>3. wkey \in DOMAIN UpdateQ => UpdateQ'[wkey] = UpdateQ[wkey]
  BY <1>1 DEF UpdateQ, Kind, Put
<1>4. wpc' # "waiting" /\ (wpc' = wpc \/ wpc' = "loop")
  BY DEF Enqueue, Notify, TypeOK, WorkerPc
<1>5. wpc \in {"get", "remove"} => wkey \in DOMAIN queue[wkind] /\ wkey <= wnow
  BY DEF WorkerInv
<1>6. wpc = "remove" /\ wkind = "update" => wkey \in DOMAIN UpdateQ
  BY <1>5 DEF UpdateQ
<1>7. wpc' \in {"get", "remove"} => wkey' \in DOMAIN queue'[wkind'] /\ wkey' <= wnow'
  BY <1>2, <1>4, <1>5
<1>8. /\ wpc' = "remove" /\ wkind' = "update" => wdata' = UpdateQ'[wkey']
      /\ wpc' = "remove" /\ wkind' = "initial" => wdata' \in Initials
      /\ wpc' = "run" /\ wkind' = "update" => wdata' \in Updates
  BY <1>3, <1>4, <1>6 DEF WorkerInv
<1> QED BY <1>4, <1>7, <1>8 DEF WorkerInv, SleepsOnlyWhenNothingDue

LEMMA TargetStep ==
    ASSUME IInv, NEW force \in BOOLEAN, QueueTargetScheduleOptimization(force)
    PROVE  IInv'
<1> USE DEF IInv
<1>1. PICK floor \in LastSlot("target", clock) :
         Enqueue("target", Larger(clock, floor + MinTarget), Compliance)
  BY DEF QueueTargetScheduleOptimization
<1> DEFINE key == Larger(clock, floor + MinTarget)
<1>2. clock \in Nat /\ key \in Nat
  BY <1>1, LastSlotFacts, QueueAssumption DEF TypeOK, Larger, Kind
<1>3. /\ DOMAIN queue' = Kind
      /\ queue'["target"] = Put(queue["target"], key, Compliance)
      /\ queue'["initial"] = queue["initial"] /\ queue'["update"] = queue["update"]
  BY <1>1, ReplaceFacts DEF Enqueue, Kind
<1>4. wpc' \in WorkerPc
  BY <1>1 DEF TypeOK, Enqueue, Notify, WorkerPc
<1> HIDE DEF key
<1>5. TypeOK'
  BY <1>2, <1>3, <1>4 DEF TypeOK, QueueTargetScheduleOptimization, Kind, Put
<1>6. WorkerInv'
  BY <1>1, EnqueueWorker DEF QueueTargetScheduleOptimization, Kind
<1>7. SlotInv'
  BY <1>1, OtherQueueSlots DEF QueueTargetScheduleOptimization, Kind
<1>8. JobInv'
  BY <1>3 DEF JobInv, UpdateQ, HasRun, UpdateRuns, NoUpdateLost, NotLost, Waits,
              QueueTargetScheduleOptimization, KindOf, Publications
<1> QED BY <1>5, <1>6, <1>7, <1>8

LEMMA CallStep ==
    ASSUME IInv, NEW d \in Publications, CallQueueSchedulePublication(d)
    PROVE  IInv'
<1> USE DEF IInv, CallQueueSchedulePublication, workerVars
<1>1. TypeOK'
  BY DEF TypeOK, Fate
<1>2. WorkerInv'
  BY DEF WorkerInv, SleepsOnlyWhenNothingDue, UpdateQ
<1>3. SlotInv'
  BY DEF SlotInv, UpdateSlotsSpaced, UpdateKeys, UpdateRuns, UpdateQ, TypeOK
<1>4. \A x \in Publications : x # d => fate'[x] = fate[x]
  BY DEF TypeOK
<1>5. /\ \A c \in calls : c.data \in Publications
      /\ \A k \in DOMAIN UpdateQ : UpdateQ[k] \in Publications
      /\ \A r \in UpdateRuns : r.data \in Publications
  BY DEF TypeOK, UpdateQ, UpdateRuns, Publications
<1>6. /\ \A c \in calls : c.data # d
      /\ \A k \in DOMAIN UpdateQ : UpdateQ[k] # d
      /\ \A r \in UpdateRuns : r.data # d
  BY DEF JobInv
<1>7. fate'[d] = "calling"
  BY DEF TypeOK
<1>8. /\ \A c \in calls' : fate'[c.data] = "calling"
      /\ \A c, e \in calls' : c.data = e.data => c = e
  BY <1>4, <1>5, <1>6, <1>7 DEF JobInv
<1>9. \A r \in UpdateRuns' : fate'[r.data] = "accepted"
  BY <1>4, <1>5, <1>6 DEF JobInv, UpdateRuns
<1>10. \A k \in DOMAIN UpdateQ' :
         /\ fate'[UpdateQ'[k]] = "accepted"
         /\ ~HasRun(UpdateQ[k])'
         /\ \A j \in DOMAIN UpdateQ' : UpdateQ'[j] = UpdateQ'[k] => j = k
  BY <1>4, <1>5, <1>6 DEF JobInv, UpdateQ, HasRun
<1>11. NoUpdateLost'
  BY <1>4, <1>7 DEF JobInv, NoUpdateLost, NotLost, Waits, HasRun, Publications
<1> QED BY <1>1, <1>2, <1>3, <1>8, <1>9, <1>10, <1>11 DEF JobInv

LEMMA InitialStep ==
    ASSUME IInv, NEW c \in calls, QueueInitialPublication(c)
    PROVE  IInv'
<1> USE DEF IInv, QueueInitialPublication
<1>1. c.now \in Nat /\ c.data \in Initials
  BY DEF TypeOK
<1>2. /\ DOMAIN queue' = Kind
      /\ queue'["initial"] = Put(queue["initial"], c.now, c.data)
      /\ queue'["target"] = queue["target"] /\ queue'["update"] = queue["update"]
  BY ReplaceFacts DEF Enqueue, Kind
<1>3. wpc' \in WorkerPc
  BY DEF TypeOK, Enqueue, Notify, WorkerPc
<1>4. TypeOK'
  BY <1>1, <1>2, <1>3 DEF TypeOK, Kind, Fate, Publications, Put
<1>5. WorkerInv'
  BY EnqueueWorker DEF Kind
<1>6. SlotInv'
  BY OtherQueueSlots DEF Kind
<1>7. \A x \in Publications : x # c.data => fate'[x] = fate[x]
  BY DEF TypeOK
<1>8. /\ \A e \in calls' : e.data # c.data /\ e \in calls
      /\ \A e \in calls : e.data \in Publications
      /\ \A k \in DOMAIN UpdateQ : UpdateQ[k] \in Publications
      /\ \A r \in UpdateRuns : r.data \in Publications
  BY DEF JobInv, TypeOK, UpdateQ, UpdateRuns, Publications
<1>9. c.data \notin Updates
  BY <1>1, QueueAssumption
<1>10. \A e \in calls' : fate'[e.data] = "calling"
  BY <1>7, <1>8 DEF JobInv
<1>11. \A r \in UpdateRuns' : fate'[r.data] = "accepted"
  BY <1>7, <1>8, <1>9 DEF JobInv, UpdateRuns
<1>12. \A k \in DOMAIN UpdateQ' :
         /\ fate'[UpdateQ'[k]] = "accepted"
         /\ ~HasRun(UpdateQ[k])'
         /\ \A j \in DOMAIN UpdateQ' : UpdateQ'[j] = UpdateQ'[k] => j = k
  <2>1. UpdateQ' = UpdateQ
    BY <1>2 DEF UpdateQ
  <2>2. \A k \in DOMAIN UpdateQ : UpdateQ[k] # c.data
    BY <1>9 DEF TypeOK, UpdateQ
  <2> QED BY <1>7, <1>8, <2>1, <2>2 DEF JobInv, HasRun
<1>13. NoUpdateLost'
  BY <1>2, <1>7, <1>9, QueueAssumption
     DEF JobInv, NoUpdateLost, NotLost, Waits, HasRun, Publications, KindOf
<1> QED BY <1>4, <1>5, <1>6, <1>8, <1>10, <1>11, <1>12, <1>13 DEF JobInv

LEMMA UpdateStep ==
    ASSUME IInv, NEW c \in calls, QueueUpdatePublication(c)
    PROVE  IInv'
<1> USE DEF IInv
<1>1. c.now \in Nat /\ c.data \in Updates /\ c.now <= clock
  BY DEF QueueUpdatePublication, TypeOK, SlotInv
<1>2. PICK floor \in LastSlot("update", c.now) :
         \/ /\ UpdateAllowed(c.now, floor)
            /\ Enqueue("update", Larger(c.now, floor + MinUpdate), c.data)
            /\ fate' = [fate EXCEPT ![c.data] = "accepted"]
         \/ /\ fate' = [fate EXCEPT ![c.data] = "dropped"]
            /\ UNCHANGED <<queue, wpc>>
  BY DEF QueueUpdatePublication
<1>3. UNCHANGED <<clock, latest, wnow, wkind, wkey, wdata, runs>> /\ calls' = calls \ {c}
  BY DEF QueueUpdatePublication
<1>4. \A x \in Publications : x # c.data => fate'[x] = fate[x]
  BY <1>2 DEF TypeOK
<1>5. /\ \A e \in calls' : e.data # c.data /\ e \in calls
      /\ \A e \in calls : e.data \in Publications
      /\ \A k \in DOMAIN UpdateQ : UpdateQ[k] \in Publications
      /\ \A r \in UpdateRuns : r.data \in Publications
  BY <1>3 DEF JobInv, TypeOK, UpdateQ, UpdateRuns, Publications
<1>6. /\ \A k \in DOMAIN UpdateQ : UpdateQ[k] # c.data
      /\ \A r \in UpdateRuns : r.data # c.data
  BY DEF JobInv
<1>7. /\ \A e \in calls' : fate'[e.data] = "calling"
      /\ \A e, f \in calls' : e.data = f.data => e = f
      /\ \A r \in UpdateRuns' : fate'[r.data] = "accepted"
  BY <1>3, <1>4, <1>5, <1>6 DEF JobInv, UpdateRuns
<1>8. CASE UNCHANGED <<queue, wpc>> /\ fate' = [fate EXCEPT ![c.data] = "dropped"]
  <2>1. TypeOK'
    BY <1>3, <1>8 DEF TypeOK, Fate
  <2>2. WorkerInv'
    BY <1>3, <1>8 DEF WorkerInv, SleepsOnlyWhenNothingDue, UpdateQ
  <2>3. SlotInv'
    BY <1>3, <1>8 DEF SlotInv, UpdateSlotsSpaced, UpdateKeys, UpdateRuns, UpdateQ
  <2>4. \A k \in DOMAIN UpdateQ' :
          /\ fate'[UpdateQ'[k]] = "accepted"
          /\ ~HasRun(UpdateQ[k])'
          /\ \A j \in DOMAIN UpdateQ' : UpdateQ'[j] = UpdateQ'[k] => j = k
    BY <1>3, <1>4, <1>5, <1>6, <1>8 DEF JobInv, UpdateQ, HasRun
  <2>5. fate'[c.data] = "dropped"
    BY <1>1, <1>8 DEF TypeOK, Publications
  <2>6. NoUpdateLost'
    BY <1>3, <1>4, <1>8, <2>5
       DEF JobInv, NoUpdateLost, NotLost, Waits, HasRun, Publications, KindOf
  <2> QED BY <1>7, <2>1, <2>2, <2>3, <2>4, <2>6 DEF JobInv
<1>9. CASE /\ UpdateAllowed(c.now, floor)
           /\ Enqueue("update", Larger(c.now, floor + MinUpdate), c.data)
           /\ fate' = [fate EXCEPT ![c.data] = "accepted"]
  <2>1. /\ floor \in Nat /\ latest["update"] <= floor
        /\ \A k \in DOMAIN UpdateQ : k <= c.now => k <= floor
    BY <1>1, LastSlotFacts DEF UpdateQ, Kind
  <2>2. floor + MinUpdate <= c.now /\ \A k \in DOMAIN UpdateQ : k < c.now
    BY <1>9 DEF UpdateAllowed, NothingFrom, UpdateQ
  <2>3. Larger(c.now, floor + MinUpdate) = c.now
    BY <1>1, <2>1, <2>2, QueueAssumption DEF Larger
  <2>4. DOMAIN UpdateQ \subseteq Nat
    BY DEF TypeOK, UpdateQ, Kind
  <2>5. c.now \notin DOMAIN UpdateQ
    BY <1>1, <2>2, <2>4
  <2>6. /\ DOMAIN queue' = Kind
        /\ UpdateQ' = Put(UpdateQ, c.now, c.data)
        /\ queue'["target"] = queue["target"] /\ queue'["initial"] = queue["initial"]
    BY <1>9, <2>3, ReplaceFacts DEF Enqueue, Kind, UpdateQ
  <2>7. wpc' \in WorkerPc /\ (wpc' = wpc \/ wpc' = "loop")
    BY <1>9 DEF TypeOK, Enqueue, Notify, WorkerPc
  <2>8. TypeOK'
    BY <1>1, <1>3, <1>9, <2>6, <2>7 DEF TypeOK, Kind, Fate, Publications, Put, UpdateQ
  <2>9. WorkerInv'
    BY <1>3, <1>9, <2>3, <2>5, EnqueueWorker DEF Kind
  <2>10. DOMAIN UpdateQ' = DOMAIN UpdateQ \cup {c.now} /\ UpdateRuns' = UpdateRuns
    BY <1>3, <2>6 DEF Put, UpdateRuns
  <2>11. UpdateKeys' = UpdateKeys \cup {c.now}
    BY <2>10 DEF UpdateKeys, UpdateQ
  <2>12. \A r \in UpdateRuns : r.key \in Nat /\ r.key <= latest["update"]
    BY DEF SlotInv, TypeOK, UpdateRuns
  <2>13. latest["update"] \in Nat
    BY DEF TypeOK, Kind
  <2>14. \A j \in UpdateKeys : j \in Nat /\ j + MinUpdate <= c.now
    BY <1>1, <2>1, <2>2, <2>4, <2>12, <2>13, QueueAssumption DEF UpdateKeys, UpdateQ
  <2>15. \A j, k \in UpdateKeys' : j < k => j + MinUpdate <= k
    BY <1>1, <2>11, <2>14, QueueAssumption DEF SlotInv, UpdateSlotsSpaced
  <2>16. \A r \in UpdateRuns' : r.key <= latest'["update"] /\ r.key \notin DOMAIN UpdateQ'
    BY <1>1, <1>3, <2>1, <2>2, <2>10, <2>12, <2>13, QueueAssumption DEF SlotInv
  <2>17. wpc' \in {"lock", "waiting", "get", "remove"} => latest'["update"] <= wnow'
    BY <1>3, <2>7 DEF SlotInv
  <2>18. SlotInv'
    BY <1>3, <2>10, <2>15, <2>16, <2>17 DEF SlotInv, UpdateSlotsSpaced
  <2>19. UpdateQ'[c.now] = c.data /\ \A k \in DOMAIN UpdateQ : UpdateQ'[k] = UpdateQ[k]
    BY <2>5, <2>6 DEF Put
  <2>20. fate'[c.data] = "accepted"
    BY <1>1, <1>9 DEF TypeOK, Publications
  <2>21. ~HasRun(c.data)'
    BY <1>1, <1>3, <1>6 DEF HasRun, UpdateRuns
  <2>22. \A k \in DOMAIN UpdateQ' :
          /\ fate'[UpdateQ'[k]] = "accepted"
          /\ ~HasRun(UpdateQ[k])'
          /\ \A j \in DOMAIN UpdateQ' : UpdateQ'[j] = UpdateQ'[k] => j = k
    BY <1>3, <1>4, <1>5, <1>6, <2>10, <2>19, <2>20, <2>21 DEF JobInv, HasRun
  <2>23. NoUpdateLost'
    BY <1>3, <1>4, <2>10, <2>19, QueueAssumption
       DEF JobInv, NoUpdateLost, NotLost, Waits, HasRun, Publications, KindOf, UpdateQ
  <2> QED BY <1>7, <2>8, <2>9, <2>18, <2>22, <2>23 DEF JobInv
<1> QED BY <1>2, <1>8, <1>9

---------------------------------------------------------------------------
(* The worker takes a job off its queue. *)

LEMMA RemoveJobStep == IInv /\ RemoveJob => IInv'
<1> SUFFICES ASSUME IInv, RemoveJob PROVE IInv'
  OBVIOUS
<1> USE DEF IInv
<1> DEFINE run == [data |-> wdata, key |-> wkey, at |-> clock]
<1>0. run.data = wdata /\ run.key = wkey
  OBVIOUS
<1>1. /\ wkind \in Kind /\ wkey \in DOMAIN queue[wkind] /\ wkey <= wnow
      /\ wkey \in Nat /\ wnow \in Nat /\ wnow <= clock /\ latest["update"] <= wnow
      /\ latest["update"] \in Nat /\ clock \in Nat
  BY DEF RemoveJob, WorkerInv, SlotInv, TypeOK, Kind
<1>2. /\ DOMAIN queue' = Kind
      /\ queue'[wkind] = Without(queue[wkind], wkey)
      /\ \A o \in Kind : o # wkind => queue'[o] = queue[o]
  BY <1>1, ReplaceFacts DEF RemoveJob
<1>3. wkind # "target" => wdata \in Publications
  BY <1>1 DEF RemoveJob, WorkerInv, TypeOK, Kind, Publications, UpdateQ
<1>4. TypeOK'
  <2>1. runs' \subseteq [data : Publications, key : Nat, at : Nat]
    BY <1>1, <1>3 DEF RemoveJob, TypeOK
  <2>2. latest' \in [Kind -> Nat]
    BY <1>1 DEF RemoveJob, TypeOK
  <2>3. \A kind \in Kind :
          /\ queue'[kind] = [k \in DOMAIN queue'[kind] |-> queue'[kind][k]]
          /\ DOMAIN queue'[kind] \subseteq DOMAIN queue[kind]
          /\ \A k \in DOMAIN queue'[kind] : queue'[kind][k] = queue[kind][k]
    <3> TAKE kind \in Kind
    <3>1. CASE kind = wkind
      BY <1>2, <3>1 DEF Without
    <3>2. CASE kind # wkind
      BY <1>2, <3>2 DEF TypeOK
    <3> QED BY <3>1, <3>2
  <2>4. /\ \A kind \in Kind : DOMAIN queue'[kind] \subseteq Nat
        /\ \A k \in DOMAIN queue'["initial"] : queue'["initial"][k] \in Initials
        /\ \A k \in DOMAIN queue'["update"] : queue'["update"][k] \in Updates
        /\ \A k \in DOMAIN queue'["target"] : queue'["target"][k] = Compliance
    BY <2>3 DEF TypeOK, Kind
  <2>5. /\ clock' \in Nat /\ clock' >= StartTime
        /\ wpc' \in WorkerPc /\ wnow' \in Nat /\ wkind' \in Kind /\ wkey' \in Nat
        /\ wdata' \in Publications \cup {Compliance}
        /\ calls' \subseteq [data : Publications, now : Nat]
        /\ fate' \in [Publications -> Fate]
    BY DEF TypeOK, RemoveJob, WorkerPc
  <2> QED BY <1>2, <2>1, <2>2, <2>3, <2>4, <2>5 DEF TypeOK
<1>5. WorkerInv'
  BY DEF RemoveJob, WorkerInv, SleepsOnlyWhenNothingDue, TypeOK, UpdateQ
<1>6. CASE wkind # "update"
  <2>1. UpdateQ' = UpdateQ /\ latest'["update"] = latest["update"]
    BY <1>2, <1>6 DEF UpdateQ, Kind, RemoveJob, TypeOK
  <2>2. wkind = "initial" => wdata \in Initials
    BY DEF RemoveJob, WorkerInv
  <2>3. UpdateRuns' = UpdateRuns
    BY <1>1, <1>6, <2>2, QueueAssumption DEF UpdateRuns, RemoveJob, Kind
  <2>4. SlotInv'
    BY <2>1, <2>3 DEF SlotInv, UpdateSlotsSpaced, UpdateKeys, UpdateQ, RemoveJob
  <2>5. \A d \in Updates : HasRun(d)' <=> HasRun(d)
    BY <2>3 DEF HasRun, UpdateRuns
  <2>6. \A k \in DOMAIN UpdateQ : UpdateQ[k] \in Updates
    BY DEF TypeOK, UpdateQ
  <2>7. NoUpdateLost'
    BY <2>1, <2>5, QueueAssumption
       DEF JobInv, NoUpdateLost, NotLost, Waits, KindOf, UpdateQ, RemoveJob
  <2>8. \A k \in DOMAIN UpdateQ' :
          /\ fate'[UpdateQ'[k]] = "accepted"
          /\ ~HasRun(UpdateQ[k])'
          /\ \A j \in DOMAIN UpdateQ' : UpdateQ'[j] = UpdateQ'[k] => j = k
    BY <2>1, <2>5, <2>6 DEF JobInv, RemoveJob, HasRun
  <2> QED BY <1>4, <1>5, <2>3, <2>4, <2>7, <2>8 DEF JobInv, RemoveJob
<1>7. CASE wkind = "update"
  <2>1. UpdateQ' = Without(UpdateQ, wkey) /\ latest'["update"] = wnow /\ wkey \in DOMAIN UpdateQ
    BY <1>1, <1>2, <1>7 DEF UpdateQ, RemoveJob, TypeOK, Kind
  <2>2. wdata = UpdateQ[wkey] /\ wdata \in Updates
    BY <1>7, <2>1 DEF RemoveJob, WorkerInv, TypeOK, UpdateQ
  <2>3. UpdateRuns' = UpdateRuns \cup {run} /\ runs' = runs \cup {run}
    BY <1>7, <2>2 DEF UpdateRuns, RemoveJob
  <2> HIDE DEF run
  <2>4. /\ DOMAIN UpdateQ' = DOMAIN UpdateQ \ {wkey}
        /\ \A k \in DOMAIN UpdateQ' : UpdateQ'[k] = UpdateQ[k]
    BY <2>1 DEF Without
  <2>5. UpdateKeys' = UpdateKeys
    BY <1>0, <2>1, <2>3, <2>4 DEF UpdateKeys, UpdateQ
  <2>6. \A r \in UpdateRuns : r.key # wkey /\ r.key <= latest["update"] /\ r.key \in Nat
    BY <2>1 DEF SlotInv, TypeOK, UpdateRuns
  <2>7. \A r \in UpdateRuns' : r.key <= latest'["update"] /\ r.key \notin DOMAIN UpdateQ'
    BY <1>0, <1>1, <2>1, <2>3, <2>4, <2>6 DEF SlotInv
  <2>8. UpdateSlotsSpaced'
    BY <1>0, <2>3, <2>5, <2>6 DEF SlotInv, UpdateSlotsSpaced
  <2>9. SlotInv'
    BY <1>1, <2>1, <2>7, <2>8 DEF SlotInv, RemoveJob
  <2>10. \A d \in Updates : HasRun(d)' <=> (HasRun(d) \/ d = wdata)
    BY <1>0, <2>3 DEF HasRun
  <2>11. \A k \in DOMAIN UpdateQ' :
          /\ fate'[UpdateQ'[k]] = "accepted"
          /\ ~HasRun(UpdateQ[k])'
          /\ \A j \in DOMAIN UpdateQ' : UpdateQ'[j] = UpdateQ'[k] => j = k
    <3>1. \A k \in DOMAIN UpdateQ' : k \in DOMAIN UpdateQ /\ UpdateQ[k] # wdata
      BY <2>1, <2>2, <2>4 DEF JobInv
    <3>2. \A k \in DOMAIN UpdateQ : UpdateQ[k] \in Updates
      BY DEF TypeOK, UpdateQ
    <3> QED BY <2>4, <2>10, <3>1, <3>2 DEF JobInv, RemoveJob, HasRun
  <2>12. \A r \in UpdateRuns' : fate'[r.data] = "accepted"
    BY <1>0, <2>1, <2>2, <2>3 DEF JobInv, RemoveJob
  <2>13. NoUpdateLost'
    <3> SUFFICES ASSUME NEW d \in Updates, fate[d] = "accepted", ~HasRun(d)'
                 PROVE  Waits(d)'
      BY DEF NoUpdateLost, NotLost, RemoveJob
    <3>1. ~HasRun(d) /\ d # wdata
      BY <2>10
    <3>2. PICK k \in DOMAIN UpdateQ : UpdateQ[k] = d
      BY <3>1, QueueAssumption DEF JobInv, NoUpdateLost, NotLost, Waits, KindOf, UpdateQ
    <3>3. k \in DOMAIN UpdateQ' /\ UpdateQ'[k] = d
      BY <2>2, <2>4, <3>1, <3>2
    <3> QED BY <3>3, QueueAssumption DEF Waits, KindOf, UpdateQ
  <2> QED BY <1>4, <1>5, <2>9, <2>11, <2>12, <2>13 DEF JobInv, RemoveJob
<1> QED BY <1>6, <1>7

---------------------------------------------------------------------------
(* The invariant and what follows from it. *)

LEMMA NextIInv == IInv /\ [Next]_vars => IInv'
<1> SUFFICES ASSUME IInv, [Next]_vars PROVE IInv'
  OBVIOUS
<1>1. CASE Worker
  BY <1>1, ReadTimeStep, SelectJobStep, GetJobStep, RemoveJobStep, FinishJobStep DEF Worker
<1>2. CASE SpuriousWakeup
  BY <1>2, SpuriousWakeupStep
<1>3. CASE EnterQueue
  BY <1>3, InitialStep, UpdateStep DEF EnterQueue
<1>4. ASSUME NEW d \in Publications, CallQueueSchedulePublication(d) PROVE IInv'
  BY <1>4, CallStep
<1>5. ASSUME NEW force \in BOOLEAN, QueueTargetScheduleOptimization(force) PROVE IInv'
  BY <1>5, TargetStep
<1>6. CASE Tick
  BY <1>6, TickStep
<1>7. CASE UNCHANGED vars
  <2> USE <1>7 DEF vars, workerVars
  <2>1. TypeOK'
    BY DEF IInv, TypeOK
  <2>2. WorkerInv'
    BY DEF IInv, WorkerInv, UpdateQ, SleepsOnlyWhenNothingDue
  <2>3. SlotInv'
    BY FrameSlots DEF IInv, SlotInv, TypeOK
  <2>4. JobInv'
    BY FrameJobs DEF IInv
  <2> QED BY <2>1, <2>2, <2>3, <2>4 DEF IInv
<1> QED BY <1>1, <1>2, <1>3, <1>4, <1>5, <1>6, <1>7 DEF Next

\* The inductive invariant holds in every reachable state of the queue.
THEOREM Invariance == Spec => []IInv
BY InitIInv, NextIInv, PTL DEF Spec

\* Every map only holds jobs of its own kind, under times that are natural numbers.
THEOREM TypeCorrect == Spec => []TypeOK
<1>1. IInv => TypeOK
  BY DEF IInv
<1> QED BY <1>1, Invariance, PTL

\* The worker of SchedulerOptimizationQueue waits on queueLock only when no job is due
\* at the time it had read.
THEOREM WorkerSleeps == Spec => []SleepsOnlyWhenNothingDue
<1>1. IInv => SleepsOnlyWhenNothingDue
  BY DEF IInv, WorkerInv
<1> QED BY <1>1, Invariance, PTL

\* The due times of any two updates that queueSchedulePublication accepted lie at least
\* minimumScheduleUpdatePublicationInterval apart.
THEOREM UpdatesThrottled == Spec => []UpdateSlotsSpaced
<1>1. IInv => UpdateSlotsSpaced
  BY DEF IInv, SlotInv
<1> QED BY <1>1, Invariance, PTL

\* No accepted update disappears from the queue before the observer got it.
THEOREM UpdatesKept == Spec => []NoUpdateLost
<1>1. IInv => NoUpdateLost
  BY DEF IInv, JobInv
<1> QED BY <1>1, Invariance, PTL

---------------------------------------------------------------------------
(* The queue implements JobService for the updates: each action maps to an *)
(* action of the service or leaves the service alone.                      *)

Waiting == {UpdateQ[k] : k \in DOMAIN UpdateQ}
Running == IF wpc = "run" /\ wkind = "update" THEN {wdata} ELSE {}
Started == {r.data : r \in UpdateRuns}

\* The service sees the queue through these three sets only.
LEMMA ServiceStutters ==
    ASSUME Waiting' = Waiting, Running' = Running, Started' = Started
    PROVE  UNCHANGED UpdateService!vars
BY DEF UpdateService!vars, Waiting, Running, Started, UpdateQ

LEMMA InitService == Init => UpdateService!Init
<1> SUFFICES ASSUME Init PROVE UpdateService!Init
  OBVIOUS
<1>1. DOMAIN queue["update"] = {}
  BY DEF Init, EmptyMap, Kind
<1>2. UpdateRuns = {}
  BY DEF Init, UpdateRuns
<1> QED BY <1>1, <1>2 DEF Init, UpdateService!Init

\* Most steps are of no concern to the service: they change neither the queue of updates
\* nor the updates handed to the observer, and the observer is not called or left.
LEMMA QuietStutters ==
    ASSUME UNCHANGED <<UpdateQ, runs>>, wpc = "run" => UNCHANGED <<wpc, wkind, wdata>>,
           wpc' = "run" => wpc = "run"
    PROVE  UNCHANGED UpdateService!vars
<1>1. Waiting' = Waiting /\ Started' = Started
  BY DEF Waiting, Started, UpdateRuns
<1>2. Running' = Running
  BY DEF Running
<1> QED BY <1>1, <1>2, ServiceStutters

\* A quiet queueing: of a target schedule optimization or an initial publication.
LEMMA OtherQueuesStutter ==
    ASSUME TypeOK, NEW kind \in {"initial", "target"}, NEW key, NEW d, Enqueue(kind, key, d),
           UNCHANGED <<wkind, wdata, runs>>
    PROVE  UNCHANGED UpdateService!vars
<1>1. UpdateQ' = UpdateQ
  BY ReplaceFacts DEF Enqueue, Kind, UpdateQ
<1>2. wpc = "run" => wpc' = wpc
  BY DEF Enqueue, Notify
<1>3. wpc' = "run" => wpc = "run"
  BY DEF Enqueue, Notify
<1> QED BY <1>1, <1>2, <1>3, QuietStutters

\* Accepting an update: it is new to the service, and no other update makes place for it.
LEMMA UpdateAccepts ==
    ASSUME IInv, NEW c \in calls, QueueUpdatePublication(c)
    PROVE  UpdateService!Next \/ UNCHANGED UpdateService!vars
<1> USE DEF IInv
<1>1. c.now \in Nat /\ c.data \in Updates
  BY DEF QueueUpdatePublication, TypeOK
<1>2. PICK floor \in LastSlot("update", c.now) :
         \/ /\ UpdateAllowed(c.now, floor)
            /\ Enqueue("update", Larger(c.now, floor + MinUpdate), c.data)
         \/ UNCHANGED <<queue, wpc>>
  BY DEF QueueUpdatePublication
<1>3. UNCHANGED <<wkind, wdata, runs>>
  BY DEF QueueUpdatePublication
<1>4. CASE UNCHANGED <<queue, wpc>>
  BY <1>3, <1>4, QuietStutters DEF UpdateQ
<1>5. CASE /\ UpdateAllowed(c.now, floor)
           /\ Enqueue("update", Larger(c.now, floor + MinUpdate), c.data)
  <2> DEFINE key == Larger(c.now, floor + MinUpdate)
  <2>1. floor \in Nat
    BY <1>1, LastSlotFacts DEF Kind
  <2>2. key \in Nat /\ c.now <= key
    BY <1>1, <2>1, QueueAssumption DEF Larger
  <2>3. key \notin DOMAIN UpdateQ
    BY <1>1, <1>5, <2>2 DEF UpdateAllowed, NothingFrom, UpdateQ, TypeOK, Kind
  <2>4. UpdateQ' = Put(UpdateQ, key, c.data)
    BY <1>5, ReplaceFacts DEF Enqueue, Kind, UpdateQ
  <2> HIDE DEF key
  <2>5. Waiting' = Waiting \cup {c.data}
    BY <2>3, <2>4 DEF Put, Waiting
  <2>6. c.data \notin Waiting \cup Started
    BY DEF JobInv, Waiting, Started
  <2>7. Started' = Started
    BY <1>3 DEF Started, UpdateRuns
  <2>8. Running' = Running
    BY <1>3, <1>5 DEF Running, Enqueue, Notify
  <2>9. UpdateService!Accept(c.data)
    BY <2>5, <2>6, <2>7, <2>8
       DEF UpdateService!Accept, Waiting, Running, Started, UpdateQ
  <2> QED BY <1>1, <2>9 DEF UpdateService!Next
<1> QED BY <1>2, <1>4, <1>5

\* Starting an update: remove(min) takes off the update that get(min) has returned, and
\* that one only.
LEMMA RemoveStarts ==
    ASSUME IInv, RemoveJob
    PROVE  UpdateService!Next \/ UNCHANGED UpdateService!vars
<1> USE DEF IInv
<1> DEFINE run == [data |-> wdata, key |-> wkey, at |-> clock]
<1>1. wpc = "remove" /\ wpc' = "run" /\ UNCHANGED <<wkind, wdata>> /\ wkind \in Kind
  BY DEF RemoveJob, TypeOK
<1>2. CASE wkind = "update"
  <2>1. wkey \in DOMAIN UpdateQ /\ wdata = UpdateQ[wkey]
    BY <1>1, <1>2 DEF WorkerInv, UpdateQ
  <2>2. UpdateQ' = Without(UpdateQ, wkey)
    BY <1>1, <1>2, ReplaceFacts DEF RemoveJob, UpdateQ
  <2>3. wdata \in Updates
    BY <2>1 DEF TypeOK, UpdateQ
  <2>4. \A k \in DOMAIN UpdateQ : k # wkey => UpdateQ[k] # wdata
    BY <2>1 DEF JobInv
  <2>5. Waiting' = Waiting \ {wdata}
    BY <2>1, <2>2, <2>4 DEF Waiting, Without
  <2>6. runs' = runs \cup {run} /\ run.data = wdata
    BY <1>2 DEF RemoveJob
  <2>7. Started' = Started \cup {wdata}
    <3> HIDE DEF run
    <3> QED BY <2>3, <2>6 DEF Started, UpdateRuns
  <2>8. wdata \in Waiting
    BY <2>1 DEF Waiting
  <2>9. Running = {} /\ Running' = {wdata}
    BY <1>1, <1>2 DEF Running
  <2>10. PICK j \in Updates : j = wdata
    BY <2>3
  <2>11. UpdateService!Start(j)
    BY <2>5, <2>7, <2>8, <2>9, <2>10
       DEF UpdateService!Start, Waiting, Running, Started, UpdateQ
  <2> QED BY <2>11 DEF UpdateService!Next
<1>3. CASE wkind # "update"
  <2>1. UpdateQ' = UpdateQ
    BY <1>1, <1>3, ReplaceFacts DEF RemoveJob, UpdateQ, Kind
  <2>2. UpdateRuns' = UpdateRuns
    <3>1. CASE wkind = "target"
      BY <3>1 DEF RemoveJob, UpdateRuns
    <3>2. CASE wkind = "initial"
      <4>1. runs' = runs \cup {run} /\ run.data = wdata
        BY <3>2 DEF RemoveJob
      <4>2. wdata \notin Updates
        BY <1>1, <3>2, QueueAssumption DEF WorkerInv
      <4> HIDE DEF run
      <4> QED BY <4>1, <4>2 DEF UpdateRuns
    <3> QED BY <1>1, <1>3, <3>1, <3>2 DEF Kind
  <2>3. Running = {} /\ Running' = {}
    BY <1>1, <1>3 DEF Running
  <2>4. Waiting' = Waiting /\ Started' = Started
    BY <2>1, <2>2 DEF Waiting, Started
  <2> QED BY <2>3, <2>4, ServiceStutters
<1> QED BY <1>2, <1>3

LEMMA FinishFinishes ==
    ASSUME IInv, FinishJob
    PROVE  UpdateService!Next \/ UNCHANGED UpdateService!vars
<1>1. Waiting' = Waiting /\ Started' = Started
  BY DEF FinishJob, Waiting, Started, UpdateRuns, UpdateQ
<1>2. Running' = {}
  BY DEF FinishJob, Running
<1>3. CASE Running = {}
  BY <1>1, <1>2, <1>3, ServiceStutters
<1>4. CASE Running # {}
  <2>1. UpdateService!Finish
    BY <1>1, <1>2, <1>4 DEF UpdateService!Finish, Waiting, Running, Started, UpdateQ
  <2> QED BY <2>1 DEF UpdateService!Next
<1> QED BY <1>3, <1>4

LEMMA StepImplements ==
    IInv /\ [Next]_vars => [UpdateService!Next]_UpdateService!vars
<1> SUFFICES ASSUME IInv, [Next]_vars
             PROVE  UpdateService!Next \/ UNCHANGED UpdateService!vars
  OBVIOUS
<1>1. CASE ReadTime \/ SelectJob \/ GetJob \/ SpuriousWakeup
  BY <1>1, QuietStutters DEF ReadTime, SelectJob, GetJob, SpuriousWakeup, UpdateQ
<1>2. CASE RemoveJob
  BY <1>2, RemoveStarts
<1>3. CASE FinishJob
  BY <1>3, FinishFinishes
<1>4. CASE EnterQueue
  <2>1. PICK c \in calls : QueueInitialPublication(c) \/ QueueUpdatePublication(c)
    BY <1>4 DEF EnterQueue
  <2>2. CASE QueueInitialPublication(c)
    BY <2>2, OtherQueuesStutter DEF QueueInitialPublication, IInv
  <2>3. CASE QueueUpdatePublication(c)
    BY <2>3, UpdateAccepts
  <2> QED BY <2>1, <2>2, <2>3
<1>5. ASSUME NEW d \in Publications, CallQueueSchedulePublication(d)
      PROVE  UNCHANGED UpdateService!vars
  BY <1>5, QuietStutters DEF CallQueueSchedulePublication, workerVars, UpdateQ
<1>6. ASSUME NEW force \in BOOLEAN, QueueTargetScheduleOptimization(force)
      PROVE  UNCHANGED UpdateService!vars
  <2>1. PICK key : Enqueue("target", key, Compliance)
    BY <1>6 DEF QueueTargetScheduleOptimization
  <2> QED BY <1>6, <2>1, OtherQueuesStutter DEF QueueTargetScheduleOptimization, IInv
<1>7. CASE Tick
  BY <1>7, QuietStutters DEF Tick, workerVars, UpdateQ
<1>8. CASE UNCHANGED vars
  BY <1>8, QuietStutters DEF vars, workerVars, UpdateQ
<1> QED BY <1>1, <1>2, <1>3, <1>4, <1>5, <1>6, <1>7, <1>8 DEF Next, Worker

\* The queue starts every accepted update exactly once and alone, for every number of
\* updates and callers, although Worker.run reads and removes a job in two steps outside
\* queueLock: it implements JobService.
THEOREM QueueImplementsService == Spec => UpdatesStartOnce
<1>1. Init => UpdateService!Init
  BY InitService
<1>2. IInv /\ [Next]_vars => [UpdateService!Next]_UpdateService!vars
  BY StepImplements
<1> QED BY <1>1, <1>2, Invariance, PTL DEF Spec, UpdatesStartOnce, UpdateService!Spec
=============================================================================
