-------------------------- MODULE FmsExchangeProofs --------------------------
(***************************************************************************)
(* Proofs about FmsExchange, for any number of starts, files, failures,    *)
(* crashes and publications: the locks, and that a restart forgets no      *)
(* schedule that was told and marked as read, while its file can be read.  *)
(***************************************************************************)
EXTENDS FmsExchange, TLAPS

\* The type invariant, in parts.
ServerType == files \in [Kind -> File \cup {NoFile}] /\ written \in 0..MaxWrites
ConnectionType ==
    session \in {"none", "open", "broken"} /\ directory \in {"home", "source", "root", "push"}
PollType == poll \in [pc : Step, kind : Kind, file : File \cup {NoFile}]
PublisherType ==
    publisher \in [pc : PublisherStage, own : BOOLEAN] /\ published \in 0..MaxPublications
Locks ==
    /\ poll.pc \in {"idle", "failing"} \/ publisher.pc # "pushing"
    /\ poll.pc # "writing" \/ publisher.pc # "writing"
MemoryType ==
    /\ today \in 1..Starts
    /\ scheduler \in {"absent", "bound", "restored", "ready", "failed"}
    /\ target \in Targets /\ kept \in [1..Starts -> SUBSET Target]
DiskType == saved \in [whole : BOOLEAN, targets : Targets] /\ silent \in BOOLEAN
CounterType == failures \in 0..MaxFailures /\ crashes \in 0..MaxCrashes

LEMMA TypeOKParts ==
    TypeOK <=> /\ ServerType /\ ConnectionType /\ PollType /\ PublisherType /\ Locks
               /\ MemoryType /\ DiskType /\ CounterType
BY DEF TypeOK, ServerType, ConnectionType, PollType, PublisherType, Locks, MemoryType, DiskType, CounterType

\* The scheduler has its data.
HasData == scheduler \in {"restored", "ready"}

\* From telling to marking, the poll holds a file; while it saves, and marks what was told,
\* the scheduler has its data, and the schedule in memory unless its own has replaced it.
HeldIsTarget ==
    /\ poll.pc \in {"telling", "saving", "writing"} => poll.file # NoFile
    /\ poll.pc \in {"saving", "writing"} \/ (poll.pc = "marking" /\ poll.file # NoFile) =>
         /\ HasData
         /\ poll.file.start >= today => target[poll.file.start] \in {poll.file.version, Own}

\* The publishing thread is the scheduler's.
PublisherHasData == publisher.pc # "idle" => HasData

\* What is to be marked is in the file, or what has replaced it in memory is.
MarkedWasSaved ==
    poll.pc = "marking" /\ poll.file # NoFile /\ poll.file.start >= today /\ ~silent /\ saved.whole =>
        saved.targets[poll.file.start] \in {poll.file.version, target[poll.file.start]}

\* The scheduler's memory is not behind what was marked as read either.
MemoryIsKept == HasData /\ ~silent => \A s \in today..Starts : target[s] \in kept[s]

IInv == /\ TypeOK /\ HeldIsTarget /\ PublisherHasData /\ MarkedWasSaved
        /\ MemoryIsKept /\ ReadIsSaved

---------------------------------------------------------------------------
LEMMA InitIInv == Init => IInv
<1> SUFFICES ASSUME Init PROVE IInv  OBVIOUS
<1>1. TypeOK
  <2>1. ServerType /\ ConnectionType /\ Locks
        BY FmsExchangeAssumption DEF Init, ServerType, ConnectionType, Locks, Idle
  <2>2. PollType /\ PublisherType
        BY FmsExchangeAssumption DEF Init, PollType, PublisherType, Idle, Step, PublisherStage, Kind
  <2>3. NoTargets \in Targets
        BY FmsExchangeAssumption DEF NoTargets, NoTarget, Targets, Target, Own
  <2>4. NoTarget \in Target
        BY FmsExchangeAssumption DEF NoTarget, Target, Own
  <2>5. MemoryType  BY <2>3, <2>4, FmsExchangeAssumption DEF Init, MemoryType
  <2>6. DiskType  BY <2>3 DEF Init, DiskType
  <2>7. CounterType  BY FmsExchangeAssumption DEF Init, CounterType
  <2> QED  BY <2>1, <2>2, <2>5, <2>6, <2>7, TypeOKParts
<1>2. HeldIsTarget /\ PublisherHasData /\ MarkedWasSaved /\ MemoryIsKept
      BY DEF Init, HeldIsTarget, PublisherHasData, MarkedWasSaved, MemoryIsKept, HasData, Idle
<1>3. \A s \in today..Starts : saved.targets[s] \in kept[s]
      BY FmsExchangeAssumption DEF Init, NoTargets
<1> QED  BY <1>1, <1>2, <1>3 DEF IInv, ReadIsSaved

---------------------------------------------------------------------------
(* The types. *)

LEMMA CounterTypes ==
    ASSUME CounterType, Fails \/ Works, UNCHANGED crashes PROVE CounterType'
BY FmsExchangeAssumption DEF CounterType, Fails, Works

\* What ends a poll, or turns it to the next kind.
LEMMA PollEnds ==
    ASSUME ConnectionType, Throws \/ (poll' = Idle /\ (Disconnects \/ UNCHANGED connection))
    PROVE  PollType' /\ ConnectionType' /\ Locks'
BY DEF Throws, Disconnects, connection, Idle, PollType, ConnectionType, Locks, Step, Kind

\* A step that does not end it, and does not write.
LEMMA PollGoesOn ==
    ASSUME PollType, Locks, poll.pc \notin {"idle", "failing"}, UNCHANGED publisher,
           PollType', poll'.pc # "writing"
    PROVE  Locks'
BY DEF Locks

LEMMA NextKindTypes ==
    ASSUME PollType, ConnectionType, Locks, NextKind, poll.pc \notin {"idle", "failing"}, UNCHANGED publisher
    PROVE  PollType' /\ ConnectionType' /\ Locks'
<1>1. poll.kind \in 1..3  BY DEF PollType, Kind
<1>2. CASE poll.kind < 3
  <2>1. poll.kind + 1 \in Kind  BY <1>1, <1>2 DEF Kind
  <2> QED  BY <1>2, <2>1 DEF NextKind, PollType, ConnectionType, Locks, Step, connection
<1>3. CASE ~(poll.kind < 3)
      BY <1>3, PollEnds DEF NextKind
<1> QED  BY <1>2, <1>3

LEMMA QueueTypes ==
    ASSUME PollType, ConnectionType, Locks, Queue, poll.pc \notin {"idle", "failing"}, UNCHANGED publisher
    PROVE  PollType' /\ ConnectionType' /\ Locks'
<1>1. CASE Throws  BY <1>1, PollEnds
<1>2. CASE poll' = [poll EXCEPT !.pc = "marking"] /\ UNCHANGED connection
      BY <1>2 DEF PollType, ConnectionType, Locks, Step, connection
<1> QED  BY <1>1, <1>2 DEF Queue

LEMMA SetTypes ==
    ASSUME MemoryType, NEW start \in 1..Starts, NEW schedule \in Target,
           SetTargetSchedule(start, schedule), UNCHANGED <<today, scheduler>>
    PROVE  MemoryType'
<1>1. target' \in Targets
      BY FmsExchangeAssumption DEF MemoryType, SetTargetSchedule, Targets, Target, NoTarget, Own
<1>2. kept' \in [1..Starts -> SUBSET Target]
      BY DEF MemoryType, SetTargetSchedule
<1> QED  BY <1>1, <1>2 DEF MemoryType

\* The two steps of a save.
LEMMA DiskTypes ==
    ASSUME DiskType, MemoryType,
           \/ Truncate /\ UNCHANGED silent
           \/ silent' = TRUE /\ UNCHANGED saved
           \/ UNCHANGED disk
           \/ Write
    PROVE  DiskType'
<1>1. CASE Truncate /\ UNCHANGED silent  BY <1>1 DEF DiskType, Truncate
<1>2. CASE silent' = TRUE /\ UNCHANGED saved  BY <1>2 DEF DiskType
<1>3. CASE Close /\ UNCHANGED silent  BY <1>3 DEF DiskType, MemoryType, Close
<1>4. CASE UNCHANGED disk  BY <1>4 DEF DiskType, disk
<1> QED  BY <1>1, <1>2, <1>3, <1>4 DEF Write

LEMMA FileTypes ==
    ASSUME PollType
    PROVE  poll.file.version \in Target /\ poll.file.start \in 1..Starts
BY FmsExchangeAssumption DEF PollType, File, NoFile, Target, Own

LEMMA PollTypes ==
    ASSUME TypeOK, PollStep PROVE TypeOK'
<1>0. /\ ServerType /\ ConnectionType /\ PollType /\ PublisherType /\ Locks
      /\ MemoryType /\ DiskType /\ CounterType
      BY TypeOKParts
<1>e. (ServerType /\ ConnectionType /\ PollType /\ PublisherType /\ Locks /\ MemoryType /\ DiskType
         /\ CounterType)' => TypeOK'
      BY DEF TypeOK, ServerType, ConnectionType, PollType, PublisherType, Locks, MemoryType, DiskType, CounterType
<1>a. UNCHANGED <<publisher, published, today, crashes>>
      BY DEF PollStep, Look, Read, Parse, Tell, Save, Mark, DisconnectFailed, Polling, publishing
<1>p. PublisherType'  BY <1>0, <1>a DEF PublisherType
<1>b. Fails \/ Works
      BY DEF PollStep, Look, Read, Parse, Tell, Save, Open, Write, Mark, DisconnectFailed, Works, Renames
<1>c. CounterType'  BY <1>0, <1>a, <1>b, CounterTypes
<1>d. Look \/ Read \/ Parse \/ Tell \/ Save \/ Mark => poll.pc \notin {"idle", "failing"}
      BY DEF PollStep, Look, Read, Parse, Tell, Save, Mark
<1>1. CASE Look
  <2>1. ServerType' /\ MemoryType' /\ DiskType'
        BY <1>0, <1>1, <1>a DEF Look, server, memory, disk, ServerType, MemoryType, DiskType
  <2>2. PollType' /\ ConnectionType' /\ Locks'
    <3>1. CASE poll' = [poll EXCEPT !.pc = "reading"] /\ UNCHANGED connection
          BY <1>0, <1>a, <1>1, <1>d, <3>1 DEF PollType, ConnectionType, Locks, Step, connection
    <3> QED  BY <1>0, <1>1, <1>a, <1>d, <3>1, NextKindTypes DEF Look
  <2> QED  BY <1>e, <1>p, <1>c, <2>1, <2>2
<1>2. CASE Read
  <2>1. ServerType' /\ MemoryType' /\ DiskType' /\ ConnectionType'
        BY <1>0, <1>2, <1>a DEF Read, server, memory, disk, connection, ServerType, MemoryType, DiskType,
           ConnectionType
  <2>2. files[poll.kind] \in File \cup {NoFile}  BY <1>0 DEF PollType, ServerType
  <2>3. PollType' /\ Locks'
        BY <1>0, <1>2, <1>a, <1>d, <2>2 DEF Read, PollType, Locks, Step
  <2> QED  BY <1>e, <1>p, <1>c, <2>1, <2>3
<1>3. CASE Parse
  <2>1. ServerType' /\ MemoryType' /\ DiskType'
        BY <1>0, <1>3, <1>a DEF Parse, Renames, memory, disk, ServerType, MemoryType, DiskType
  <2>2. PollType' /\ ConnectionType' /\ Locks'
    <3>1. CASE Throws  BY <1>0, <3>1, PollEnds
    <3>2. CASE ChangesToRoot /\ poll' = Idle /\ UNCHANGED session
          BY <1>0, <3>2 DEF ChangesToRoot, Idle, PollType, ConnectionType, Locks, Step, Kind
    <3>3. CASE ChangesToRoot /\ poll' = [poll EXCEPT !.pc = "telling"] /\ UNCHANGED session
          BY <1>0, <1>a, <1>3, <1>d, <3>3 DEF ChangesToRoot, PollType, ConnectionType, Locks, Step
    <3> QED  BY <1>3, <3>1, <3>2, <3>3 DEF Parse
  <2> QED  BY <1>e, <1>p, <1>c, <2>1, <2>2
<1>4. CASE Tell
  <2>1. ServerType' /\ DiskType'
        BY <1>0, <1>4 DEF Tell, server, disk, ServerType, DiskType
  <2>2. PollType' /\ ConnectionType' /\ Locks'
    <3>1. CASE Throws  BY <1>0, <3>1, PollEnds
    <3>2. CASE poll' = [poll EXCEPT !.pc = "marking", !.file = NoFile] /\ UNCHANGED connection
          BY <1>0, <1>a, <1>4, <1>d, <3>2 DEF PollType, ConnectionType, Locks, Step, connection
    <3>3. CASE poll' = [poll EXCEPT !.pc = "saving"] /\ UNCHANGED connection
          BY <1>0, <1>a, <1>4, <1>d, <3>3 DEF PollType, ConnectionType, Locks, Step, connection
    <3> QED  BY <1>4, <3>1, <3>2, <3>3 DEF Tell
  <2>3. MemoryType'
    <3>1. CASE UNCHANGED <<target, kept>>
          BY <1>0, <1>4, <1>a, <3>1 DEF Tell, MemoryType
    <3>2. CASE SetTargetSchedule(poll.file.start, poll.file.version)
      <4>1. UNCHANGED <<today, scheduler>>  BY <1>4, <1>a DEF Tell
      <4> QED  BY <1>0, <3>2, <4>1, FileTypes, SetTypes
    <3> QED  BY <1>4, <3>1, <3>2 DEF Tell
  <2> QED  BY <1>e, <1>p, <1>c, <2>1, <2>2, <2>3
<1>5. CASE Save
  <2>1. ServerType' /\ MemoryType'
        BY <1>0, <1>5, <1>a DEF Save, server, memory, ServerType, MemoryType
  <2>2. DiskType'
        BY <1>0, <1>5, DiskTypes DEF Save, Open
  <2>3. PollType' /\ ConnectionType' /\ Locks'
    <3>1. CASE DataUnlocked /\ poll' = [poll EXCEPT !.pc = "writing"] /\ UNCHANGED connection
          BY <1>0, <1>a, <1>5, <1>d, <3>1 DEF DataUnlocked, PollType, ConnectionType, Locks, Step, connection
    <3>2. CASE Queue \/ Throws
          BY <1>0, <1>a, <1>5, <1>d, <3>2, QueueTypes, PollEnds
    <3> QED  BY <1>5, <3>1, <3>2 DEF Save, Open
  <2> QED  BY <1>e, <1>p, <1>c, <2>1, <2>2, <2>3
<1>6. CASE Mark
  <2>1. ServerType' /\ DiskType'
        BY <1>0, <1>6 DEF Mark, Renames, disk, ServerType, DiskType
  <2>2. MemoryType'
    <3>1. target[poll.file.start] \in Target
          BY <1>0, FileTypes DEF MemoryType, Targets
    <3>2. kept' \in [1..Starts -> SUBSET Target]
          BY <1>0, <1>6, <3>1, FileTypes DEF Mark, MemoryType
    <3> QED  BY <1>0, <1>6, <1>a, <3>2 DEF Mark, MemoryType, memory
  <2>3. PollType' /\ ConnectionType' /\ Locks'
        BY <1>0, <1>6, <1>a, <1>d, NextKindTypes DEF Mark
  <2> QED  BY <1>e, <1>p, <1>c, <2>1, <2>2, <2>3
<1>7. CASE DisconnectFailed
  <2>1. ServerType' /\ MemoryType' /\ DiskType'
        BY <1>0, <1>7, <1>a DEF DisconnectFailed, server, memory, disk, ServerType, MemoryType, DiskType
  <2>2. PollType' /\ ConnectionType' /\ Locks'
        BY <1>0, <1>7, PollEnds DEF DisconnectFailed
  <2> QED  BY <1>e, <1>p, <1>c, <2>1, <2>2
<1> QED  BY <1>1, <1>2, <1>3, <1>4, <1>5, <1>6, <1>7 DEF PollStep

LEMMA PublisherTypes ==
    ASSUME TypeOK, BeginPublish \/ PublisherStep PROVE TypeOK'
<1>0. /\ ServerType /\ ConnectionType /\ PollType /\ PublisherType /\ Locks
      /\ MemoryType /\ DiskType /\ CounterType
      BY TypeOKParts
<1>e. (ServerType /\ ConnectionType /\ PollType /\ PublisherType /\ Locks /\ MemoryType /\ DiskType
         /\ CounterType)' => TypeOK'
      BY DEF TypeOK, ServerType, ConnectionType, PollType, PublisherType, Locks, MemoryType, DiskType, CounterType
<1>1. CASE BeginPublish
  <2>1. CounterType'
        BY <1>0, <1>1, CounterTypes DEF BeginPublish, Connects, CannotConnect
  <2>2. ServerType' /\ PollType' /\ MemoryType' /\ DiskType'
        BY <1>0, <1>1 DEF BeginPublish, server, memory, disk, ServerType, PollType, MemoryType, DiskType
  <2>3. ConnectionType'
        BY <1>0, <1>1 DEF BeginPublish, Connects, CannotConnect, connection, ConnectionType
  <2>4. published' \in 0..MaxPublications
        BY <1>0, <1>1, FmsExchangeAssumption DEF BeginPublish, PublisherType
  <2>5. \E own \in BOOLEAN : publisher' = [pc |-> "pushing", own |-> own]
        BY <1>1 DEF BeginPublish
  <2>6. PublisherType'  BY <2>4, <2>5 DEF PublisherType, PublisherStage
  <2>7. Locks'  BY <1>1, <2>5 DEF BeginPublish, LockFree, Locks
  <2> QED  BY <1>e, <2>1, <2>2, <2>3, <2>6, <2>7
<1>2. CASE Push
  <2>1. ServerType' /\ PollType' /\ MemoryType' /\ DiskType' /\ CounterType'
        BY <1>0, <1>2 DEF Push, server, memory, disk, ServerType, PollType, MemoryType, DiskType, CounterType
  <2>2. ConnectionType'
        BY <1>0, <1>2 DEF Push, Disconnects, ConnectionType
  <2>3. \E pc \in {"setting", "saving"} : publisher' = [pc |-> pc, own |-> FALSE]
        BY <1>2 DEF Push, Publishing
  <2>4. published' = published /\ poll' = poll  BY <1>2 DEF Push
  <2>5. PublisherType'
        BY <1>0, <2>3, <2>4 DEF PublisherType, PublisherStage
  <2>6. Locks'
        BY <1>0, <2>3, <2>4 DEF Locks
  <2> QED  BY <1>e, <2>1, <2>2, <2>5, <2>6
<1>3. CASE SetOwn
  <2>1. ServerType' /\ PollType' /\ ConnectionType' /\ DiskType' /\ CounterType'
        BY <1>0, <1>3 DEF SetOwn, server, connection, disk, ServerType, PollType, ConnectionType, DiskType,
           CounterType
  <2>2. PublisherType' /\ Locks'
        BY <1>0, <1>3 DEF SetOwn, Publishing, PublisherType, PublisherStage, Locks
  <2>3. PICK start \in today..Starts : SetTargetSchedule(start, Own)  BY <1>3 DEF SetOwn
  <2>4. start \in 1..Starts /\ Own \in Target
        BY <1>0, FmsExchangeAssumption DEF MemoryType, Target, Own
  <2>5. MemoryType'
        BY <1>0, <1>3, <2>3, <2>4, SetTypes DEF SetOwn
  <2> QED  BY <1>e, <2>1, <2>2, <2>5
<1>4. CASE SaveOutcome
  <2>1. ServerType' /\ PollType' /\ ConnectionType' /\ MemoryType'
        BY <1>0, <1>4 DEF SaveOutcome, server, connection, memory, ServerType, PollType, ConnectionType,
           MemoryType
  <2>2. CounterType'
        BY <1>0, <1>4, CounterTypes DEF SaveOutcome, Open, Write
  <2>3. DiskType'
        BY <1>0, <1>4, DiskTypes DEF SaveOutcome, Open
  <2>4. published' = published /\ poll' = poll  BY <1>4 DEF SaveOutcome
  <2>5. \/ publisher' = [pc |-> "idle", own |-> FALSE]
        \/ DataUnlocked /\ publisher' = [pc |-> "writing", own |-> FALSE]
        BY <1>4 DEF SaveOutcome, Open, Publishing
  <2>6. \E pc \in {"idle", "writing"} : publisher' = [pc |-> pc, own |-> FALSE]  BY <2>5
  <2>7. PublisherType'
        BY <1>0, <2>4, <2>6 DEF PublisherType, PublisherStage
  <2>8. Locks'
        BY <1>0, <2>4, <2>5 DEF Locks, DataUnlocked
  <2> QED  BY <1>e, <2>1, <2>2, <2>3, <2>7, <2>8
<1> QED  BY <1>1, <1>2, <1>3, <1>4 DEF PublisherStep

\* The connection, the FMS, the time and the life of the scheduler.
OtherStep ==
    \/ BeginPoll \/ Break \/ TimePasses \/ Bind \/ Restore \/ CreateQueue \/ Crash
    \/ \E k \in Kind, start \in 1..Starts, quality \in Quality : Replace(k, start, quality)

LEMMA OtherTypes ==
    ASSUME TypeOK, OtherStep PROVE TypeOK'
<1>0. /\ ServerType /\ ConnectionType /\ PollType /\ PublisherType /\ Locks
      /\ MemoryType /\ DiskType /\ CounterType
      BY TypeOKParts
<1>e. (ServerType /\ ConnectionType /\ PollType /\ PublisherType /\ Locks /\ MemoryType /\ DiskType
         /\ CounterType)' => TypeOK'
      BY DEF TypeOK, ServerType, ConnectionType, PollType, PublisherType, Locks, MemoryType, DiskType, CounterType
<1>1. CASE BeginPoll
  <2>1. CounterType'
        BY <1>0, <1>1, CounterTypes DEF BeginPoll, Polling, Connects, CannotConnect
  <2>2. ServerType' /\ PublisherType' /\ MemoryType' /\ DiskType'
        BY <1>0, <1>1 DEF BeginPoll, Polling, server, publishing, memory, disk, ServerType, PublisherType,
           MemoryType, DiskType
  <2>3. ConnectionType'
        BY <1>1 DEF BeginPoll, Connects, CannotConnect, ConnectionType
  <2>4. PollType' /\ Locks'
        BY <1>1 DEF BeginPoll, Polling, LockFree, publishing, PollType, Locks, Idle, Step, Kind
  <2> QED  BY <1>e, <2>1, <2>2, <2>3, <2>4
<1>2. CASE Break
  <2>1. CounterType'  BY <1>0, <1>2, CounterTypes DEF Break
  <2> QED  BY <1>0, <1>2, <1>e, <2>1 DEF Break, server, publishing, memory, disk, ServerType, ConnectionType,
           PollType, PublisherType, Locks, MemoryType, DiskType
<1>3. CASE TimePasses
  <2>1. today' \in 1..Starts  BY <1>0, <1>3, FmsExchangeAssumption DEF TimePasses, MemoryType
  <2> QED  BY <1>0, <1>3, <1>e, <2>1 DEF TimePasses, server, connection, publishing, memory, disk, ServerType,
           ConnectionType, PollType, PublisherType, Locks, MemoryType, DiskType, CounterType
<1>4. CASE Bind \/ CreateQueue \/ Restore
  <2>1. MemoryType'
        BY <1>0, <1>4 DEF Bind, CreateQueue, Restore, Restored, MemoryType, DiskType
  <2> QED  BY <1>0, <1>4, <1>e, <2>1 DEF Bind, CreateQueue, Restore, server, connection, publishing, disk,
           ServerType, ConnectionType, PollType, PublisherType, Locks, DiskType, CounterType
<1>5. CASE Crash
  <2>1. CounterType'
        BY <1>0, <1>5, FmsExchangeAssumption DEF Crash, CounterType
  <2>2. NoTargets \in Targets
        BY FmsExchangeAssumption DEF NoTargets, NoTarget, Targets, Target, Own
  <2>3. ServerType' /\ MemoryType' /\ DiskType'
        BY <1>0, <1>5, <2>2 DEF Crash, server, disk, ServerType, MemoryType, DiskType
  <2>4. ConnectionType' /\ PollType' /\ PublisherType' /\ Locks'
        BY <1>0, <1>5 DEF Crash, Disconnects, Publishing, Idle, ConnectionType, PollType, PublisherType,
           PublisherStage, Locks, Step, Kind
  <2> QED  BY <1>e, <2>1, <2>3, <2>4
<1>6. CASE \E k \in Kind, start \in 1..Starts, quality \in Quality : Replace(k, start, quality)
  <2>1. PICK k \in Kind, start \in 1..Starts, quality \in Quality : Replace(k, start, quality)  BY <1>6
  <2>2. written + 1 \in 1..MaxWrites /\ written' \in 0..MaxWrites
        BY <1>0, <2>1, FmsExchangeAssumption DEF Replace, ServerType
  <2>3. [version |-> written + 1, start |-> start, quality |-> quality] \in File  BY <2>2 DEF File
  <2>4. ServerType'  BY <1>0, <2>1, <2>2, <2>3 DEF Replace, ServerType
  <2> QED  BY <1>0, <1>e, <2>1, <2>4 DEF Replace, connection, publishing, memory, disk, ConnectionType, PollType,
           PublisherType, Locks, MemoryType, DiskType, CounterType
<1> QED  BY <1>1, <1>2, <1>3, <1>4, <1>5, <1>6 DEF OtherStep

---------------------------------------------------------------------------
(* What was marked as read. *)

\* An end of the poll, or of its work on one kind, leaves nothing to be marked.
LEMMA NothingHeld ==
    ASSUME poll'.file = NoFile, poll'.pc \notin {"telling", "saving", "writing"}
    PROVE  HeldIsTarget' /\ MarkedWasSaved'
BY DEF HeldIsTarget, MarkedWasSaved

LEMMA NextKindHoldsNothing ==
    ASSUME NextKind \/ Throws PROVE poll'.file = NoFile /\ poll'.pc \in {"idle", "looking", "failing"}
BY DEF NextKind, Throws, Idle

\* A step that leaves the data, its file and the time alone.
LEMMA NoData ==
    ASSUME IInv, UNCHANGED <<today, memory, disk, kept>>, publisher'.pc = "idle" \/ publisher.pc # "idle"
    PROVE  PublisherHasData' /\ MemoryIsKept' /\ ReadIsSaved'
BY DEF IInv, memory, disk, PublisherHasData, MemoryIsKept, ReadIsSaved, HasData

\* Steps of the poll before it tells, and the handler of a failed one.
LEMMA EarlyKeeps ==
    ASSUME IInv, Look \/ Read \/ Parse \/ DisconnectFailed PROVE IInv'
<1>1. TypeOK'  BY PollTypes DEF IInv, PollStep
<1>2. UNCHANGED <<today, memory, disk, kept, publisher>>
      BY DEF Look, Read, Parse, DisconnectFailed, Polling, publishing
<1>3. PublisherHasData' /\ MemoryIsKept' /\ ReadIsSaved'  BY <1>2, NoData
<1>4. HeldIsTarget' /\ MarkedWasSaved'
  <2>1. CASE NextKind \/ Throws  BY <2>1, NothingHeld, NextKindHoldsNothing
  <2>2. CASE poll' = Idle  BY <2>2, NothingHeld DEF Idle
  <2>3. CASE Look /\ poll' = [poll EXCEPT !.pc = "reading"]
        BY <2>3 DEF Look, IInv, TypeOK, HeldIsTarget, MarkedWasSaved
  <2>4. CASE Read
        BY <2>4 DEF Read, IInv, TypeOK, HeldIsTarget, MarkedWasSaved
  <2>5. CASE Parse /\ poll.file.quality = "schedule" /\ poll' = [poll EXCEPT !.pc = "telling"]
        BY <2>5 DEF Parse, IInv, TypeOK, NoFile, HeldIsTarget, MarkedWasSaved
  <2> QED  BY <2>1, <2>2, <2>3, <2>4, <2>5 DEF Look, Parse, DisconnectFailed
<1> QED  BY <1>1, <1>3, <1>4 DEF IInv

\* setTargetSchedule keeps the memory ahead of what was marked as read.
LEMMA SetKeeps ==
    ASSUME IInv, NEW start \in 1..Starts, NEW schedule, SetTargetSchedule(start, schedule),
           UNCHANGED <<today, scheduler, disk>>
    PROVE  /\ MemoryIsKept' /\ ReadIsSaved'
           /\ target'[start] = schedule
           /\ \A s \in today..Starts : s # start => target'[s] = target[s]
<1>1. today \in 1..Starts /\ target \in Targets /\ kept \in [1..Starts -> SUBSET Target]
      BY DEF IInv, TypeOK
<1>2. \A s \in today..Starts : s \in 1..Starts  BY <1>1
<1>3. /\ target'[start] = schedule
      /\ \A s \in today..Starts : s # start => target'[s] = target[s]
      BY <1>1, <1>2 DEF SetTargetSchedule
<1>4. /\ kept'[start] = kept[start] \cup {schedule}
      /\ \A s \in today..Starts : s # start => kept'[s] = kept[s]
      BY <1>1, <1>2 DEF SetTargetSchedule
<1>5. MemoryIsKept'
  <2> SUFFICES ASSUME HasData, ~silent, NEW s \in today..Starts PROVE target'[s] \in kept'[s]
      BY DEF MemoryIsKept, HasData, disk
  <2>1. CASE s = start  BY <2>1, <1>3, <1>4
  <2>2. CASE s # start  BY <2>2, <1>3, <1>4 DEF IInv, MemoryIsKept
  <2> QED  BY <2>1, <2>2
<1>6. ReadIsSaved'
  <2> SUFFICES ASSUME ~silent, saved.whole, NEW s \in today..Starts PROVE saved.targets[s] \in kept'[s]
      BY DEF ReadIsSaved, disk
  <2>1. saved.targets[s] \in kept[s]  BY DEF IInv, ReadIsSaved
  <2> QED  BY <2>1, <1>4
<1> QED  BY <1>3, <1>5, <1>6

LEMMA TellKeeps ==
    ASSUME IInv, Tell PROVE IInv'
<1>1. TypeOK'  BY PollTypes DEF IInv, PollStep
<1>2. UNCHANGED <<today, scheduler, disk, publisher>>  BY DEF Tell, Polling, publishing
<1>3. PublisherHasData'  BY <1>2 DEF IInv, PublisherHasData, HasData
<1>4. CASE UNCHANGED <<target, kept>> /\ (Throws \/ poll' = [poll EXCEPT !.pc = "marking", !.file = NoFile])
  <2>1. MemoryIsKept' /\ ReadIsSaved'  BY <1>2, <1>4, NoData DEF memory
  <2>2. CASE Throws  BY <2>1, <2>2, <1>1, <1>3, NothingHeld, NextKindHoldsNothing DEF IInv
  <2>3. CASE poll' = [poll EXCEPT !.pc = "marking", !.file = NoFile]
    <3>1. poll'.pc = "marking" /\ poll'.file = NoFile  BY <2>3 DEF IInv, TypeOK
    <3> QED  BY <3>1, <2>1, <1>1, <1>3, NothingHeld DEF IInv
  <2> QED  BY <1>4, <2>2, <2>3
<1>5. CASE HasData /\ SetTargetSchedule(poll.file.start, poll.file.version) /\ poll' = [poll EXCEPT !.pc = "saving"]
  <2> DEFINE start == poll.file.start
             schedule == poll.file.version
  <2>1. start \in 1..Starts  BY FileTypes DEF IInv, TypeOK, PollType
  <2>2. SetTargetSchedule(start, schedule)  BY <1>5
  <2>3. poll.file # NoFile  BY DEF IInv, HeldIsTarget, Tell
  <2>4. poll'.pc = "saving" /\ poll'.file = poll.file  BY <1>5 DEF IInv, TypeOK
  <2>5. poll'.file.start = start /\ poll'.file.version = schedule  BY <2>4
  <2> HIDE DEF start, schedule
  <2>6. MemoryIsKept' /\ ReadIsSaved' /\ target'[start] = schedule
        BY <2>1, <2>2, <1>2, SetKeeps
  <2>7. HeldIsTarget'
        BY <2>3, <2>4, <2>5, <2>6, <1>2, <1>5 DEF HeldIsTarget, HasData
  <2>8. MarkedWasSaved'  BY <2>4 DEF MarkedWasSaved
  <2> QED  BY <1>1, <1>3, <2>6, <2>7, <2>8 DEF IInv
<1> QED  BY <1>4, <1>5 DEF Tell, HasData

\* A save of either thread takes over the memory.
LEMMA SavesKeep ==
    ASSUME IInv, TypeOK', UNCHANGED <<today, memory, kept>>, HasData,
           \/ Truncate /\ UNCHANGED silent
           \/ silent' = TRUE /\ UNCHANGED saved
           \/ UNCHANGED disk
           \/ Write
    PROVE  /\ MemoryIsKept' /\ ReadIsSaved'
           /\ ~silent' => ~silent /\ (~saved'.whole \/ saved'.targets = target \/ UNCHANGED saved)
<1>1. silent \in BOOLEAN /\ (~silent' => ~silent)  BY DEF IInv, TypeOK, Write, disk
<1>2. ~silent' => ~saved'.whole \/ saved'.targets = target \/ UNCHANGED saved
      BY DEF IInv, TypeOK, Truncate, Write, Close, disk
<1>3. MemoryIsKept'
      BY <1>1 DEF IInv, MemoryIsKept, HasData, memory
<1>4. ReadIsSaved'
  <2> SUFFICES ASSUME ~silent', saved'.whole, NEW s \in today..Starts PROVE saved'.targets[s] \in kept[s]
      BY DEF ReadIsSaved
  <2>1. target[s] \in kept[s]  BY <1>1 DEF IInv, MemoryIsKept
  <2>2. saved.whole => saved.targets[s] \in kept[s]  BY <1>1 DEF IInv, ReadIsSaved
  <2> QED  BY <1>2, <2>1, <2>2
<1> QED  BY <1>1, <1>2, <1>3, <1>4

LEMMA SaveKeeps ==
    ASSUME IInv, Save PROVE IInv'
<1>1. TypeOK'  BY PollTypes DEF IInv, PollStep
<1>2. UNCHANGED <<today, memory, kept, publisher>>  BY DEF Save, Polling, publishing
<1>3. PublisherHasData'  BY <1>2 DEF IInv, PublisherHasData, HasData, memory
<1>4. HasData /\ poll.file # NoFile /\ poll.pc \in {"saving", "writing"}
      BY DEF IInv, Save, HeldIsTarget
<1>5. poll.file.start >= today => target[poll.file.start] \in {poll.file.version, Own}
      BY <1>4 DEF IInv, HeldIsTarget
<1>6. \/ Truncate /\ UNCHANGED silent
      \/ silent' = TRUE /\ UNCHANGED saved
      \/ UNCHANGED disk
      \/ Write
      BY DEF Save, Open
<1>7. MemoryIsKept' /\ ReadIsSaved'  BY <1>1, <1>2, <1>4, <1>6, SavesKeep
<1>8. HeldIsTarget' /\ MarkedWasSaved'
  <2>1. CASE Throws  BY <2>1, NothingHeld, NextKindHoldsNothing
  <2>2. CASE poll' = [poll EXCEPT !.pc = "writing"]
    <3>1. poll'.pc = "writing" /\ poll'.file = poll.file  BY <2>2 DEF IInv, TypeOK
    <3> QED  BY <3>1, <1>2, <1>4, <1>5 DEF HeldIsTarget, MarkedWasSaved, HasData, memory
  <2>3. CASE /\ poll' = [poll EXCEPT !.pc = "marking"]
             /\ silent' = TRUE \/ Write
    <3>1. poll'.pc = "marking" /\ poll'.file = poll.file  BY <2>3 DEF IInv, TypeOK
    <3>2. HeldIsTarget'
          BY <3>1, <1>2, <1>4, <1>5 DEF HeldIsTarget, HasData, memory
    <3>3. ~silent' => saved'.targets = target
          BY <2>3 DEF Write, Close
    <3>4. MarkedWasSaved'
          BY <3>1, <3>3, <1>2 DEF MarkedWasSaved, memory
    <3> QED  BY <3>2, <3>4
  <2> QED  BY <2>1, <2>2, <2>3 DEF Save, Open, Queue
<1> QED  BY <1>1, <1>3, <1>7, <1>8 DEF IInv

\* What is marked as read is in the file, or what replaced it is; from then on nothing
\* older may be.
LEMMA MarkKeeps ==
    ASSUME IInv, Mark PROVE IInv'
<1>1. TypeOK'  BY PollTypes DEF IInv, PollStep
<1>2. UNCHANGED <<today, memory, disk, publisher>>  BY DEF Mark, Polling, publishing
<1>3. HeldIsTarget' /\ MarkedWasSaved'
      BY NothingHeld, NextKindHoldsNothing DEF Mark
<1>4. PublisherHasData'  BY <1>2 DEF IInv, PublisherHasData, HasData, memory
<1>5. CASE kept' = kept
      BY <1>1, <1>2, <1>3, <1>4, <1>5, NoData DEF IInv, PublisherHasData, HasData, memory, MemoryIsKept, ReadIsSaved,
         disk
<1>6. CASE kept' # kept
  <2> DEFINE start == poll.file.start
             schedule == poll.file.version
  <2>1. /\ poll.file # NoFile /\ poll.pc = "marking"
        /\ kept' = [kept EXCEPT ![start] = {schedule, target[start]}]
        BY <1>6 DEF Mark
  <2>2. start >= today /\ ~silent /\ saved.whole => saved.targets[start] \in {schedule, target[start]}
        BY <2>1 DEF IInv, MarkedWasSaved
  <2>3. start \in 1..Starts /\ today \in 1..Starts
        BY FileTypes DEF IInv, TypeOK, PollType
  <2> HIDE DEF start, schedule
  <2>4. \A s \in today..Starts : kept'[s] = IF s = start THEN {schedule, target[start]} ELSE kept[s]
        BY <2>1, <2>3 DEF IInv, TypeOK
  <2>5. MemoryIsKept'
    <3> SUFFICES ASSUME HasData, ~silent, NEW s \in today..Starts PROVE target[s] \in kept'[s]
        BY <1>2 DEF MemoryIsKept, HasData, memory, disk
    <3>1. target[s] \in kept[s]  BY DEF IInv, MemoryIsKept
    <3> QED  BY <3>1, <2>4
  <2>6. ReadIsSaved'
    <3> SUFFICES ASSUME ~silent, saved.whole, NEW s \in today..Starts PROVE saved.targets[s] \in kept'[s]
        BY <1>2 DEF ReadIsSaved, disk
    <3>1. saved.targets[s] \in kept[s]  BY DEF IInv, ReadIsSaved
    <3>2. s = start => s >= today  BY <2>3
    <3> QED  BY <3>1, <3>2, <2>2, <2>4
  <2> QED  BY <1>1, <1>3, <1>4, <2>5, <2>6 DEF IInv
<1> QED  BY <1>5, <1>6

---------------------------------------------------------------------------
LEMMA PublisherKeeps ==
    ASSUME IInv, BeginPublish \/ PublisherStep PROVE IInv'
<1>1. TypeOK'  BY PublisherTypes DEF IInv
<1>2. poll' = poll /\ today' = today
      BY DEF BeginPublish, PublisherStep, Push, SetOwn, SaveOutcome
<1>3. HasData /\ scheduler' = scheduler
      BY DEF IInv, PublisherHasData, HasData, BeginPublish, PublisherStep, Push, SetOwn, SaveOutcome, memory
<1>4. PublisherHasData'  BY <1>3 DEF PublisherHasData, HasData
<1>5. CASE BeginPublish \/ Push
  <2>1. UNCHANGED <<today, memory, disk, kept>>  BY <1>5 DEF BeginPublish, Push
  <2> QED  BY <1>1, <1>2, <1>4, <2>1 DEF IInv, memory, disk, MemoryIsKept, ReadIsSaved, HeldIsTarget, MarkedWasSaved,
           HasData
<1>6. CASE SetOwn
  <2>1. PICK start \in today..Starts : SetTargetSchedule(start, Own)  BY <1>6 DEF SetOwn
  <2>2. start \in 1..Starts  BY DEF IInv, TypeOK
  <2>3. UNCHANGED <<today, scheduler, disk>>  BY <1>6 DEF SetOwn
  <2>4. /\ MemoryIsKept' /\ ReadIsSaved'
        /\ target'[start] = Own
        /\ \A s \in today..Starts : s # start => target'[s] = target[s]
        BY <2>1, <2>2, <2>3, SetKeeps
  <2> DEFINE held == poll.file.start
             schedule == poll.file.version
  <2>5. held \in 1..Starts /\ today \in 1..Starts  BY FileTypes DEF IInv, TypeOK, PollType
  <2>6. held >= today => target'[held] \in {target[held], Own}
        BY <2>4, <2>5
  <2>7. HeldIsTarget'
        BY <2>3, <2>6, <1>2 DEF IInv, HeldIsTarget, HasData
  <2>8. MarkedWasSaved'
    <3> SUFFICES ASSUME poll.pc = "marking", poll.file # NoFile, held >= today, ~silent, saved.whole
                 PROVE  saved.targets[held] \in {schedule, target'[held]}
        BY <1>2, <2>3 DEF MarkedWasSaved, disk
    <3>1. saved.targets[held] \in {schedule, target[held]}  BY DEF IInv, MarkedWasSaved
    <3>2. target[held] \in {schedule, Own}  BY DEF IInv, HeldIsTarget
    <3>3. target'[held] = target[held] \/ target'[held] = Own  BY <2>6
    <3> HIDE DEF held, schedule
    <3>4. held # start => target'[held] = target[held]  BY <2>4, <2>5
    <3>5. held = start => target'[held] = Own  BY <2>4
    <3> QED  BY <3>1, <3>2, <3>4, <3>5
  <2> QED  BY <1>1, <1>4, <2>4, <2>7, <2>8 DEF IInv
<1>7. CASE SaveOutcome
  <2>1. UNCHANGED <<today, memory, kept>>  BY <1>7 DEF SaveOutcome
  <2>2. \/ Truncate /\ UNCHANGED silent
        \/ silent' = TRUE /\ UNCHANGED saved
        \/ UNCHANGED disk
        \/ Write
        BY <1>7 DEF SaveOutcome, Open
  <2>3. /\ MemoryIsKept' /\ ReadIsSaved'
        /\ ~silent' => ~silent /\ (~saved'.whole \/ saved'.targets = target \/ UNCHANGED saved)
        BY <1>1, <1>3, <2>1, <2>2, SavesKeep
  <2>4. HeldIsTarget'  BY <1>2, <2>1 DEF IInv, HeldIsTarget, HasData, memory
  <2>5. MarkedWasSaved'
        BY <1>2, <2>1, <2>3 DEF IInv, MarkedWasSaved, memory
  <2> QED  BY <1>1, <1>4, <2>3, <2>4, <2>5 DEF IInv
<1> QED  BY <1>5, <1>6, <1>7 DEF PublisherStep

LEMMA OtherKeeps ==
    ASSUME IInv, OtherStep PROVE IInv'
<1>1. TypeOK'  BY OtherTypes DEF IInv
<1>2. CASE BeginPoll
  <2>1. UNCHANGED <<today, memory, disk, kept, publisher>>  BY <1>2 DEF BeginPoll, Polling, publishing
  <2>2. poll'.file = NoFile /\ poll'.pc = "looking"  BY <1>2 DEF BeginPoll, Idle
  <2> QED  BY <1>1, <2>1, <2>2, NoData, NothingHeld DEF IInv
<1>3. CASE Break \/ \E k \in Kind, start \in 1..Starts, quality \in Quality : Replace(k, start, quality)
  <2>1. UNCHANGED <<poll, publisher, today, memory, disk, kept>>  BY <1>3 DEF Break, Replace, publishing
  <2> QED  BY <1>1, <2>1, NoData DEF IInv, memory, disk, HeldIsTarget, MarkedWasSaved, HasData
<1>4. CASE TimePasses
  <2>1. UNCHANGED <<poll, publisher, memory, disk, kept>> /\ today' = today + 1
        BY <1>4 DEF TimePasses, publishing
  <2>2. today \in 1..Starts /\ today' \in 1..Starts /\ poll.file.start \in 1..Starts
        BY <1>1, FileTypes DEF IInv, TypeOK, PollType
  <2>3. \A s \in today'..Starts : s \in today..Starts  BY <2>1, <2>2
  <2>4. poll.file.start >= today' => poll.file.start >= today  BY <2>1, <2>2
  <2>5. HeldIsTarget' /\ MarkedWasSaved'
        BY <2>1, <2>4 DEF IInv, memory, disk, HeldIsTarget, MarkedWasSaved, HasData
  <2>6. MemoryIsKept' /\ ReadIsSaved' /\ PublisherHasData'
        BY <2>1, <2>3 DEF IInv, memory, disk, MemoryIsKept, ReadIsSaved, PublisherHasData, HasData
  <2> QED  BY <1>1, <2>5, <2>6 DEF IInv
<1>5. CASE Bind \/ Restore \/ CreateQueue
  <2>1. UNCHANGED <<poll, publisher, today, disk, kept>>
        BY <1>5 DEF Bind, Restore, CreateQueue, publishing
  <2>2. HasData => HasData' /\ UNCHANGED target
        BY <1>5 DEF Bind, Restore, CreateQueue, HasData
  <2>3. HasData' /\ ~HasData => saved.whole /\ target' = saved.targets
        BY <1>5 DEF Bind, Restore, Restored, CreateQueue, HasData
  <2>4. ReadIsSaved' /\ PublisherHasData'
        BY <2>1, <2>2 DEF IInv, disk, ReadIsSaved, PublisherHasData
  <2>5. MemoryIsKept'
        BY <2>1, <2>2, <2>3 DEF IInv, disk, ReadIsSaved, MemoryIsKept
  <2>6. HeldIsTarget'  BY <2>1, <2>2 DEF IInv, HeldIsTarget
  <2>7. MarkedWasSaved'
        BY <2>1, <2>2 DEF IInv, HeldIsTarget, MarkedWasSaved, disk
  <2> QED  BY <1>1, <2>4, <2>5, <2>6, <2>7 DEF IInv
<1>6. CASE Crash
  <2>1. poll'.file = NoFile /\ poll'.pc = "idle" /\ publisher'.pc = "idle"
        BY <1>6 DEF Crash, Publishing, Idle
  <2>2. ReadIsSaved' /\ MemoryIsKept' /\ PublisherHasData'
        BY <1>6, <2>1 DEF IInv, Crash, disk, ReadIsSaved, MemoryIsKept, PublisherHasData, HasData
  <2> QED  BY <1>1, <2>1, <2>2, NothingHeld DEF IInv
<1> QED  BY <1>2, <1>3, <1>4, <1>5, <1>6 DEF OtherStep

LEMMA StepIInv == IInv /\ [Next]_vars => IInv'
<1> SUFFICES ASSUME IInv, [Next]_vars PROVE IInv'  OBVIOUS
<1>1. CASE PollStep
      BY <1>1, EarlyKeeps, TellKeeps, SaveKeeps, MarkKeeps DEF PollStep
<1>2. CASE BeginPublish \/ PublisherStep  BY <1>2, PublisherKeeps
<1>3. CASE OtherStep  BY <1>3, OtherKeeps
<1>4. CASE UNCHANGED vars
      BY <1>4 DEF vars, server, connection, publishing, memory, disk, IInv, TypeOK, HeldIsTarget, PublisherHasData,
         MarkedWasSaved, MemoryIsKept, ReadIsSaved, HasData
<1> QED  BY <1>1, <1>2, <1>3, <1>4 DEF Next, PollStep, PublisherStep, OtherStep

\* The inductive invariant of the exchange: what the poll holds is what the scheduler was
\* told, the memory has what was marked as read or what was set since, and so has the file.
THEOREM ExchangeInvariance == Spec => []IInv
<1> QED  BY InitIInv, StepIInv, PTL DEF Spec

\* Types, and the locks: a poll and a publication never use the session at the same time,
\* up to the handler of a failed poll, which disconnects after giving up the lock, and
\* never write the scheduler's file at the same time.
THEOREM ExchangeTypeCorrect == Spec => []TypeOK
<1>1. IInv => TypeOK  BY DEF IInv
<1> QED  BY <1>1, ExchangeInvariance, PTL

\* No restart forgets a schedule that was told and marked as read (the promise of
\* updateSchedule in FmsCommunicationListener), for whatever start and whoever sets
\* another: the file has it or a later one, as long as no save has failed silently and the
\* file is whole, which a crash in the middle of a save ends for good.
THEOREM ReadSurvivesRestarts == Spec => []ReadIsSaved
<1>1. IInv => ReadIsSaved  BY DEF IInv
<1> QED  BY <1>1, ExchangeInvariance, PTL
=============================================================================
