----------------------------- MODULE FmsExchange -----------------------------
(***************************************************************************)
(* The exchange of files with the FMS over SFTP (FmsCommunication).  The   *)
(* FMS puts target schedules, updates of them and requests into a folder,  *)
(* one file of each kind, and may replace a file at any time.  A poll      *)
(* reads them, tells the scheduler, which saves them, and marks them as    *)
(* read by moving them away.  The publishing thread uses the same session  *)
(* under the same lock.                                                    *)
(*                                                                         *)
(* The scheduler keeps one map of targets, keyed by the time a schedule    *)
(* begins, for all kinds and for the schedules it publishes itself; it     *)
(* saves the map from both threads, with a write that first truncates the  *)
(* file.  Files are numbered in the order the FMS writes them; their kinds *)
(* are numbered in the order a poll looks for them.                        *)
(***************************************************************************)
EXTENDS Integers

CONSTANTS
    Starts,           \* the times at which schedules begin: 1..Starts
    MaxWrites,        \* bound on the files of the FMS
    MaxTogether,      \* bound on failures, crashes, publications and days together
    MaxFailures,      \* bound on operations that fail
    MaxCrashes,       \* bound on crashes
    MaxPublications   \* bound on publications

ASSUME FmsExchangeAssumption ==
    /\ Starts \in Nat \ {0} /\ MaxWrites \in Nat /\ MaxFailures \in Nat
    /\ MaxTogether \in Nat /\ MaxCrashes \in Nat /\ MaxPublications \in Nat

\* TargetSchedule, TargetScheduleUpdate, ScheduleRequest.
Kind == 1..3

\* What parsing a file leads to: a schedule, null, or an exception (a row beyond the end).
Quality == {"schedule", "null", "exception"}
File == [version : 1..MaxWrites, start : 1..Starts, quality : Quality]
NoFile == [version |-> 0, start |-> 1, quality |-> "none"]

\* A target: the number of the file it came in, or the scheduler's own schedule.
Own == MaxWrites + 1
NoTarget == 0
NoTargets == [s \in 1..Starts |-> NoTarget]

VARIABLES
    files,       \* the file of each kind that waits to be read
    written,     \* the number of files the FMS has written
    session,     \* the SFTP session: "none", "open" or "broken"
    directory,   \* the working directory of the session
    poll,        \* the polling thread: where it is, the kind it looks at, what it has read
    publisher,   \* the publishing thread: where it is, whether it has connected itself
    published,   \* counts the publications
    today,       \* schedules that begin before have ended
    scheduler,   \* "absent", "bound" (listening), "restored" (with its data), "ready", "failed"
    target,      \* the targets in the scheduler's memory, by their start
    saved,       \* its file: the targets, and whether it is whole
    kept,        \* by their start: the last target that was told and marked, and those set since
    silent,      \* whether a save has failed without an exception
    failures,    \* counts what is bounded by MaxFailures
    crashes      \* counts what is bounded by MaxCrashes

server == <<files, written>>
connection == <<session, directory>>
publishing == <<publisher, published>>
memory == <<scheduler, target>>
disk == <<saved, silent>>
vars == <<server, connection, poll, publishing, today, memory, disk, kept, failures, crashes>>

Idle == [pc |-> "idle", kind |-> 1, file |-> NoFile]

Init ==
    /\ files = [k \in Kind |-> NoFile] /\ written = 0
    /\ session = "none" /\ directory = "home"
    /\ poll = Idle
    /\ publisher = [pc |-> "idle", own |-> FALSE]
    /\ published = 0 /\ today = 1
    /\ scheduler = "absent" /\ target = NoTargets
    /\ saved = [whole |-> TRUE, targets |-> NoTargets]  \* no file: preset values
    /\ silent = FALSE /\ kept = [s \in 1..Starts |-> {NoTarget}]
    /\ failures = 0 /\ crashes = 0

Bounded == failures + crashes + published + today <= MaxTogether
Fails == failures < MaxFailures /\ Bounded /\ failures' = failures + 1
Works == UNCHANGED failures

\* Nobody holds the lock on the session; a poll that has failed has given it up.
Unlocked == TRUE  \* mutant
LockFree == poll.pc \in {"idle", "failing"} /\ publisher.pc # "pushing"

---------------------------------------------------------------------------
(* SftpConnection. *)

\* connect() leaves a session that is already there, and begins in the home directory.
Connects == Works /\ session' = "open"
CannotConnect == Fails /\ session' = "none"

Disconnects == session' = "none" /\ directory' = "home"

\* The session is lost; every operation on it fails, quietly.
Break ==
    /\ session = "open" /\ Fails /\ session' = "broken" /\ directory' = "home"
    /\ UNCHANGED <<server, poll, publishing, today, memory, disk, kept, crashes>>

---------------------------------------------------------------------------
(* run: the poll, which holds the lock from its first step to its last. *)

Polling == UNCHANGED <<publishing, today, crashes>>

\* A session that was left open is closed; a folder that cannot be entered is only logged.
BeginPoll ==
    /\ poll.pc = "idle" /\ LockFree
    /\ \/ Connects /\ directory' = "source"
       \/ Fails /\ session' = "open" /\ directory' = "home"
       \/ CannotConnect /\ directory' = "home"
    /\ poll' = [Idle EXCEPT !.pc = "looking"]
    /\ Polling /\ UNCHANGED <<server, memory, disk, kept>>

EndPoll == poll' = Idle /\ Disconnects  \* mutant: after the first kind

\* The poll is done with a kind: it turns to the next, and disconnects after the last.
NextKind ==
    IF poll.kind < 3
    THEN poll' = [pc |-> "looking", kind |-> poll.kind + 1, file |-> NoFile] /\ UNCHANGED connection
    ELSE poll' = Idle /\ Disconnects

\* The names are relative to the working directory; a failure looks like no file.
Look ==
    /\ poll.pc = "looking"
    /\ IF session = "open" /\ directory = "source" /\ files[poll.kind] # NoFile
       THEN \/ Works /\ poll' = [poll EXCEPT !.pc = "reading"] /\ UNCHANGED connection
            \/ Fails /\ NextKind
       ELSE Works /\ NextKind
    /\ Polling /\ UNCHANGED <<server, memory, disk, kept>>

\* What cannot be read is null, and is parsed to null.
Read ==
    /\ poll.pc = "reading"
    /\ \/ session = "open" /\ Works /\ poll' = [poll EXCEPT !.pc = "parsing", !.file = files[poll.kind]]
       \/ session = "open" /\ Fails /\ poll' = [poll EXCEPT !.pc = "parsing"]
       \/ session # "open" /\ Works /\ poll' = [poll EXCEPT !.pc = "parsing"]
    /\ Polling /\ UNCHANGED <<server, connection, memory, disk, kept>>

\* sftp.rename moves what is there now; it can fail, which nobody looks at.
Renames ==
    \/ /\ session = "open" /\ Works /\ files' = [files EXCEPT ![poll.kind] = NoFile]
    \/ /\ session = "open" /\ Fails /\ UNCHANGED files
    \/ /\ session # "open" /\ Works /\ UNCHANGED files

\* An exception skips the rest of the poll, and gives up the lock ...
Throws == poll' = [Idle EXCEPT !.pc = "failing"] /\ UNCHANGED connection

\* ... before its handler disconnects, whoever uses the session by then.
DisconnectFailed ==
    /\ poll.pc = "failing" /\ poll' = Idle
    /\ \/ Disconnects
       \/ session = "broken" /\ UNCHANGED connection
    /\ Polling /\ UNCHANGED <<server, memory, disk, kept, failures>>

ChangesToRoot == directory' = IF session = "open" THEN "root" ELSE directory

\* An exception leaves the file where it is.  A file without a schedule is moved to the
\* failed ones, and the poll returns with the session open.
Parse ==
    /\ poll.pc = "parsing"
    /\ \/ poll.file.quality = "exception" /\ Throws /\ Works /\ UNCHANGED files
       \/ /\ poll.file.quality \in {"null", "none"}
          /\ ChangesToRoot /\ Renames /\ poll' = Idle /\ UNCHANGED session
       \/ /\ poll.file.quality = "schedule"
          /\ ChangesToRoot /\ poll' = [poll EXCEPT !.pc = "telling"]
          /\ Works /\ UNCHANGED <<files, session>>
    /\ Polling /\ UNCHANGED <<written, memory, disk, kept>>

---------------------------------------------------------------------------
(* The data of the scheduler, under a lock of its own. *)

DataUnlocked == poll.pc # "writing" /\ publisher.pc # "writing"

\* setTargetSchedule: schedules that have ended are removed, and one with the same start
\* is replaced, whatever its kind.
SetTargetSchedule(start, schedule) ==
    /\ DataUnlocked
    /\ target' = [s \in 1..Starts |-> IF s = start THEN schedule
                                      ELSE IF s < today THEN NoTarget ELSE target[s]]
    /\ kept' = [kept EXCEPT ![start] = @ \cup {schedule}]

Truncate == saved' = [saved EXCEPT !.whole = FALSE]
Close == saved' = [whole |-> TRUE, targets |-> target]

\* saveState: serialising the data can throw; a file that cannot be opened is only printed.
Open(opened, skipped, thrown) ==
    /\ DataUnlocked
    /\ \/ Works /\ Truncate /\ opened /\ UNCHANGED silent
       \/ Fails /\ silent' = TRUE /\ skipped /\ UNCHANGED saved
       \/ Fails /\ thrown /\ UNCHANGED disk

\* A write that fails goes unnoticed, and leaves the file cut.
Write ==
    \/ Works /\ Close /\ UNCHANGED silent
    \/ Fails /\ silent' = TRUE /\ UNCHANGED saved

---------------------------------------------------------------------------
(* The poll goes on: it tells, saves and marks. *)

\* updateSchedule or requestSchedule of the scheduler, if it listens already; it throws
\* while it has no data.
Tell ==
    /\ poll.pc = "telling"
    /\ \/ /\ scheduler = "absent"
          /\ poll' = [poll EXCEPT !.pc = "marking", !.file = NoFile]
          /\ UNCHANGED <<connection, target, kept>>
       \/ scheduler \in {"bound", "failed"} /\ Throws /\ UNCHANGED <<target, kept>>
       \/ /\ scheduler \in {"restored", "ready"}
          /\ SetTargetSchedule(poll.file.start, poll.file.version)
          /\ poll' = [poll EXCEPT !.pc = "saving"] /\ UNCHANGED connection
    /\ Polling /\ UNCHANGED <<server, scheduler, disk, failures>>

\* After the save an optimization is queued, if the queue exists already.
Queue == IF scheduler = "ready"
         THEN poll' = [poll EXCEPT !.pc = "marking"] /\ UNCHANGED connection
         ELSE Throws

Save ==
    /\ \/ /\ poll.pc = "saving"
          /\ Open(poll' = [poll EXCEPT !.pc = "writing"] /\ UNCHANGED connection, Queue, Throws)
       \/ poll.pc = "writing" /\ Write /\ Queue
    /\ Polling /\ UNCHANGED <<server, memory, kept>>

\* Marked as read; the name was looked up in the folder, the rest of the poll looks in "/".
\* What the scheduler has by then is the schedule it was told, or was set since.
Mark ==
    /\ poll.pc = "marking" /\ Renames /\ NextKind
    /\ kept' = IF files' # files /\ poll.file # NoFile
               THEN [kept EXCEPT ![poll.file.start] = {poll.file.version, target[poll.file.start]}]
               ELSE kept
    /\ Polling /\ UNCHANGED <<written, memory, disk>>

PollStep == Look \/ Read \/ Parse \/ Tell \/ Save \/ Mark \/ DisconnectFailed

---------------------------------------------------------------------------
(* publishSchedule, of FmsCommunication and of the scheduler. *)

Publishing(pc) == publisher' = [pc |-> pc, own |-> FALSE]

\* A session that a poll left open is used, and left open; a lost one may look open.
BeginPublish ==
    /\ scheduler = "ready" /\ publisher.pc = "idle" /\ LockFree
    /\ published < MaxPublications /\ Bounded /\ published' = published + 1
    /\ \/ /\ session # "open" /\ (Connects \/ CannotConnect) /\ directory' = "home"
          /\ publisher' = [pc |-> "pushing", own |-> TRUE]
       \/ /\ session # "none" /\ Works /\ UNCHANGED connection
          /\ publisher' = [pc |-> "pushing", own |-> FALSE]
    /\ UNCHANGED <<server, poll, today, memory, disk, kept, crashes>>

\* pushData, whose result SchedulePublication is about.
Push ==
    /\ publisher.pc = "pushing" /\ (Publishing("setting") \/ Publishing("saving"))
    /\ IF publisher.own THEN Disconnects
       ELSE directory' = (IF session = "open" THEN "push" ELSE directory) /\ UNCHANGED session
    /\ UNCHANGED <<server, poll, published, today, memory, disk, kept, failures, crashes>>

\* An initial publication becomes a target; the outcome is saved with all other data.
SetOwn ==
    /\ publisher.pc = "setting" /\ Publishing("saving")
    /\ \E start \in today..Starts : SetTargetSchedule(start, Own)
    /\ UNCHANGED <<server, connection, poll, published, today, scheduler, disk, failures, crashes>>

SaveOutcome ==
    /\ \/ /\ publisher.pc = "saving"
          /\ Open(Publishing("writing"), Publishing("idle"), Publishing("idle"))
       \/ publisher.pc = "writing" /\ Write /\ Publishing("idle")
    /\ UNCHANGED <<server, connection, poll, published, today, memory, kept, crashes>>

PublisherStep == Push \/ SetOwn \/ SaveOutcome

---------------------------------------------------------------------------
(* The FMS, the time, and the life of the scheduler. *)

Replace(k, start, quality) ==
    /\ written < MaxWrites /\ written' = written + 1
    /\ quality = "schedule" \/ start = 1  \* what is not a schedule has no start
    /\ files' = [files EXCEPT ![k] = [version |-> written + 1, start |-> start, quality |-> quality]]
    /\ UNCHANGED <<connection, poll, publishing, today, memory, disk, kept, failures, crashes>>

TimePasses ==
    /\ today < Starts /\ Bounded /\ today' = today + 1
    /\ UNCHANGED <<server, connection, poll, publishing, memory, disk, kept, failures, crashes>>

\* The polls begin when the service starts; the scheduler registers its listener when it
\* finds the service.
Bind ==
    /\ scheduler = "absent" /\ scheduler' = "bound"
    /\ UNCHANGED <<server, connection, poll, publishing, today, target, disk, kept, failures, crashes>>

Forgotten == NoTargets  \* mutant: the state is not restored
Restored == saved.targets

\* When it runs it restores its state.  A file that is cut is read as null, and the first
\* access to the data throws.
Restore ==
    /\ scheduler = "bound"
    /\ IF saved.whole THEN scheduler' = "restored" /\ target' = Restored
       ELSE scheduler' = "failed" /\ UNCHANGED target
    /\ UNCHANGED <<server, connection, poll, publishing, today, disk, kept, failures, crashes>>

\* It creates its queue once it is connected to the bus.
CreateQueue ==
    /\ scheduler = "restored" /\ scheduler' = "ready"
    /\ UNCHANGED <<server, connection, poll, publishing, today, target, disk, kept, failures, crashes>>

Crash ==
    /\ crashes < MaxCrashes /\ Bounded /\ crashes' = crashes + 1
    /\ Disconnects /\ poll' = Idle
    /\ Publishing("idle")
    /\ scheduler' = "absent" /\ target' = NoTargets
    /\ UNCHANGED <<server, published, today, disk, kept, failures>>

---------------------------------------------------------------------------
Next ==
    \/ BeginPoll \/ Look \/ Read \/ Parse \/ Tell \/ Save \/ Mark \/ DisconnectFailed
    \/ BeginPublish \/ Push \/ SetOwn \/ SaveOutcome \/ Break \/ TimePasses
    \/ Bind \/ Restore \/ CreateQueue \/ Crash
    \/ \E k \in Kind, start \in 1..Starts, quality \in Quality : Replace(k, start, quality)

Spec == Init /\ [][Next]_vars

\* The timer polls, threads that hold a lock go on, and the scheduler starts up.
FairSpec ==
    Spec /\ WF_vars(BeginPoll) /\ WF_vars(PollStep) /\ WF_vars(PublisherStep)
         /\ WF_vars(Bind \/ Restore \/ CreateQueue)

---------------------------------------------------------------------------
(* Properties. *)

Step == {"idle", "looking", "reading", "parsing", "telling", "saving", "writing", "marking", "failing"}
PublisherStage == {"idle", "pushing", "setting", "saving", "writing"}
Target == 0..Own
Targets == [1..Starts -> Target]

\* Types; a poll and a publication never use the session together, until the poll has
\* failed, and never write the file together.
TypeOK ==
    /\ files \in [Kind -> File \cup {NoFile}] /\ written \in 0..MaxWrites
    /\ session \in {"none", "open", "broken"}
    /\ directory \in {"home", "source", "root", "push"}
    /\ poll \in [pc : Step, kind : Kind, file : File \cup {NoFile}]
    /\ publisher \in [pc : PublisherStage, own : BOOLEAN]
    /\ published \in 0..MaxPublications
    /\ poll.pc \in {"idle", "failing"} \/ publisher.pc # "pushing"
    /\ poll.pc # "writing" \/ publisher.pc # "writing"
    /\ today \in 1..Starts
    /\ scheduler \in {"absent", "bound", "restored", "ready", "failed"}
    /\ target \in Targets /\ saved \in [whole : BOOLEAN, targets : Targets]
    /\ kept \in [1..Starts -> SUBSET Target]
    /\ silent \in BOOLEAN /\ failures \in 0..MaxFailures /\ crashes \in 0..MaxCrashes

\* A schedule that the scheduler was told and that is marked as read survives restarts: for
\* every start that has not ended, the file has it, or one that was set after it.  This is
\* so unless a save has failed silently or the file is cut, as it is while it is written:
\* a crash then loses it.
ReadIsSaved ==
    silent \/ ~saved.whole \/ \A s \in today..Starts : saved.targets[s] \in kept[s]

\* Files do not stay on the server, whatever fails and although a poll handles one kind
\* only, unless a file that makes the poll throw lies before them or the scheduler has
\* found its file cut.
FilesAreTaken ==
    \A k \in Kind : []<>(\/ files[k] = NoFile
                         \/ scheduler = "failed"
                         \/ \E j \in 1..k : files[j].quality = "exception")

\* What FmsCommunicationListener promises: a schedule is only marked as read when the
\* scheduler has been told.
MarkedOnlyWhenTold ==
    [][\A k \in Kind :
         poll.pc = "marking" /\ files[k].quality = "schedule" /\ files'[k] = NoFile =>
             poll.file = files[k]]_vars
=============================================================================
