# A verification project for the GridControl BEMS

This directory holds TLA+ models of the building energy management system in this
repository, TLC configurations that check them on small instances, and TLAPS proofs of
their main safety properties. Paths below are relative to the repository; `scheduling/`
stands for `de.fzi.osh.scheduling/src/de/fzi/osh/scheduling/`, `gui/` for
`de.fzi.osh.gui.basic/web/d3/`.

## 1. The system

The system is a set of Java processes that talk over a WAMP message bus (Crossbar) and
exchange files with the grid operator's flexibility management system (FMS).

| Component | State | Operations | Interacts with |
|---|---|---|---|
| **Scheduler** (`Scheduler`, `SchedulerController`, `SchedulerObserver`) | `SchedulerData` (targets, incomplete publications, time of the last success, GCU flag), saved as JSON | start-up, publish a schedule, follow a target schedule, adapt flexibilities | everything below |
| **Optimization queue** (`SchedulerOptimizationQueue`) | three maps from due time to job, time of the last run per kind | queue an optimization, queue a publication; a worker thread executes jobs | called by timers, the FMS poll, the bus thread, the retry job; calls the observer |
| **Retry job** (`RetrySchedulePublicationJob`) | none of its own | queue incomplete publications again, drop old ones | scheduler data, queue |
| **Scheduler communication** (`SchedulerCommunication`) | subscriptions | collect schedules, order tasks, switch drivers, set a battery target | bus connection |
| **Bus connection** (`de.fzi.osh.wamp/.../Connection`) | connection state, event queue and thread | open, subscribe, register, call, publish | client library, every process |
| **FMS exchange** (`FmsCommunication`, `DataLink4`) | files on an SFTP server | publish, poll for target schedules | scheduler |
| **Control files** (`ControlCommunication`) | files on an SFTP server | poll for commands, publish messages | scheduler |
| **Enabled signal** (`ModbusEnabledListener`) | a register of 16 coils, the signal | coil writes of the grid control unit, `setEnabled`, `publishData` | scheduler |
| **Battery driver** (`Battery`, `BatteryController`, `BatteryObserver`, `BatteryCommunication`) | driver state, REMS request, last measured state | polling cycle, safety intervention, driver states | inverter (Modbus), bus |
| **Battery scheduler** (`BatteryScheduler`) | flexibilities, tasks, scheduled power | offer, order and cancel tasks, power of the moment | battery driver, bus |
| **Meters, simulators** | last value | poll, publish | bus |
| **Optimization, forecasting** | none / history | solve, predict | scheduler |
| **Data storage, logging, upload** | databases | insert, select, upload | bus, SFTP |
| **Watchdog** (`de.fzi.osh.watchdog`) | runs to skip after a restart | check bus, meters, battery, database, scheduler; restart them | operating system |
| **Web page** (`gui/gui.js`, `web/standard/gui.js`, on d3 and autobahn) | series, latest readings, transitions and timers, the session | draw the live and the historical graph, show readings, SOC, capacity | bus (WAMP session), web server |
| **Web server** (`BasicGuiServer`) | a cache of files | make a file of a meter's last day, serve it | time series database, page |
| **Time services** | the clock | fixed rate, cron-like schedules | every process |

What is hard, and what makes each part correct:

* The **queue** is filled by five kinds of threads and emptied by one, which decides
  under a lock but reads the time before it and removes the job after it. Correct
  means: no accepted job is lost, none starts twice, updates are throttled, the worker
  never sleeps on due work.
* A **publication** has several steps that can fail, its failure must survive until it
  is retried, and the process can end between any two steps. Correct means: outcomes
  are on disk before the next attempt, failures are retried until their day is over,
  and what the FMS has decided is not overwritten.
* A **connection** is lost and re-established at any time; the rx thread, the event
  thread, the timers of lost subscriptions and the thread that waits for the first
  connection interleave. Correct means: the component ends up subscribed, handlers run
  alone, the waiting thread gets going.
* The **enabled signal** switches the local control of the building. It is formed from
  coils that are written one by one, and is passed on by calls that fail and are
  repeated late. Correct means: control is switched off only if all coils were set, it
  is on when all were cleared, and the driver ends up in the state of the signal.
* The **battery driver** shares unlocked fields between the polling cycle and the bus
  thread, and its writes can fail halfway. Correct means: what an operating driver wants
  reaches the inverter, whatever the remote system (REMS) wrote before; it follows its
  schedule, except that the safety intervention brings the state of charge back.
* The **battery scheduler** is written by the bus thread, the driver and its own periodic
  run, partly outside of its lock and partly without saving. Correct means: an id that was
  given out stands for its day, also after a restart that reads what was saved; there is
  always a power in force; and the schedule, once repaired, does not drive the battery out of
  its bounds by more than is rounded off.
* The **file exchange** with the FMS acknowledges a schedule by moving its file away, a
  step of its own, after the listener has run and the scheduler has saved its state. Every
  operation on the server can fail, the FMS replaces files at any time, and publications
  use the same session and put schedules into the same map. Correct means: what was marked
  as read survives a restart, as long as saves succeed, and every file that can be read is
  taken in the end.
* **Saving** is the same everywhere (`Json.writeFile`): the file is truncated, then written,
  and no error leaves the method. Correct means: whatever a thread may go on with after a
  save is in the file, or the save has failed; and the next save makes up for it.
* The **live graph** redraws itself when the transitions of the last redraw have ended,
  each of which has timers of its own in the list of d3. Correct means: redraws do not run
  into each other, no timer gets lost, nothing piles up in the document, the graph never
  stands still.
* The **historical graph** waits for several requests, served by concurrent threads with
  a cache, and merges series that lack different minutes. Correct means: what is taken off
  a minute belongs to it, no answer is older than the cache admits, and the graph appears.
* The **panels** show a capacity and a state of charge from answers and publications that
  come in any order, over sessions that break, of drivers that do not always send. Correct
  means: nothing is counted twice, the value shown is the last one that was sent, and the
  page comes back into a session.

`PROJECT.json` lists the hazards one by one, each at its line, with the properties that
cover it.

## 2. The modules

    SortedMaps ---- OptimizationQueue ---- MCOptimizationQueue
          |               |   \----------- OptimizationQueueProofs
          |          (refines) JobService
          \-------- SchedulePublication -- MCSchedulePublication
          |               \--------------- SchedulePublicationProofs
          \-------- BatteryScheduler ----- MCBatteryScheduler
                          \--------------- BatterySchedulerProofs
                    WampConnection ------- MCWampConnection
                          \--------------- WampConnectionProofs
                    EnabledSignal -------- MCEnabledSignal
                          \------------\
                    BatteryDriver -------- MCBatteryDriver
                          \--------------- DriverProofs
                    FmsExchange ---------- MCFmsExchange
                          \--------------- FmsExchangeProofs
    SortedSets ---- LiveChart ------------ MCLiveChart
          |               \------------\
          \-------- HistoricalChart ------ MCHistoricalChart
                          \--------------- ChartProofs
                    WebPanels ------------ MCWebPanels
                          \--------------- WebPanelsProofs

Two modules of proofs are about two specifications each, the driver state with the signal
that sets it, and the two charts of the page. They extend both, so the definitions of
BatteryDriver and HistoricalChart carry the name of what they specify (`DriverSpec`,
`DriverTypeOK`, `HistorySpec`, `HistoryTypeOK`), those of the others the usual ones.

### SortedMaps
`java.util.NavigableMap` as functions: put, remove, floorKey, ceilingKey. External code,
as the scheduler uses it.

### SortedSets
`Ascending`, a finite set of numbers in order: the lines of a file, as the page expects
them, and what a frame of d3 keeps of its list of timers.

### OptimizationQueue (`scheduling/SchedulerOptimizationQueue.java`)
`queue[kind]` are the three maps, `latest[kind]` the `latest...Run` fields, `wpc` and the
`w...` variables the worker with its locals. `ReadTime`, `SelectJob`, `GetJob`,
`RemoveJob`, `FinishJob` are the worker's steps: the decision is one critical section,
`get` and `remove` are outside of it. `CallQueueSchedulePublication` is the caller's
reading of the time before the lock, `QueueInitialPublication` and
`QueueUpdatePublication` the part under it; `QueueTargetScheduleOptimization` is all
under it. `fate` and `runs` record what became of each request and change nothing.

`JobService` says what a client may expect (a job is accepted, started once, alone, and
finished); `UpdatesStartOnce` states that the queue implements it for updates, with the
mapping: waiting = what lies in the map, current = what the worker executes,
started = what it was handed.

### SchedulePublication (`SchedulerController.publishSchedule`, `Scheduler.run`, the retry job)
`data` is `SchedulerData` in memory and `file` what is on disk, with a flag that says
whether it was written completely: `saveState` truncates the file (`Truncate`) and closes
it later (`Close`), holding the scheduler's lock in between, so `FollowOwnSchedule`,
`Record` and `SetTargetSchedule`, which need the lock, wait. Either may fail (`Fail`): a file
that cannot be opened stays as it was, one that cannot be written stays cut, and the thread
goes on as after any save. `silent` is history: whether the latest save of this life has
failed. `Save` is a save of either thread, from its step to the next. The worker's attempt is
`TakeRequest` (the check for an old request included), then `Publish` or
`PublishThrows`, for initial publications `FollowOwnSchedule`, then `Record` (the finally
block) and the save. Forecasting, optimizing and publishing are a choice of outcomes.
The retry job's reads of the shared field are separate steps, and it dies when it meets
null. `Crash` keeps the file only; `RestoreState` and `ScheduleJobs` are the start-up,
the overdue publication included. The queue is that of OptimizationQueue with its
operations taken as single steps.

### WampConnection (`Connection.java`, `SchedulerCommunication.onOpen` and `waitForConnection`)
`rx` is what waits for the one thread of the client library's scheduler; `rxpc` is where
this thread stands in the status callback: `OnOpen` (subscribes), `OnOpenNotifies`,
`OnOpenReturns` (starts the event thread), and `SetState` in the finally block.
`Resubscribe` is the timer of a refused subscription. One topic stands for the scheduler's
subscriptions. `Connect`, `Lose`, `Acknowledge` and `Send` are the client library, the
transport and the router, as the callbacks see them.

### EnabledSignal (`ModbusEnabledListener.java`, `SchedulerController.setEnabled`, `SchedulerCommunication.setEnabled`)
`register` is the register as the set of its 1 bits, `written` records the last value
written to each coil. `WriteCoil` is `EnabledRegisterCoil.set` with its mask as it is in
the code, `SetEnabled` the listener call, `ReadSignal` and `SendSignal` the periodic job,
`Retry` the repetition after an error, `CallSucceeds`, `CallFails` and `RestartDriver`
the other end of the bus. The configuration runs one Modbus thread.

### BatteryDriver (`Battery.java`, `BatteryController.java`, `BatteryScheduler.schedulePower`)
`pc` is where `Battery.run` stands; its steps are cut where another thread can step in
between: polling, the branch on the driver state, the controller, the safety
intervention, the write to the inverter, and `writeToModbus = false` after it; in standby
the two reads of `remsRequest`, the write, and `remsRequest = null`. An exception skips
the rest of a run (`Throws`). `switch` is the thread in `setDriverState`: `ForgetRems`
marks the driver's request for repetition, `PollOnSwitch` replaces `currentState`, with
null when it fails, under the feet of a run. `scheduled` is the power the schedule holds
for now; between entries, by calls and by the battery scheduler it changes through
`SchedulePower`. Power is a level, with the two sign conventions of the code; the SOC is
a number with the two configured bounds. The inverter and the battery are external:
`power` is the inverter's register, `battery` what a poll reads.

### BatteryScheduler (`BatteryScheduler.java`, `Task.compress`, `Flexibility.checkValidity`)
`data` is `BatterySchedulerData`, `file` what is in its file and whether it is whole. A save
is two steps with the lock, `Truncate` and `Close`, each of which may `Fail` unnoticed: the
bus thread makes it at the end of a call (`CallSaves`, `CallSaved`), the periodic run at its
end (`RunSaves`, `RunSaved`). `Restart` reads the file, or begins with new data, counter and
all, when the file is cut. `GetSchedule` is the whole handler: it adds a flexibility and a
task for a day that has none (`AddedForDay`, the only part that is saved) and sets the
corridors of the days it returns (`Polled`, `PolledLater`). `scheduleFlexibility` and `adaptScheduledFlexibility` are two steps each,
since the task is replaced, or copied and tested, before the lock is taken (`BeginSchedule`,
`EndSchedule`, `BeginAdapt`, `EndAdapt`); `call` is what the first step leaves for the
second. `UnscheduleFlexibility`, `SchedulePower` and `SetTargetSoc` hold the lock. The
periodic run is `Sweep`, then `RunTarget` or `FixSchedule`, which take the lock anew.
`Compressed`, `Valid`, `EnergyConstraint`, `Charging` and `Illegal` are the pure algorithms,
as functions of maps from times to powers, with the roundings, the division by zero and the
signs that the code has. The two loops are recursive functions whose bodies have names of
their own, so that they can be reasoned about: `Charging` is `Loop` from a time and a
remaining energy on, `RepairedEnergy` is `storedEnergy` at each time of the schedule.

Energies are rounded where the code rounds them. The battery holds watt seconds (`stored`),
and so count the corridors and the plan of `setTargetSoc`; the measurement is a whole percent
(`Measured`), and `fixSchedule` and `getExpectedStoredEnergy` count watt hours, with the energy
of each entry cut off towards 0 (`Taken`). `Percent` is what a percent stands for: the nominal
capacity is taken to be a multiple of 100 Wh, so that turning a percent into watt hours is
exact. In `setTargetSoc` the change of the charge may overflow an `int` before it is divided by
100 (`Change`, `Wrapped`; with 8300 Wh from a difference of 72 % on, in the run from 2 percents
on), and the battery is then charged where it should discharge, or the other way round. Of the
power corridor only whether any power is offered is kept, since every entry of it is 0 or the
configured maximum. `published` and `followed` are history: the ids given out, less those that
a restart has lost with a save that failed or was cut; and how many entries of the schedule
were followed since the last repair, as long as nothing but time has changed schedule and
battery (0 if something has).

### FmsExchange (`FmsCommunication.java`, `SftpConnection.java`, `SchedulerController.update`, `Scheduler.run`)
`files` are the three files of the server, each with a number that grows with every file
the FMS writes, the time its schedule starts, and a quality: a schedule, one that cannot be
parsed (`null`), one on which `scheduleFromDataLink` throws. `poll` is the polling thread, with
the operations of one kind as steps: `Look` (`getAttributes`, relative to `directory`), `Read`
(what cannot be read is null), `Parse` (which changes to the root directory, and returns with
the session open when there is no schedule), `Tell` and `Save` (the listener), `Mark` (the
rename, whatever file lies there by now). A step that throws leads to `DisconnectFailed`,
after the lock has been given up. `BeginPublish` and `Push` are the other user of the session.

`target` is the scheduler's map, one for all kinds, keyed by the start of a schedule:
`SetTargetSchedule` removes what has ended and puts the new schedule in the place of any other
with its start. The publishing thread puts its own schedules there too (`SetOwn`) and saves
all of it with the outcome of its publication (`SaveOutcome`). Both threads save with `Open`
and `Write`: serialising may throw (the other thread's `getTargetSchedule` changes the map
without the lock), opening and writing may fail unnoticed. `Bind`, `Restore` and `CreateQueue`
are the start-up of the scheduler: only from `Bind` on is there a listener, only after
`CreateQueue` does it return normally, and a file that is cut makes the start fail for good.
`Crash` keeps `saved` only. `kept` and `silent` are history: for each start, the last target
that was told and marked with all that were set since, and whether a save has failed
unnoticed.

### LiveChart (`gui/gui.js` 197-325, d3's timers and transitions)
`timers` is the list of d3's timers and `cursor` the one the frame is at, so that a frame
is a sequence of steps (`Start`, `FirstTick`, `NextTick`, then `Nap`) and a timer can be
added or stopped while the list is walked. `transitions` are the records on the nodes:
those of the axes, of each tick and of each line. `Redraw` is `redraw` as a whole: the data
join of the ticks (which stay, which come, which leave) and a transition on every element;
it is a part of the step that ends the last line's transition, or not (`AllEnded`). A time
is kept as its distance from now (`ago`, `age`), a frame lets all of them grow.

### HistoricalChart (`gui/gui.js` 37-193, `BasicGuiServer.DataTsvServlet`, d3's queue and dsv)
A file is the set of minutes it has a value of, with the minute it was made. `threads` are
the server's threads: `CheckCache`, `Query`, `Store`, the two critical sections with the
query in between; the response leaves before the entry is stored. `Load` is the callback of
a request, which starts the merge when it was the last one; `MergeStep` is one turn of the
loop over `i` and `j`, `Draw` what follows. Two draws share nothing but the cache.

### WebPanels (`gui/gui.js` 327-536, `web/standard/gui.js`, autobahn's connection, `BatteryController.update`)
`transport` and `retry` are autobahn's connection with its timer, its number of retries and
its two ways to give up. `OnOpen` joins: it resets the total and calls every battery.
`GetBatteryState`, `Reject` and `OnResult` are the call of one battery, `OnSoc` takes a
publication; the router keeps the order of each alone. `Poll` is the driver's measurement: a
changed SOC is published only while the driver is on (`SetDriverState`) and has a connection
of its own (`Reconnects`), but `previousStateOfCharge` is set in any case. SOCs are numbered
as they are measured; `total[b]` is how often the capacity of `b` is in the total. `told` and
`newest` are history: whether this session was sent the SOC measured last, and the highest
number that was shown.

## 3. The runs

| Run | What it asks | Result |
|---|---|---|
| `queue` | safety of the queue, that it implements `JobService`, and that due jobs leave their queue | holds, given the daily forced optimization |
| `publication` | outcomes are saved, failed publications are retried and old ones given up, across a crash, with an update and a save that fails | holds, unless the last save has failed unnoticed |
| `connection` | one handler at a time, subscribed in the end, the waiter is released | holds |
| `connection_events` | events are handled on a stable connection | violated: the event thread has ended |
| `enabled` | the signal and the driver | holds |
| `battery` | no request is lost; the schedule is followed; the SOC returns into its bounds | holds |
| `scheduler` | ids stand for their days, a power is in force, the repaired schedule keeps the battery in its bounds | holds, up to what is rounded off and to the last entry of the schedule |
| `fms` | what was read survives; every readable file is taken | holds, as long as saves succeed |
| `fms_unheard` | only what was told is marked as read (`FmsCommunicationListener.java:16`) | violated: a poll before the listener is registered |
| `livechart` | redraws, timers and ticks | holds |
| `history` | the merge, the age of the answers, every draw is drawn | holds, but for the cases it excuses |
| `panels` | capacity, SOC, the session comes back | holds, but for the cases it excuses |

What a property excuses is part of its statement, and is what the code does:
`EveryDrawIsDrawn` a request that failed (it throws in its callback and the queue is never
told) and a consumption that goes on after the production has ended (the merge does not
end and the page hangs); `SocCurrent` an answer and a publication that have overtaken one
another, and a SOC that was not sent to this session; `SessionReturns` that the router has
ended the session or that all retries were used up; `NeverDrivenOut` the power of the last
entry of the schedule, which `fixSchedule` does not test, whatever changes between a repair and
the next, and what is rounded off: less than a percent of the capacity when the battery is
measured, and less than a watt hour for every entry that is followed; `FilesAreTaken` files
behind one on which the conversion throws, and a scheduler that has found its file cut. Saves
are excused where they fail without an exception, until one succeeds (`OutcomeSaved`) or a
restart has read the file (`PublishedTasksLast`) or for good (`ReadIsSaved`), and where a
crash has cut them.

Bounds, and why they are enough:

* `queue`: two updates and one initial publication. Two updates can collide under one
  key, be throttled by one another and be taken while the other is queued. The clock
  runs over four seconds with intervals of two, so slots move into the future and
  become due again.
* `publication`: days of two ticks, from the beginning of one day into the next, so that the
  cron job, the end of a day and an overdue publication all happen. The success in the file is
  so old that the overdue publication is for the rest of the first day and is taken when its
  day is over, so that `publishSchedule` skips it and puts it back. Three of these four at
  every step: a crash (what a second one meets is the same file), a deviation (its update
  meets initial publications in the queue and in the record), an answer of the FMS, a save
  that fails. A crash during a save, or a failed write before it, leaves the file cut short,
  and the next start fails for good (`phase = "failed"`).
* `connection`: two losses, so a session can end before, while and after the next one
  subscribes; two publications.
* `enabled`: two coils already tell a mask from the right one and partial patterns from
  signals; six writes, two failing calls (an old value overtakes a new one), a restart.
* `battery`: five levels of charge, below, at, between, at and above the bounds. One
  failure at any step (of a poll, of a write before or after it took effect, of the
  inverter, or a restart) and one request of the bus besides the switching on at the
  start and after a standby: a REMS request that is being written while the driver is
  switched on needs no more. With two requests the same properties hold (1.4 million
  states); the safety property is proved without the bounds.
* `scheduler`: three events of any kind (a request, an order, an adaptation, a power, a
  target, a drift of the battery, a restart), one of which may be a save that fails, over one
  and a half days of two steps each, with the periodic run between any two. To give an id out,
  order a day and adapt or withdraw it are three, and so are to give an id out, lose its save
  and restart. An hour has two seconds, so that the energy of an entry that lasts one is cut
  off to 0: one step with the full power leads to a bound, the second one out. Longer runs
  (four events) are out of reach of the time a check may take.
* `fms`: two files of any kind and start, so that one is replaced while the poll holds it, or
  lies behind another one, or puts its schedule over a newer one; two starts, the first of
  which may end. Any two of a failure (of the connection, an operation or a save), a crash, a
  publication and the end of a day (in `MaxTogether` the first day counts as well), at every
  step. The proofs need no bound.
* `livechart`: two meters and the total, three possible ticks, transitions of three frames:
  of the ticks any set stays, comes or leaves, and a redraw finds those that have left still
  fading unless the order of the timers prevents it. The number of redraws is not bounded.
* `history`: one consumption and one production meter over three minutes of which any two
  values may be missing, so that each series can begin, end or be interrupted before the
  other; two draws, whose requests overlap at every step. Instead of two missing values there
  may be one failure, or one minute that passes while a request is served, so that an entry
  is stored later than it was made.
* `panels`: one battery, since nothing that happens to one concerns another; its SOC changes
  five times between two levels, while the driver is switched and reconnects at will. Three
  losses (a session that ends before its answers, the next one, and the router) and two
  retries, so that giving up is reached.

Deadlock checking is off where bounded clocks and counters stop the model when they are
used up; `livechart` and `fms`, which poll and redraw for ever, are checked for deadlock.

Fairness. The JVM's threads run when they can: the worker, the timers' threads, the rx
and the event thread. A call or a poll that was begun returns or throws. The client
library reconnects for ever, which is how it is configured (`withInfiniteReconnects`).
Time passes. The inverter follows its register, and out of its bounds the SOC changes
when the battery is charged or discharged; within them it may stay for ever. Nothing is
assumed of what depends on others: losses, failures, also of saves, crashes,
writes of the grid control unit, deviations, files and answers of the FMS. `DailySpec` adds
that the daily job calls `queueTargetScheduleOptimization(true)` again and again: without
it the worker may sleep for ever on a job that became due (section 5). In the page, frames
and timers come and callbacks are called while the page is shown, the server serves what
was requested, and a router that runs accepts sessions; no answer of a battery is assumed.
The polling thread of the FMS is scheduled again and again, and goes on while it has the
lock; the scheduler's start-up goes on.

Liveness in bounded models: a clock that stops at `MaxTime` cannot make a property true
that fails with time going on, since nothing in a property waits for the clock to reach
a value; where a counter is exhausted (losses, errors) the antecedent "from some time on"
is what the property is about.

## 4. The proofs

`OptimizationQueueProofs` proves, for every set of requests, all intervals and an
unbounded clock, that the invariants of `queue` hold: `TypeCorrect`, `WorkerSleeps`,
`UpdatesThrottled`, `UpdatesKept`. None is inductive alone. The invariant `IInv` adds

* `WorkerInv`: what the worker has picked is still in its queue until it removes it, and
  an update it has read is still the one under that key. Callers cannot replace it:
  an update is put at or after `floor + MinUpdate`, and `floor` is at least the key of
  every waiting job that is due.
* `SlotInv`: local times do not lie ahead of the clock; the time of the last run bounds
  all keys taken so far, hence new keys lie after them by the interval.
* `JobInv`: a request is at one place only, so removing one key removes one request.

The assumptions (`QueueAssumption`) are those of the configuration: the update interval
is positive, since 0 switches throttling off, and the intervals are shorter than the time
since the epoch.

It also proves, step by step, that the queue implements `JobService` for updates
(`QueueImplementsService`, the property `UpdatesStartOnce`). Initial states map to initial
states; accepting under the lock is `Accept`, `RemoveJob` is `Start` and `FinishJob` is
`Finish`; every other step, those on the other two maps included, leaves the mapped
variables alone. `RemoveJob` is where the invariant is needed: what it removes under the key
it has read outside of the lock is still the job it holds.

`SchedulePublicationProofs` proves for every length of the day, interval and number of
crashes, deviations, failing saves and answers the types (`PublicationTyped`), that the file
holds the outcome of an attempt before the next one begins, unless its save has failed
(`OutcomeIsSaved`), and that over any number of crashes the time of the latest success in the
file, or in the save that has cut it, never goes back (`SavedSuccessesOnlyAdvance`).
`OutcomeSaved` is not inductive, since the poll of the FMS and the retry job write the same
file and the same record. The invariant adds that only one thread writes the file at a time,
and that nobody else takes it for complete meanwhile (`SaveLock`), and that it holds the
outcomes of everything but the attempt the worker has just recorded
(`SavedUnlessRecorded`); after a failed save none of this is claimed, until the next one that
succeeds establishes it again, since a save always writes all of the data.
`PublicationAssumption` includes that the clock begins within its bound, and `NullAssumption`
says that null is not a request.

`WampConnectionProofs` proves for any number of losses and publications the types
(`ConnectionTyped`), that no two event threads run handlers at the same time
(`HandlersRunAlone`), and `NoSessionForgotten`: while the connection is up, the subscription
is held, asked for, waits to be repeated, or the status callback that asks for it is still on
its way. The last one is the safety half of `Subscribed`. The invariant is that there is
never a second event thread (`AtMostOneThread`): every return of `onOpen` would start one,
but it starts one only when none was ever started, and the one thread of the client library
runs it for every connection. That an event thread which has ended is not replaced is what
`connection_events` shows.

`DriverProofs` proves for every number of coils, without the bounds on writes,
errors and restarts, the types (`SignalTyped`), that clearing all coils enables
(`ClearingEnables`) and that a write disables only when all coils are set
(`DisablingNeedsAllSet`). The invariant: a bit is 1 only if its coil was written as set last
(the wrong mask only clears), and the flag agrees with the two values that are signals.

For the driver it proves for all bounds the types
(`DriverTypeCorrect`) and that no request gets lost between its threads
(`RequestsKept`): while the driver is on, its power is in the inverter or marked to be
written. The invariant `Kept` adds that the mark is set while a REMS request that was
begun in standby is still under way, and that the mark is only cleared after a write that
succeeded. The assumption (`BatteryAssumption`) orders the bounds of the SOC.

`BatterySchedulerProofs` proves for any configuration and any number of calls, drifts,
restarts and failing saves that an id which was given out stands for its day (`IdsLast`).
`PublishedTasksLast` speaks of the memory; a restart replaces it by the file, from which
adaptations, powers and sweeps are missing. The invariant adds (`FileInv`) that a whole file
keeps the same promise and is no newer than the memory, so that no counter is ahead; that
what was written last, whole or not, knows every task of the memory and has the same counter,
as long as no save has failed, or while one is under way; and that no two tasks of either begin
on the same day (a task is added only when none contains the time, and a day begins at or
before every time in it). All other steps change powers, targets and corridors only
(`SameTasks`); a sweep removes tasks whose day is over.

It proves as well that there is always a power in force, with the types (`PowerInForce`),
and that a repaired schedule drives the battery out of its bounds by no more than is rounded
off (`RepairedStaysWithin`, for any schedule, bounds, measurement and capacity). Both are
about loops, the one of `setTargetSoc` and the one of `fixSchedule`. The module begins with the induction they
need: a non-empty set of natural numbers has a least element (`Least`, from the library's
theorem on well-founded relations), hence a definition whose value at a point depends only on
points of lower rank has a solution (`Fixpoint`), and a recursive function obeys its equation.
`Charging` is one, with the time that is left as its rank, because a turn of the loop takes
at least a second; `RepairedEnergy` is another, by time.

* `TypeInv` is the invariant of the types. The entry at 0 is never removed: a sweep spares it,
  days begin later and a call removes nothing before now or before its day. Every power that
  is put is bounded by `MaxPower`, or by `Step` where the rounding of `setTargetSoc` exceeds
  it (`AveragePowerBounds`). The call between its two steps (`CallInv`) holds powers of a day,
  and the task of an order is still there at its second step, as a call takes less than a day
  and a task is kept for one. An adaptation has no such guarantee: when its task is swept
  meanwhile, it changes the schedule alone.
* `LegalInv` says that while the schedule is `followed`, some course of energies in watt hours
  follows the schedule from a time up to now on, at no time begins a power that leads out of
  the bounds (`Within`), and lies near what the battery holds (`Near`): above the measurement
  by less than a percent, and off by less than a watt hour, in either direction, for each
  entry that was followed, which is what cutting each energy off adds up to (`RoundedOff`).
  `fixSchedule` establishes it: the energies it computes with illegal powers left out are
  those of the schedule in which they are 0 (`FixMakesLegal`). A tick keeps it, whether it
  passes an entry or not (`TickKeepsLegal`); every other step leaves schedule and battery
  alone or clears `followed`.

That one pass of the repair is enough is `RepairedAtOnce`: of the schedule it leaves, it would
remove nothing at the same time and with the same measurement. The course of energies that
`Within` promises is the only one that begins with this measurement, so it is the one
`fixSchedule` computes (`LegalIsLeftAlone`). Later it need not be so: the time from now to the
next entry is cut off anew, and so is the measurement. `CompressedKeepsPowers` says what
`Task.compress` does to the powers of a task: it keeps all of them but the first entry after
the one at 0, which is lost exactly if it is a 0 that ends another power, since the
comparison begins with 0 and not with the entry at 0.

The assumptions (`BatterySchedulerAssumption`) are those of the configuration: the bounds of
the energy are in order, `MaxPower` is a multiple of the step of 100 W, and a day, which is
where the model's clock begins, lies within its bound.

`FmsExchangeProofs` proves for any number of starts, files, failures, crashes and
publications the types with the locks of the session and of the data (`ExchangeTypeCorrect`)
and that what was told and marked as read survives a restart (`ReadSurvivesRestarts`), unless
a save has failed without an exception or a crash has cut the file. `ReadIsSaved` is not
inductive: the step that marks a file knows nothing of the file on the disk. The invariant
adds that what the poll holds from `Tell` on is the target of its start in memory, unless the
scheduler has put its own schedule there (`HeldIsTarget`); that from the end of the save on it
is in the file, or what has replaced it (`MarkedWasSaved`), although the publishing thread
saves the same data; and that a scheduler with its data has in memory what was marked
(`MemoryIsKept`), since the next save of any thread writes the memory over the file. That the
publishing thread belongs to a scheduler with its data is `PublisherHasData`.

`WebPanelsProofs` proves for any set of batteries, numbers of sessions and changes, and
whatever the drivers do, the types (`PanelTypeCorrect`, with: nothing of a session outlives
it, and the attempts to connect stay within their limit), `CapacityCounted` and `SocShown`. The
invariant (`Sound`, for each battery) adds that whatever is under way or shown was measured,
with no number ahead of the SOC (`NotAhead`), and that a SOC this session was told of is the
last publication under way, or in the answer under way, or has been shown (`Arrives`): this is
what makes the answer, which is not compared with anything, right in all cases in which nothing
has overtaken it.

`ChartProofs` proves what the runs check of the two charts except liveness. Both are
loops that other parts of the program interrupt, and both use numbers in order: that
`Ascending` lists every element of a finite set once, each smaller than the next
(`AscendingEnumerates`), is proved first.

Of the live chart it proves for all lines, ticks and durations the types with the cursor of
a frame (`LiveChartTyped`), that no node has two transitions and a redraw counts the lines
that still run (`OneTransitionEach`), and that the ticks that left an axis are gone when the
next redraw starts its time (`TicksLeaveInTime`). `OneTransition` is not inductive: that no
transition is left when the last line ends depends on the order of the list of timers. The
invariant `IInv` says

* of transitions: all are of the latest redraw, one of each node, and one that removes its
  tick is of a tick that is not wanted (`TransitionsSound`); every tick in the document is
  wanted or will be removed (`DocumentSound`);
* of timers: a call that waits is one its transition expects in its state (`TimersServe`), no
  call waits twice (`OneOfEach`), every transition has a call that waits (`Served`);
* of their order: nothing waits behind the lines but lines (`LinesLast`). So the tick that ends
  the last line is the last of all, and `redraw` finds no transition. A timer stays where it
  is, a new one joins at the end, and `Nap` keeps the order of those it keeps, so each phase
  hands its order to the next one;
* of the frame: which calls lie before and behind its cursor (`AtCursor`). All transitions
  reach the end of their duration in the same frame, because the time only grows between
  frames.

From it follows the safety half of `RedrawsForever`: the loop can always go on
(`LoopIsNeverBroken`). `Alive` adds that a line is always left whose end will redraw, that
outside of a frame one is asked for, and that timers which have stopped are behind the frame;
so the timer the frame is at finds its transition in the state it needs. That frames do come
is the fairness of the run.

Of the historical chart it proves for any number of production meters, draws, minutes and
failures and any duration of a query the types, with the positions of the loop (`HistoryTyped`),
that the merge takes off each minute what belongs to it (`MergeTakesWhatBelongs`) and that
answers are not too old (`AnswersNotTooOld`). For the latter `ServerFresh` bounds the age of what
a thread holds by the time it has been running, and that of an entry by its timestamp, the time
at which it was stored. For the merge `Position` is the invariant of the loop over `i` and `j`:
what was taken is what belongs to the minutes before `i` (`Due`), and the value before `j` is of
an earlier minute than the one at `i`. `Completed` and `Untouched` say the same of the meters
before and after the one under way. This does not need the loop to end, and in one case it does
not (section 5).

The assumptions are those of the models: there is a line, lines, ticks and the axis are
different things, a duration is positive (`LiveChartAssumption`); the consumption is no
production meter and there is a minute to show (`HistoricalChartAssumption`).

Only model-checked: every liveness property (`DueJobsAreTaken`, `IncompleteIsRetried`,
`StaleIsGivenUp`, `Subscribed`, `LaterConnectionReleases`, `DriverFollowsSignal`,
`FollowsSchedule`, `ReturnsIntoBounds`, `RedrawsForever`, `EveryDrawIsDrawn`,
`SessionReturns`, `FilesAreTaken`), since fairness and ENABLED are out of the prover's reach.
Every invariant and every action property of the passing runs is stated by a theorem.
What `Valid` computes is used by the proofs only as far as types go; that the plans of
`setTargetSoc` reach their target in time is not proved.

## 5. Disagreements between the code and its documentation

Two are shown by runs (`connection_events`, `fms_unheard`). `PROJECT.json` quotes the lines
of these and of further ones, which the models contain and their properties excuse, or
which were met while reading. The weightier ones:

* A forced optimization moved to a later second does not wake the worker
  (`SchedulerOptimizationQueue.java:72`): it waits without a timeout until some other call
  comes; `DueJobsAreTaken` needs the daily one.
* One field remembers a failed initial publication, for two days
  (`SchedulerController.java:654`), and a repeated attempt replaces the target of the FMS
  (632).
* The battery scheduler: withdrawing a day lets the power before it go on
  (`BatteryScheduler.java:529`), compressing a task loses its second entry when that is 0
  (`Task.java:59`), the expected energy has the wrong sign and ignores its time (181), the
  power for a target is no multiple of 100 W and may divide by zero (762), and a task that
  has had any power can no longer be adapted (241).
* A save that fails is not noticed, and one that is cut off loses what was saved before
  (`Json.java:99`), against what `FmsCommunicationListener.java:14` demands.
* A SOC that changes while the driver is in standby or without a connection is never published
  (`BatteryCommunication.java:235`, `BatteryController.java:48`).
* Clearing a coil clears all lower ones in the register (`ModbusEnabledListener.java:192`).
* The merge of the historical graph does not end when the consumption goes on after the
  production (`gui/gui.js:133`); a failed request is thrown and the queue never told (75).
* Polls handle one kind of file each (`FmsCommunication.java:324`), so an old update may
  follow a newer target and replace it, as the map of targets knows no kinds
  (`Scheduler.java:154`); a poll that throws disconnects outside of the lock (403).
* The page shows an energy in kW in one place and in kWh in the other (`gui/gui.js:499`,
  530), never shows that renewables are stored (454), and the standard page's data set
  grows with every reading (`web/standard/gui.js:203`).

## 6. Plan

1. *Done*: the queue, publication and persistence, the connection, the enabled signal,
   the battery driver and its scheduler, the exchange with the FMS, the web page with its
   server; proofs of every safety property that a run checks of these, and of the
   refinement of JobService.
2. *Next models*: collecting schedules with its latches, on top of the battery scheduler;
   tasks and the schedule that disagree after an adaptation meets a repair; the target of
   the battery and adapting flexibilities; the cron computation; the watchdog; the control
   files; the start-up race of the enabled signal.
3. *Next proofs*: how long a plan of `setTargetSoc` takes, and that it ends at the target.

## 7. Not modelled

Of the parts that are modelled: the readings of the meters on the page, which are compared and
added up without any state but the last ones (`gui/gui.js` 350-475); the removal of ended
targets by `getTargetSchedule` in FmsExchange (SchedulePublication has it); a change to the
root directory that fails while the session stays open; a file of the battery scheduler that
cannot be read at its start although it is whole.

Forecasting and optimization are numerical heuristics over arrays, and appear as a choice of
results. Data storage and logging are SQL, generated from annotations. The upload is a daily
job without retries. Meters and simulators poll and publish. The time series are sequential
arithmetic, which unit tests reach.

Of the bundled JavaScript libraries, which are most of the lines of the page, only what the
page executes and what its behaviour depends on is modelled: d3's timer list, transitions,
the data join of an axis, the queue and the parsing of files, and autobahn's connection. The
rest of d3 (shapes, layouts, geographic projections, hierarchies, forces, colour spaces,
number and date formats) is third-party code that the page does not call or that only decides
where something is drawn; the rest of autobahn (serializers, polyfills, promises) is
minified, and below the level of sessions, calls and publications at which the page depends on
it. The graph of the standard page is drawn by vis.js.
