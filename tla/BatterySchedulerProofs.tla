------------------------ MODULE BatterySchedulerProofs ------------------------
(***************************************************************************)
(* Proofs about BatteryScheduler, for any configuration and any number of  *)
(* calls, drifts, restarts and failing saves: an id that was given out     *)
(* stands for its day, unless a restart has missed a save; there is always *)
(* a power in force, and all data keep their type; and a schedule that was *)
(* repaired drives the battery out of its bounds by no more than is        *)
(* rounded off.  What setTargetSoc plans and what fixSchedule expects of   *)
(* the battery are recursive functions: their equations come from one      *)
(* lemma, Fixpoint, which is proved first.                                 *)
(***************************************************************************)
EXTENDS BatteryScheduler, TLAPS, WellFoundedInduction

(* Induction and recursion on sets. *)

LEMMA Least ==
    ASSUME NEW T \in SUBSET Nat, T # {} PROVE \E x \in T : \A y \in T : x <= y
<1>1. PICK x \in T : \A y \in T : ~ (<<y, x>> \in OpToRel(<, Nat))
      BY NatLessThanWellFounded, WFMin
<1>2. \A y \in T : ~ (y < x)
      BY <1>1 DEF OpToRel
<1>3. ASSUME NEW y \in T PROVE x <= y
  <2>1. x \in Nat /\ y \in Nat OBVIOUS
  <2> QED BY <2>1, <1>2
<1> QED BY <1>3

LEMMA Greatest ==
    ASSUME NEW T, NEW n \in Nat, T \in SUBSET (0..n), T # {} PROVE \E x \in T : \A y \in T : y <= x
<1> DEFINE U == {n - x : x \in T}
<1>1. U \in SUBSET Nat
  <2>1. \A x \in T : n - x \in Nat  OBVIOUS
  <2> QED  BY <2>1
<1>0. U # {}  OBVIOUS
<1>2. PICK u \in U : \A v \in U : u <= v  BY <1>0, <1>1, Least
<1>3. PICK x \in T : u = n - x  OBVIOUS
<1>4. ASSUME NEW y \in T PROVE y <= x
  <2>1. n - x <= n - y  BY <1>2, <1>3
  <2>2. x \in Int /\ y \in Int  OBVIOUS
  <2> QED  BY <2>1, <2>2
<1> QED  BY <1>4

\* A function on S is the fixpoint of D when it obeys the recursive definition that D stands
\* for.  In a recursion the value at a point depends on those at points of lower rank alone.
Recursion(S, V, rank, D) ==
    /\ V # {} /\ rank \in [S -> Nat] /\ D \in [[S -> V] -> [S -> V]]
    /\ \A g, h \in [S -> V], x \in S :
           (\A y \in S : rank[y] < rank[x] => g[y] = h[y]) => D[g][x] = D[h][x]
Solvable(S, V, D) == \E f \in [S -> V] : D[f] = f

\* Every recursion is solvable: up to each rank there is a function that is right, all that
\* are right agree there, and the solution takes at every point what they agree on.
LEMMA Fixpoint ==
    ASSUME NEW S, NEW V, NEW rank, NEW D, Recursion(S, V, rank, D)
    PROVE  Solvable(S, V, D)
<1> USE DEF Recursion, Solvable
<1> DEFINE Right(g, n) == g \in [S -> V] /\ \A x \in S : rank[x] < n => D[g][x] = g[x]
<1>1. \A n \in Nat : \E g : Right(g, n)
  <2> DEFINE T == {n \in Nat : ~ \E g : Right(g, n)}
  <2> SUFFICES ASSUME T # {} PROVE FALSE  OBVIOUS
  <2>1. PICK n \in T : \A m \in T : n <= m  BY Least
  <2>2. n # 0
    <3>0. PICK v \in V : TRUE  OBVIOUS
    <3>1. [x \in S |-> v] \in [S -> V]  OBVIOUS
    <3>2. \A x \in S : ~ (rank[x] < 0) OBVIOUS
    <3>3. Right([x \in S |-> v], 0)  BY <3>1, <3>2
    <3> QED BY <3>3
  <2>3. PICK g : Right(g, n - 1)
     <3>1. n - 1 \in Nat /\ n - 1 < n BY <2>2
     <3>2. n - 1 \notin T BY <2>1, <3>1
     <3> QED BY <3>1, <3>2
  <2>4. D[g] \in [S -> V] BY <2>3
  <2>5. ASSUME NEW x \in S, rank[x] < n PROVE D[D[g]][x] = D[g][x]
    <3>1. ASSUME NEW y \in S, rank[y] < rank[x] PROVE D[g][y] = g[y]
       <4>1. rank[y] < n - 1 BY <3>1, <2>5, <2>1
       <4> QED BY <4>1, <2>3
    <3> QED BY <2>4, <2>3, <3>1
  <2>6. Right(D[g], n) BY <2>4, <2>5
  <2> QED BY <2>6
<1>2. ASSUME NEW n \in Nat, NEW g, NEW h, Right(g, n), Right(h, n)
      PROVE  \A x \in S : rank[x] < n => g[x] = h[x]
  <2> DEFINE T == {rank[x] : x \in {z \in S : rank[z] < n /\ g[z] # h[z]}}
  <2> SUFFICES ASSUME T # {} PROVE FALSE  OBVIOUS
  <2>1. T \in SUBSET Nat OBVIOUS
  <2>2. PICK r \in T : \A m \in T : r <= m  BY <2>1, Least
  <2>3. PICK x \in S : rank[x] = r /\ rank[x] < n /\ g[x] # h[x] OBVIOUS
  <2>4. ASSUME NEW y \in S, rank[y] < rank[x] PROVE g[y] = h[y]
     <3> SUFFICES ASSUME g[y] # h[y] PROVE FALSE OBVIOUS
     <3>0. rank[y] \in Nat /\ rank[x] \in Nat OBVIOUS
     <3>1. rank[y] < n BY <2>3, <2>4, <3>0
     <3>2. rank[y] \in T BY <3>1
     <3>3. r <= rank[y] BY <3>2, <2>2
     <3> QED BY <3>0, <3>3, <2>3, <2>4
  <2>5. D[g][x] = D[h][x] BY <2>4, <1>2
  <2> QED BY <2>5, <2>3, <1>2
<1> DEFINE Best(x) == CHOOSE g : Right(g, rank[x] + 1)
           F == [x \in S |-> Best(x)[x]]
<1>3. \A x \in S : Right(Best(x), rank[x] + 1)
  <2> SUFFICES ASSUME NEW x \in S PROVE Right(Best(x), rank[x] + 1) OBVIOUS
  <2>1. rank[x] + 1 \in Nat OBVIOUS
  <2>2. \E g : Right(g, rank[x] + 1) BY <2>1, <1>1
  <2> HIDE DEF Right
  <2> QED BY <2>2
<1> HIDE DEF Best
<1>4. F \in [S -> V] BY <1>3
<1>5. ASSUME NEW x \in S PROVE D[F][x] = F[x]
  <2>1. ASSUME NEW y \in S, rank[y] < rank[x] PROVE F[y] = Best(x)[y]
     <3>1. Right(Best(y), rank[y] + 1) BY <1>3
     <3>2. Right(Best(x), rank[y] + 1)
        <4>1. \A z \in S : rank[z] < rank[y] + 1 => rank[z] < rank[x] + 1 BY <2>1
        <4> QED BY <4>1, <1>3
     <3>3. rank[y] < rank[y] + 1 /\ rank[y] + 1 \in Nat OBVIOUS
     <3> HIDE DEF Right
     <3>4. Best(y)[y] = Best(x)[y] BY <3>1, <3>2, <3>3, <1>2
     <3> QED BY <3>4
  <2>2. Best(x) \in [S -> V] BY <1>3
  <2>3. D[F][x] = D[Best(x)][x] BY <2>1, <2>2, <1>4
  <2>4. D[Best(x)][x] = Best(x)[x] BY <1>3
  <2> QED BY <2>3, <2>4
<1> QED BY <1>4, <1>5

---------------------------------------------------------------------------
(* Ids: one task for the day of each id that was given out. *)

\* What the proof needs to know of the data: the tasks have ids that were drawn from the
\* counter, and begin at different times.
DataType(d) ==
    /\ {"idCounter", "tasks", "scheduledPower", "flexibilities", "targetSOC", "targetSocTime"} = DOMAIN d
    /\ d.idCounter \in Nat
    /\ \A id \in DOMAIN d.tasks :
           /\ {"startingTime", "power"} = DOMAIN d.tasks[id]
           /\ id \in Nat /\ id < d.idCounter
           /\ d.tasks[id].startingTime \in Int
OneTaskADay(d) ==
    \A i, j \in DOMAIN d.tasks : d.tasks[i].startingTime = d.tasks[j].startingTime => i = j

\* The tasks that were given out and are not over.
Kept(d) ==
    \A p \in published : p.start + DayLength >= now =>
        p.id \in DOMAIN d.tasks /\ d.tasks[p.id].startingTime = p.start

\* One has drawn its ids after the other, and knows no older tasks but those of the other.
Descends(d, e) ==
    /\ d.idCounter <= e.idCounter
    /\ \A id \in DOMAIN e.tasks :
           id < d.idCounter =>
               id \in DOMAIN d.tasks /\ d.tasks[id].startingTime = e.tasks[id].startingTime

\* The file knows every task that the memory knows, and the memory draws no id twice.
InFile(d, f) ==
    /\ d.idCounter = f.idCounter
    /\ \A id \in DOMAIN d.tasks :
           id \in DOMAIN f.tasks /\ f.tasks[id].startingTime = d.tasks[id].startingTime

\* A file that is whole is not ahead of the memory; and unless a save has failed, it lacks
\* nothing, as long as it is whole and while it is written.
FileInv ==
    /\ DOMAIN file = {"whole", "data"}
    /\ DataType(file.data) /\ OneTaskADay(file.data)
    /\ file.whole => Descends(file.data, data)
    /\ ~silent \/ ~Unlocked => InFile(data, file.data)

PublishedType == \A p \in published : p.start \in Int

IInv ==
    /\ now \in Nat
    /\ DataType(data) /\ OneTaskADay(data) /\ Kept(data)
    /\ FileInv
    /\ PublishedType

---------------------------------------------------------------------------
(* Saving. *)

LEMMA DescendsTwice ==
    ASSUME NEW d, NEW e, NEW f, DataType(d), DataType(e), DataType(f), Descends(d, e), Descends(e, f)
    PROVE  Descends(d, f)
<1>1. d.idCounter <= f.idCounter  BY DEF Descends, DataType
<1>2. ASSUME NEW id \in DOMAIN f.tasks, id < d.idCounter
      PROVE  id \in DOMAIN d.tasks /\ d.tasks[id].startingTime = f.tasks[id].startingTime
  <2>1. id \in Nat /\ id < e.idCounter  BY <1>2 DEF Descends, DataType
  <2>2. id \in DOMAIN e.tasks /\ e.tasks[id].startingTime = f.tasks[id].startingTime  BY <2>1 DEF Descends
  <2> QED  BY <1>2, <2>2 DEF Descends
<1> QED  BY <1>1, <1>2 DEF Descends

LEMMA InFileDescends ==
    ASSUME NEW d, NEW f, DataType(d), InFile(d, f) PROVE Descends(f, d)
BY DEF InFile, Descends, DataType

\* The two ways of a step with the file: it is left alone, by a thread that holds no lock, or
\* it is saved.
Left == UNCHANGED disk /\ (Unlocked => Unlocked')
Saves(d) ==
    /\ Unlocked
    /\ \/ CallSaves(d) /\ run' = run
       \/ RunSaves(d) /\ call' = call

LEMMA SavesWhat ==
    ASSUME NEW d, Saves(d)
    PROVE  \/ file' = [whole |-> FALSE, data |-> d]
           \/ file' = file /\ silent' = TRUE /\ Unlocked'
BY BatterySchedulerAssumption DEF Saves, CallSaves, RunSaves, Truncate, Fail, Unlocked, Saving

LEMMA LeftFile ==
    ASSUME IInv, Left, DataType(data'), Descends(data, data'), InFile(data', data) PROVE FileInv'
<1>1. file' = file /\ silent' = silent /\ (Unlocked => Unlocked')  BY DEF Left, disk
<1>2. file.whole => Descends(file.data, data')  BY DescendsTwice DEF IInv, FileInv
<1>3. InFile(data, file.data) => InFile(data', file.data)  BY DEF InFile
<1> QED  BY <1>1, <1>2, <1>3 DEF IInv, FileInv

LEMMA SavedFile ==
    ASSUME IInv, DataType(data'), Descends(data, data'),
           NEW d, Saves(d), DataType(d), OneTaskADay(d), InFile(data', d)
    PROVE  FileInv'
<1>1. CASE file' = [whole |-> FALSE, data |-> d]  BY <1>1 DEF FileInv
<1>2. CASE file' = file /\ silent' = TRUE /\ Unlocked'
  <2>1. file.whole => Descends(file.data, data')  BY DescendsTwice DEF IInv, FileInv
  <2> QED  BY <1>2, <2>1 DEF IInv, FileInv
<1> QED  BY <1>1, <1>2, SavesWhat

\* A save that ends: what it has written lacks nothing.
LEMMA EndedFile ==
    ASSUME IInv, ~ Unlocked, Close \/ Fail, data' = data PROVE FileInv'
<1>1. InFile(data, file.data) /\ Descends(file.data, data)  BY InFileDescends DEF IInv, FileInv
<1>2. file'.data = file.data /\ DOMAIN file' = {"whole", "data"}
      BY DEF IInv, FileInv, Close, Fail
<1> QED  BY <1>1, <1>2 DEF IInv, FileInv

LEMMA SavedKeeps == ASSUME IInv, CallSaved \/ RunSaved PROVE IInv'
<1>1. ~ Unlocked /\ (Close \/ Fail) /\ UNCHANGED <<data, now, published>>
      BY DEF CallSaved, RunSaved, Unlocked
<1>2. FileInv'  BY <1>1, EndedFile
<1> QED  BY <1>1, <1>2 DEF IInv, Kept, PublishedType

---------------------------------------------------------------------------
(* Steps that change powers, targets and flexibilities alone. *)

SameTasks(d, e) ==
    /\ DOMAIN e = DOMAIN d
    /\ e.idCounter = d.idCounter
    /\ DOMAIN e.tasks = DOMAIN d.tasks
    /\ \A id \in DOMAIN d.tasks :
           /\ DOMAIN e.tasks[id] = DOMAIN d.tasks[id]
           /\ e.tasks[id].startingTime = d.tasks[id].startingTime

LEMMA SameTasksKeep ==
    ASSUME IInv, SameTasks(data, data'), Left \/ Saves(data'), UNCHANGED <<now, published>>
    PROVE  IInv'
<1>1. now' \in Nat /\ PublishedType'  BY DEF IInv, PublishedType
<1>2. DataType(data') /\ OneTaskADay(data')
      BY DEF IInv, SameTasks, DataType, OneTaskADay
<1>3. Kept(data)'  BY DEF IInv, SameTasks, Kept
<1>4. Descends(data, data') /\ InFile(data', data) /\ InFile(data', data')
      BY DEF IInv, SameTasks, Descends, InFile, DataType
<1>5. FileInv'  BY <1>2, <1>4, LeftFile, SavedFile
<1> QED  BY <1>1, <1>2, <1>3, <1>5 DEF IInv

LEMMA InitIInv == Init => IInv
<1> SUFFICES ASSUME Init PROVE IInv  OBVIOUS
<1>1. DataType(NewData) /\ OneTaskADay(NewData) /\ InFile(NewData, NewData) /\ Descends(NewData, NewData)
      BY DEF NewData, EmptyMap, DataType, OneTaskADay, InFile, Descends
<1> QED  BY <1>1, BatterySchedulerAssumption DEF Init, IInv, FileInv, Kept, PublishedType

\* A call that is begun or ended without a save.
LEMMA CallLeaves ==
    ASSUME UNCHANGED <<disk, run>>, call' = call \/ call' = None \/ (call'.op # "save")
    PROVE  Left
BY BatterySchedulerAssumption DEF Left, Unlocked, Saving

LEMMA EndScheduleKeeps == ASSUME IInv, EndSchedule PROVE IInv'
<1>1. SameTasks(data, data')
      BY DEF EndSchedule, Changed, SameTasks, IInv, DataType
<1>2. Saves(data')  BY DEF EndSchedule, Saves
<1> QED  BY <1>1, <1>2, SameTasksKeep DEF EndSchedule

LEMMA EndAdaptKeeps == ASSUME IInv, EndAdapt PROVE IInv'
<1>1. SameTasks(data, data')
      BY DEF EndAdapt, Changed, SameTasks, IInv, DataType
<1>2. Left  BY CallLeaves DEF EndAdapt
<1> QED  BY <1>1, <1>2, SameTasksKeep DEF EndAdapt

LEMMA OrdersKeep == ASSUME IInv, Orders PROVE IInv'
<1>1. PICK id \in DOMAIN data.tasks :
          \/ \E power \in DayPowers : BeginSchedule(id, power)
          \/ \E last \in 1..DayLength : \E first \in 0..(last - 1) :
                 \E powers \in PartPowers(first, last) : BeginAdapt(id, powers)
          \/ UnscheduleFlexibility(id)
      BY DEF Orders
<1>2. ASSUME NEW power, BeginSchedule(id, power) PROVE IInv'
  <2>1. SameTasks(data, data')
        BY <1>2 DEF BeginSchedule, Changed, SameTasks, IInv, DataType
  <2>2. Left  BY <1>2, CallLeaves DEF BeginSchedule
  <2> QED  BY <1>2, <2>1, <2>2, SameTasksKeep DEF BeginSchedule
<1>3. ASSUME NEW powers, BeginAdapt(id, powers) PROVE IInv'
  <2>1. SameTasks(data, data')  BY <1>3 DEF BeginAdapt, SameTasks
  <2>2. Left  BY <1>3, CallLeaves DEF BeginAdapt
  <2> QED  BY <1>3, <2>1, <2>2, SameTasksKeep DEF BeginAdapt
<1>4. ASSUME UnscheduleFlexibility(id) PROVE IInv'
  <2>1. SameTasks(data, data')
        BY <1>4 DEF UnscheduleFlexibility, Changed, SameTasks, IInv, DataType
  <2>2. Saves(data')  BY <1>4 DEF UnscheduleFlexibility, Saves
  <2> QED  BY <1>4, <2>1, <2>2, SameTasksKeep DEF UnscheduleFlexibility
<1> QED  BY <1>1, <1>2, <1>3, <1>4

LEMMA PowersKeep == ASSUME IInv, Powers PROVE IInv'
<1>1. PICK power \in Power : SchedulePower(power)  BY DEF Powers
<1>2. SameTasks(data, data')
      BY <1>1 DEF SchedulePower, Changed, SameTasks, IInv, DataType
<1>3. Left  BY <1>1, CallLeaves DEF SchedulePower
<1> QED  BY <1>1, <1>2, <1>3, SameTasksKeep DEF SchedulePower

LEMMA TargetChanges == ASSUME IInv, NEW soc, NEW time, SetTarget(soc, time) PROVE SameTasks(data, data')
BY DEF SetTarget, Changed, SameTasks, IInv, DataType

LEMMA TargetsKeep == ASSUME IInv, NEW soc, NEW time, SetTargetSoc(soc, time) PROVE IInv'
<1>1. SameTasks(data, data') /\ UNCHANGED <<now, published>>  BY TargetChanges DEF SetTargetSoc
<1>2. CASE Completes(soc, time)
  <2>1. Saves(data')  BY <1>2 DEF SetTargetSoc, Saves
  <2> QED  BY <1>1, <2>1, SameTasksKeep
<1>3. CASE ~ Completes(soc, time)
  <2>1. Left  BY <1>3, CallLeaves DEF SetTargetSoc
  <2> QED  BY <1>1, <2>1, SameTasksKeep
<1> QED  BY <1>2, <1>3

LEMMA RunTargetKeeps == ASSUME IInv, RunTarget PROVE IInv'
<1>1. SameTasks(data, data') /\ UNCHANGED <<now, published>>  BY TargetChanges DEF RunTarget
<1>2. CASE Completes(data.targetSOC, data.targetSocTime)
  <2>1. Saves(data')  BY <1>2 DEF RunTarget, Saves
  <2> QED  BY <1>1, <2>1, SameTasksKeep
<1>3. CASE ~ Completes(data.targetSOC, data.targetSocTime)
  <2>1. Left  BY <1>3 DEF RunTarget, Left, Unlocked
  <2> QED  BY <1>1, <2>1, SameTasksKeep
<1> QED  BY <1>2, <1>3

LEMMA FixKeeps == ASSUME IInv, FixSchedule PROVE IInv'
<1>1. SameTasks(data, Fixed(data))
      BY DEF Fixed, SameTasks, IInv, DataType
<1>2. Saves(data')  BY DEF FixSchedule, Saves
<1> QED  BY <1>1, <1>2, SameTasksKeep DEF FixSchedule

---------------------------------------------------------------------------
(* Steps that remove tasks, or that let time pass. *)

LEMMA SweepKeeps == ASSUME IInv, Sweep PROVE IInv'
<1> DEFINE over == {id \in DOMAIN data.tasks : Finished(data.tasks[id].startingTime)}
<1>1. /\ DOMAIN data' = DOMAIN data /\ data'.idCounter = data.idCounter
      /\ data'.tasks = [id \in DOMAIN data.tasks \ over |-> data.tasks[id]]
      BY DEF Sweep, Changed, IInv, DataType
<1>2. DataType(data') /\ OneTaskADay(data')
      BY <1>1 DEF IInv, DataType, OneTaskADay
<1>3. Kept(data)'
  <2> SUFFICES ASSUME NEW p \in published, p.start + DayLength >= now
               PROVE  p.id \in DOMAIN data'.tasks /\ data'.tasks[p.id].startingTime = p.start
      BY DEF Kept, Sweep
  <2>1. p.id \in DOMAIN data.tasks /\ data.tasks[p.id].startingTime = p.start
        BY DEF IInv, Kept
  <2>2. p.id \notin over
        BY <2>1, BatterySchedulerAssumption DEF Finished, IInv, PublishedType
  <2> QED  BY <1>1, <2>1, <2>2
<1>4. InFile(data', data) /\ Descends(data, data')  BY <1>1 DEF IInv, InFile, Descends, DataType
<1>5. FileInv'
  <2>1. Left  BY DEF Sweep, Left, Unlocked
  <2> QED  BY <1>2, <1>4, <2>1, LeftFile
<1>6. UNCHANGED <<now, published>>  BY DEF Sweep
<1> QED  BY <1>2, <1>3, <1>5, <1>6 DEF IInv, PublishedType

\* After a restart the ids that are not given up stand for tasks of the file.
LEMMA RestartKeeps == ASSUME IInv, Restart PROVE IInv'
<1>1. /\ data' = IF file.whole THEN file.data ELSE NewData
      /\ silent' = ~file.whole /\ file' = file /\ call' = None /\ run' = "idle" /\ now' = now
      /\ published' = IF ~file.whole THEN {}
                      ELSE IF silent THEN {p \in published : p.id < file.data.idCounter} ELSE published
      BY DEF Restart
<1>2. Unlocked'  BY <1>1, BatterySchedulerAssumption DEF Unlocked, Saving
<1>3. PublishedType' /\ now' \in Nat  BY <1>1 DEF IInv, PublishedType
<1>4. CASE file.whole
  <2>1. data' = file.data  BY <1>1, <1>4
  <2>2. InFile(data', file.data) /\ Descends(file.data, data')
        BY <2>1 DEF IInv, FileInv, InFile, Descends, DataType
  <2>3. FileInv'  BY <1>1, <1>4, <2>1, <2>2 DEF IInv, FileInv
  <2>4. ASSUME NEW p \in published', p.start + DayLength >= now
        PROVE  p.id \in DOMAIN file.data.tasks /\ file.data.tasks[p.id].startingTime = p.start
    <3>1. p \in published /\ p.id \in DOMAIN data.tasks /\ data.tasks[p.id].startingTime = p.start
          BY <1>1, <1>4, <2>4 DEF IInv, Kept
    <3>2. CASE silent
      <4>1. p.id < file.data.idCounter  BY <1>1, <1>4, <3>2
      <4> QED  BY <1>4, <3>1, <4>1 DEF IInv, FileInv, Descends
    <3>3. CASE ~silent  BY <3>1, <3>3 DEF IInv, FileInv, InFile
    <3> QED  BY <3>2, <3>3
  <2>5. Kept(data)'  BY <1>1, <2>1, <2>4 DEF Kept
  <2>6. DataType(data') /\ OneTaskADay(data')  BY <2>1 DEF IInv, FileInv
  <2> QED  BY <1>3, <2>3, <2>5, <2>6 DEF IInv
<1>5. CASE ~file.whole
  <2>1. data' = NewData /\ published' = {} /\ silent' = TRUE  BY <1>1, <1>5
  <2>2. DataType(NewData) /\ OneTaskADay(NewData)
        BY DEF NewData, EmptyMap, DataType, OneTaskADay
  <2>3. FileInv'  BY <1>1, <1>2, <1>5, <2>1 DEF IInv, FileInv
  <2>4. Kept(data)'  BY <2>1 DEF Kept
  <2> QED  BY <1>3, <2>1, <2>2, <2>3, <2>4 DEF IInv
<1> QED  BY <1>4, <1>5

LEMMA TickKeeps == ASSUME IInv, Tick PROVE IInv'
<1>1. now' = now + 1 /\ UNCHANGED <<data, disk, call, run, published>>  BY DEF Tick
<1>2. \A p \in published : p.start + DayLength >= now' => p.start + DayLength >= now
      BY <1>1, BatterySchedulerAssumption DEF IInv, PublishedType
<1>3. Kept(data)'  BY <1>1, <1>2 DEF IInv, Kept
<1>4. FileInv'  BY <1>1 DEF IInv, FileInv, disk, Unlocked
<1> QED  BY <1>1, <1>3, <1>4 DEF IInv, PublishedType

---------------------------------------------------------------------------
(* Offers. *)

LEMMA DayArithmetic ==
    ASSUME NEW t \in Int
    PROVE  StartOf(t) \in Int /\ StartOf(t) <= t /\ t < StartOf(t) + DayLength
<1>1. t % DayLength \in 0..(DayLength - 1)  BY BatterySchedulerAssumption
<1> QED  BY <1>1, BatterySchedulerAssumption DEF StartOf

\* What an offer does to the data: it may draw an id, and keeps the tasks.
Grown(d, e) ==
    /\ DataType(e) /\ OneTaskADay(e)
    /\ Descends(d, e)
    /\ e.idCounter = d.idCounter => e = d
    /\ \A id \in DOMAIN d.tasks :
           id \in DOMAIN e.tasks /\ e.tasks[id].startingTime = d.tasks[id].startingTime

LEMMA WithTaskGrows ==
    ASSUME NEW d, DataType(d), OneTaskADay(d), NEW t \in Int, NEW b \in BOOLEAN
    PROVE  Grown(d, WithTaskAt(d, t, b))
<1>1. CASE TasksAt(d, t, b) # {}
      BY <1>1 DEF WithTaskAt, Grown, Descends, DataType
<1>2. CASE TasksAt(d, t, b) = {}
  <2> DEFINE e == AddedForDay(d, t)
             task == [startingTime |-> StartOf(t), power |-> Put(EmptyMap, 0, 0)]
  <2>1. /\ DOMAIN e = DOMAIN d /\ e.idCounter = d.idCounter + 1
        /\ e.tasks = Put(d.tasks, d.idCounter, task)
    <3>1. d.idCounter + 1 \in Nat /\ {"idCounter", "tasks"} \subseteq DOMAIN d  BY DEF DataType
    <3>2. DOMAIN e = DOMAIN d  BY DEF AddedForDay
    <3>3. e.idCounter = d.idCounter + 1  BY <3>1 DEF AddedForDay
    <3>4. e.tasks = Put(d.tasks, d.idCounter, task)  BY <3>1 DEF AddedForDay
    <3> QED  BY <3>2, <3>3, <3>4
  <2>2. /\ DOMAIN e.tasks = DOMAIN d.tasks \cup {d.idCounter}
        /\ e.tasks[d.idCounter] = task
        /\ \A id \in DOMAIN d.tasks : id # d.idCounter /\ e.tasks[id] = d.tasks[id]
    <3> HIDE DEF e, task
    <3>1. \A id \in DOMAIN d.tasks : id # d.idCounter  BY DEF DataType
    <3> QED  BY <2>1, <3>1 DEF Put
  <2>3. StartOf(t) \in Int /\ StartOf(t) <= t /\ t < StartOf(t) + DayLength  BY DayArithmetic
  <2>4. \A id \in DOMAIN d.tasks : d.tasks[id].startingTime # StartOf(t)
        BY <1>2, <2>3 DEF TasksAt
  <2>5. DataType(e)  BY <2>1, <2>2, <2>3 DEF DataType
  <2>6. OneTaskADay(e)  BY <2>2, <2>4 DEF OneTaskADay
  <2>7. Descends(d, e)  BY <2>1, <2>2 DEF Descends, DataType
  <2>8. Grown(d, e)  BY <2>1, <2>2, <2>5, <2>6, <2>7 DEF Grown, DataType
  <2> QED  BY <1>2, <2>8 DEF WithTaskAt
<1> QED  BY <1>1, <1>2

LEMMA GrownTwice ==
    ASSUME NEW d, NEW e, NEW f, DataType(d), Grown(d, e), Grown(e, f) PROVE Grown(d, f)
<1>1. Descends(d, f)  BY DescendsTwice DEF Grown
<1>2. f.idCounter = d.idCounter => e.idCounter = d.idCounter  BY DEF Grown, Descends, DataType
<1> QED  BY <1>1, <1>2 DEF Grown

LEMMA GetScheduleKeeps ==
    ASSUME IInv, NEW from \in Int, NEW to \in Int, GetSchedule(from, to) PROVE IInv'
<1> DEFINE added == WithTaskAt(WithTaskAt(data, from, FALSE), to, TRUE)
           start(id) == added.tasks[id].startingTime
<1>1. Grown(data, added)
  <2>1. Grown(data, WithTaskAt(data, from, FALSE))  BY WithTaskGrows DEF IInv
  <2>2. Grown(WithTaskAt(data, from, FALSE), added)  BY <2>1, WithTaskGrows DEF Grown
  <2> QED  BY <2>1, <2>2, GrownTwice DEF IInv
<1>2. PICK first \in TasksAt(added, from, FALSE), last \in TasksAt(added, to, TRUE) :
          /\ data' = [added EXCEPT !.flexibilities =
                 [id \in DOMAIN @ |->
                     IF id = first THEN Polled(added, start(id))
                     ELSE IF id = last THEN PolledLater(added, @[id], start(id)) ELSE @[id]]]
          /\ IF added.idCounter = data.idCounter THEN UNCHANGED <<call, disk>>
             ELSE CallSaves(SavedAfter(added))
          /\ published' = published \cup {[id |-> id, start |-> start(id)] : id \in {first, last}}
          /\ now' = now /\ run' = run /\ Unlocked
      BY DEF GetSchedule, Changed
<1> HIDE DEF added
<1>3. first \in DOMAIN added.tasks /\ last \in DOMAIN added.tasks  BY DEF TasksAt
<1>4. /\ DOMAIN data' = DOMAIN added /\ data'.tasks = added.tasks
      /\ data'.idCounter = added.idCounter
      BY <1>1, <1>2 DEF Grown, DataType
<1>5. DataType(data') /\ OneTaskADay(data')
      BY <1>1, <1>4 DEF Grown, DataType, OneTaskADay
<1>6. \A p \in published' :
          \/ p \in published
          \/ p.id \in DOMAIN added.tasks /\ p.start = added.tasks[p.id].startingTime
      BY <1>2, <1>3
<1>7. PublishedType'
      BY <1>1, <1>6 DEF PublishedType, IInv, Grown, DataType
<1>8. \A p \in published' : p.start + DayLength >= now =>
          p.id \in DOMAIN added.tasks /\ added.tasks[p.id].startingTime = p.start
      BY <1>1, <1>6 DEF IInv, Kept, Grown
<1>9. Kept(data)'  BY <1>2, <1>4, <1>8 DEF Kept
<1>10. Descends(data, data') /\ InFile(data', added)
       BY <1>1, <1>4 DEF Grown, Descends, InFile
<1>11. FileInv'
  <2>1. CASE added.idCounter = data.idCounter
    <3>1. added = data  BY <1>1, <2>1 DEF Grown
    <3>2. Left  BY <1>2, <2>1, CallLeaves
    <3> QED  BY <1>5, <1>10, <3>1, <3>2, LeftFile
  <2>2. CASE added.idCounter # data.idCounter
    <3>1. Saves(added)  BY <1>2, <2>2 DEF Saves, SavedAfter
    <3> QED  BY <1>1, <1>5, <1>10, <3>1, SavedFile DEF Grown
  <2> QED  BY <2>1, <2>2
<1> QED  BY <1>2, <1>5, <1>7, <1>9, <1>11 DEF IInv

---------------------------------------------------------------------------
(* The invariant, and what it says of the ids. *)

LEMMA NextIInv == IInv /\ [Next]_vars => IInv'
<1> SUFFICES ASSUME IInv, [Next]_vars PROVE IInv'  OBVIOUS
<1>1. CASE Offers
  <2>1. PICK from \in {now, StartOf(now) + DayLength},
             to \in {StartOf(now) + n * DayLength : n \in 1..3} : GetSchedule(from, to)
        BY <1>1 DEF Offers
  <2>2. now \in Int /\ StartOf(now) \in Int /\ DayLength \in Int
        BY DayArithmetic, BatterySchedulerAssumption DEF IInv
  <2>3. from \in Int /\ to \in Int  BY <2>2
  <2> QED  BY <2>1, <2>3, GetScheduleKeeps
<1>2. CASE Orders  BY <1>2, OrdersKeep
<1>3. CASE EndSchedule  BY <1>3, EndScheduleKeeps
<1>4. CASE EndAdapt  BY <1>4, EndAdaptKeeps
<1>5. CASE Targets  BY <1>5, TargetsKeep DEF Targets
<1>6. CASE Powers  BY <1>6, PowersKeep
<1>7. CASE CallSaved  BY <1>7, SavedKeeps
<1>8. CASE Run
      BY <1>8, SweepKeeps, RunTargetKeeps, FixKeeps, SavedKeeps DEF Run
<1>9. CASE Restart  BY <1>9, RestartKeeps
<1>10. CASE Tick  BY <1>10, TickKeeps
<1>11. CASE Drift
  <2>1. FileInv'  BY <1>11 DEF Drift, IInv, FileInv, disk, Unlocked
  <2> QED  BY <1>11, <2>1 DEF Drift, IInv, Kept, PublishedType
<1>12. CASE UNCHANGED vars
  <2>1. FileInv'  BY <1>12 DEF vars, IInv, FileInv, disk, Unlocked
  <2> QED  BY <1>12, <2>1 DEF vars, IInv, Kept, PublishedType
<1> QED  BY <1>1, <1>2, <1>3, <1>4, <1>5, <1>6, <1>7, <1>8, <1>9, <1>10, <1>11, <1>12 DEF Next

\* The invariant of the ids: the memory has one task for the day of each id that was given
\* out; a whole file is no newer than the memory; and the file knows what the memory knows, or
\* is about to, unless a save has failed.
THEOREM TasksInvariance == Spec => []IInv
<1>1. Init => IInv  BY InitIInv
<1>2. IInv /\ [Next]_vars => IInv'  BY NextIInv
<1> QED  BY <1>1, <1>2, PTL DEF Spec

\* PublishedTasksLast: an id that getSchedule has returned stands for the task of its day,
\* and for no other, until the day is over, across any number of calls and restarts; only a
\* restart after a save that failed unnoticed, or in the middle of a save, forgets it.
THEOREM IdsLast == Spec => []PublishedTasksLast
<1>1. IInv => PublishedTasksLast
      BY DEF IInv, PublishedTasksLast, Kept, OneTaskADay
<1> QED  BY <1>1, TasksInvariance, PTL

---------------------------------------------------------------------------
(* Maps, and the arithmetic of setTargetSoc. *)

LEMMA FloorExists ==
    ASSUME NEW map, DOMAIN map \subseteq Nat, NEW t \in Nat, \E k \in DOMAIN map : k <= t
    PROVE  FloorKey(map, t) \in FloorKeys(map, t)
<1> DEFINE T == {k \in DOMAIN map : k <= t}
<1>1. T \in SUBSET (0..t) /\ T # {}  OBVIOUS
<1>2. PICK x \in T : \A y \in T : y <= x  BY <1>1, Greatest
<1>3. x \in FloorKeys(map, t)  BY <1>2 DEF FloorKeys
<1> QED  BY <1>3 DEF FloorKey

LEMMA NextExists ==
    ASSUME NEW map, DOMAIN map \subseteq Nat, NEW t, Later(map, t) # {}
    PROVE  NextKey(map, t) \in Later(map, t) /\ \A j \in Later(map, t) : NextKey(map, t) <= j
<1>1. Later(map, t) \in SUBSET Nat  BY DEF Later
<1>2. \E k \in Later(map, t) : \A j \in Later(map, t) : k <= j  BY <1>1, Least
<1> QED  BY <1>2 DEF NextKey

LEMMA Division ==
    ASSUME NEW n \in Nat, NEW b \in Nat \ {0}
    PROVE  n \div b \in Nat /\ b * (n \div b) <= n /\ n < b * (n \div b) + b
OBVIOUS

LEMMA StartDivisible ==
    ASSUME NEW t \in Nat PROVE StartOf(t) % DayLength = 0
<1>1. DayLength \in Nat \ {0} BY BatterySchedulerAssumption
<1>2. t - (t % DayLength) = DayLength * (t \div DayLength) BY <1>1
<1>3. t \div DayLength \in Nat BY <1>1, Division
<1>4. ASSUME NEW q \in Nat PROVE (DayLength * q) % DayLength = 0 BY <1>1
<1> QED BY <1>2, <1>3, <1>4 DEF StartOf

LEMMA QuotientType ==
    ASSUME NEW a \in Int, NEW b \in Int, b # 0
    PROVE  Quotient(a, b) \in Int
<1>1. Abs(a) \in Nat /\ Abs(b) \in Nat \ {0} BY DEF Abs, Larger
<1>2. Abs(a) \div Abs(b) \in Nat BY <1>1, Division
<1> QED BY <1>2 DEF Quotient

LEMMA RemainderBounds ==
    ASSUME NEW a \in Int, NEW b \in Nat \ {0}
    PROVE  /\ Remainder(a, b) \in Int
           /\ a >= 0 => Remainder(a, b) \in 0..(b - 1)
           /\ a < 0 => Remainder(a, b) \in -(b - 1)..0 /\ Remainder(a, b) >= a
<1>1. CASE a >= 0
  <2>1. Quotient(a, b) = a \div b BY <1>1 DEF Quotient, Abs, Larger
  <2>2. a \in Nat BY <1>1
  <2>3. a \div b \in Nat /\ b * (a \div b) <= a /\ a < b * (a \div b) + b BY <2>2, Division
  <2>4. Remainder(a, b) = a - b * (a \div b) BY <2>1 DEF Remainder
  <2>5. b * (a \div b) \in Int BY <2>3
  <2> QED BY <2>3, <2>4, <2>5, <1>1
<1>2. CASE a < 0
  <2> DEFINE q == (-a) \div b
  <2>1. Quotient(a, b) = -q BY <1>2 DEF Quotient, Abs, Larger
  <2>2. -a \in Nat BY <1>2
  <2>3. q \in Nat /\ b * q <= -a /\ -a < b * q + b BY <2>2, Division
  <2>4. Remainder(a, b) = a - b * (-q) BY <2>1 DEF Remainder
  <2> HIDE DEF q
  <2>5. b * q \in Nat /\ b * (-q) = -(b * q) BY <2>3
  <2> QED BY <2>3, <2>4, <2>5, <1>2
<1> QED BY <1>1, <1>2

LEMMA AveragePowerBounds ==
    ASSUME NEW a \in Int, NEW n \in Nat \ {0}
    PROVE  AveragePower(a, n) \in Int /\ Abs(AveragePower(a, n)) <= Larger(MaxPower, Step)
<1> DEFINE q == Quotient(a, n)
           r == Remainder(q, Step)
<1>1. q \in Int BY QuotientType
<1>2. Step \in Nat \ {0} /\ MaxPower \in Nat BY BatterySchedulerAssumption
<1>3. r \in Int /\ (q >= 0 => r \in 0..(Step - 1)) /\ (q < 0 => r \in -(Step - 1)..0 /\ r >= q)
      BY <1>1, <1>2, RemainderBounds
<1>6. AveragePower(a, n) = IF q < 0 THEN Larger(q - (r - Step), -MaxPower)
        ELSE Smaller(q + (r - Step), MaxPower) BY DEF AveragePower
<1> HIDE DEF q, r
<1> QED BY <1>1, <1>2, <1>3, <1>6 DEF Larger, Smaller, Abs

---------------------------------------------------------------------------
(* The plan of setTargetSoc. *)

\* The powers of a schedule: a power the loop rounds may exceed MaxPower, up to one Step.
Bounded == {p \in Int : Abs(p) <= Larger(MaxPower, Step)}
Plans == UNION {[X -> Bounded] : X \in SUBSET Nat}
States(time) == [at : 0..(time - 1), rest : Int]

LEMMA ChargingFunction ==
    ASSUME NEW time, NEW f, f = [s \in States(time) |-> Loop(f, s.at, s.rest, time)]
    PROVE  Charging(time) = [s \in States(time) |-> Loop(Charging(time), s.at, s.rest, time)]
BY DEF Charging, States

LEMMA PutPlan ==
    ASSUME NEW m \in Plans, NEW k \in Nat, NEW d \in Bounded PROVE Put(m, k, d) \in Plans
<1>1. PICK X \in SUBSET Nat : m \in [X -> Bounded]  BY DEF Plans
<1>2. X \cup {k} \in SUBSET Nat /\ DOMAIN m = X  BY <1>1
<1>3. Put(m, k, d) \in [X \cup {k} -> Bounded]  BY <1>1, <1>2 DEF Put
<1> QED  BY <1>2, <1>3 DEF Plans

LEMMA EmptyPlan == EmptyMap \in Plans /\ 0 \in Bounded
<1>1. EmptyMap \in [{} -> Bounded]  BY DEF EmptyMap
<1>2. 0 \in Bounded  BY BatterySchedulerAssumption DEF Bounded, Abs, Larger
<1> QED  BY <1>1, <1>2 DEF Plans

LEMMA LoopGoesOn ==
    ASSUME NEW time \in Nat, NEW s \in States(time),
           NEW power, power = AveragePower(s.rest, time - s.at), power # 0,
           NEW step, step = Abs(Quotient(s.rest, power)) + 1
    PROVE  /\ power \in Bounded /\ step \in Nat \ {0} /\ s.at \in Nat
           /\ s.at + step < time =>
                [at |-> s.at + step, rest |-> s.rest - power * step] \in States(time)
<1>1. s.at \in 0..(time - 1) /\ s.rest \in Int  BY DEF States
<1>2. power \in Int /\ power \in Bounded
  <2>1. time - s.at \in Nat \ {0}  BY <1>1
  <2>2. power \in Int /\ Abs(power) <= Larger(MaxPower, Step)  BY <1>1, <2>1, AveragePowerBounds
  <2> QED  BY <2>2 DEF Bounded
<1>3. Quotient(s.rest, power) \in Int  BY <1>1, <1>2, QuotientType
<1>4. step \in Nat \ {0}  BY <1>3 DEF Abs, Larger
<1>5. s.rest - power * step \in Int  BY <1>1, <1>2, <1>4
<1>6. s.at + step < time => s.at + step \in 0..(time - 1)  BY <1>1, <1>4
<1> QED  BY <1>1, <1>2, <1>4, <1>5, <1>6 DEF States

LEMMA LoopTyped ==
    ASSUME NEW time \in Nat, NEW g, NEW s \in States(time),
           \A r \in States(time) : r.at > s.at => g[r] \in Plans
    PROVE  Loop(g, s.at, s.rest, time) \in Plans
<1> DEFINE power == AveragePower(s.rest, time - s.at)
           step == Abs(Quotient(s.rest, power)) + 1
           next == [at |-> s.at + step, rest |-> s.rest - power * step]
<1>1. s.at \in Nat  BY DEF States
<1>2. Loop(g, s.at, s.rest, time) =
         IF power = 0 THEN Put(EmptyMap, s.at, 0)
         ELSE IF s.at + step < time THEN Put(g[next], s.at, power)
         ELSE Put(Put(EmptyMap, time, 0), s.at, power)
      BY DEF Loop
<1>3. CASE power = 0  BY <1>1, <1>2, <1>3, EmptyPlan, PutPlan
<1>4. CASE power # 0
  <2>1. power \in Bounded /\ step \in Nat \ {0} /\ (s.at + step < time => next \in States(time))
        BY <1>4, LoopGoesOn
  <2>2. s.at + step < time => g[next] \in Plans
        BY <1>1, <2>1
  <2>3. Put(Put(EmptyMap, time, 0), s.at, power) \in Plans
        BY <1>1, <2>1, EmptyPlan, PutPlan
  <2>4. s.at + step < time => Put(g[next], s.at, power) \in Plans
        BY <1>1, <2>1, <2>2, PutPlan
  <2> HIDE DEF power, step, next
  <2> QED  BY <1>2, <1>4, <2>3, <2>4
<1> QED  BY <1>3, <1>4

\* The loop goes on at a later time: with the time that is left as rank, it is a recursion.
LEMMA LoopLooksAhead ==
    ASSUME NEW time \in Nat, NEW g, NEW h, NEW s \in States(time),
           \A r \in States(time) : r.at > s.at => g[r] = h[r]
    PROVE  Loop(g, s.at, s.rest, time) = Loop(h, s.at, s.rest, time)
<1> DEFINE power == AveragePower(s.rest, time - s.at)
           step == Abs(Quotient(s.rest, power)) + 1
           next == [at |-> s.at + step, rest |-> s.rest - power * step]
<1>1. s.at \in Nat  BY DEF States
<1>2. CASE power = 0  BY <1>2 DEF Loop
<1>3. CASE power # 0
  <2>1. step \in Nat \ {0} /\ (s.at + step < time => next \in States(time))
        BY <1>3, LoopGoesOn
  <2>2. s.at + step < time => g[next] = h[next]
        BY <1>1, <2>1
  <2> QED  BY <2>2 DEF Loop
<1> QED  BY <1>2, <1>3

LEMMA ChargingTyped ==
    ASSUME NEW time \in Nat, NEW s \in States(time)
    PROVE  Charging(time)[s] \in Plans
<1> DEFINE S == States(time)
           rank == [r \in S |-> time - r.at]
           D == [g \in [S -> Plans] |-> [r \in S |-> Loop(g, r.at, r.rest, time)]]
<1>1. \A r \in S : r.at \in 0..(time - 1)  BY DEF States
<1>2. rank \in [S -> Nat]  BY <1>1
<1>3. D \in [[S -> Plans] -> [S -> Plans]]
  <2>1. ASSUME NEW g \in [S -> Plans], NEW r \in S PROVE Loop(g, r.at, r.rest, time) \in Plans
        BY LoopTyped
  <2> QED  BY <2>1
<1>4. ASSUME NEW g \in [S -> Plans], NEW h \in [S -> Plans], NEW x \in S,
             \A y \in S : rank[y] < rank[x] => g[y] = h[y]
      PROVE  D[g][x] = D[h][x]
  <2>1. \A r \in S : r.at > x.at => g[r] = h[r]  BY <1>1, <1>4
  <2> QED  BY <2>1, LoopLooksAhead
<1>5. Solvable(S, Plans, D)
  <2>1. Recursion(S, Plans, rank, D)  BY <1>2, <1>3, <1>4, EmptyPlan DEF Recursion
  <2> QED  BY <2>1, Fixpoint
<1>6. PICK f \in [S -> Plans] : f = [r \in S |-> Loop(f, r.at, r.rest, time)]  BY <1>5 DEF Solvable
<1>7. Charging(time) = [r \in S |-> Loop(Charging(time), r.at, r.rest, time)]
      BY <1>6, ChargingFunction
<1> DEFINE T == {time - r.at : r \in {q \in S : Charging(time)[q] \notin Plans}}
<1>8. T = {}
  <2> SUFFICES ASSUME T # {} PROVE FALSE  OBVIOUS
  <2>1. T \in SUBSET Nat  BY <1>1
  <2>2. PICK n \in T : \A m \in T : n <= m  BY <2>1, Least
  <2>3. PICK r \in S : n = time - r.at /\ Charging(time)[r] \notin Plans  OBVIOUS
  <2>4. ASSUME NEW q \in S, q.at > r.at PROVE Charging(time)[q] \in Plans
    <3>1. ~ (n <= time - q.at)  BY <1>1, <2>3, <2>4
    <3> QED  BY <2>2, <3>1
  <2>5. Loop(Charging(time), r.at, r.rest, time) \in Plans  BY <2>4, LoopTyped
  <2> QED  BY <1>7, <2>3, <2>5
<1> QED  BY <1>8

---------------------------------------------------------------------------
(* Types of maps and powers. *)

\* A map from times to powers; one that is followed has an entry at 0, which stays.
PowerMap(m, P) == DOMAIN m \subseteq Nat /\ \A k \in DOMAIN m : m[k] \in P
ScheduleType(m) == PowerMap(m, Bounded) /\ 0 \in DOMAIN m
TaskType(m) == PowerMap(m, Power) /\ DOMAIN m \subseteq 0..DayLength /\ 0 \in DOMAIN m

LEMMA PowersAreBounded == 0 \in Power /\ Power \subseteq Bounded
<1>1. Step \in Nat \ {0} /\ MaxPower \in Nat  BY BatterySchedulerAssumption
<1>2. 0 % Step = 0  BY <1>1
<1> QED  BY <1>1, <1>2 DEF Power, Bounded, Abs, Larger

LEMMA SchedulePut ==
    ASSUME NEW m, ScheduleType(m), NEW k \in Nat, NEW p \in Bounded PROVE ScheduleType(Put(m, k, p))
BY DEF ScheduleType, PowerMap, Put

LEMMA ScheduleOutside ==
    ASSUME NEW m, ScheduleType(m), NEW first \in Nat \ {0}, NEW last
    PROVE  ScheduleType(Outside(m, first, last))
BY DEF ScheduleType, PowerMap, Outside

LEMMA ScheduleMerge ==
    ASSUME NEW m, ScheduleType(m), NEW n, PowerMap(n, Bounded) PROVE ScheduleType(PutAll(m, n))
BY DEF ScheduleType, PowerMap, PutAll

LEMMA ShiftedType ==
    ASSUME NEW m, NEW P, PowerMap(m, P), NEW t \in Nat
    PROVE  PowerMap(Shifted(m, t), P) /\ DOMAIN Shifted(m, t) = {j + t : j \in DOMAIN m}
<1>1. DOMAIN Shifted(m, t) = {j + t : j \in DOMAIN m}  BY DEF Shifted
<1>2. ASSUME NEW j \in DOMAIN m PROVE j + t \in Nat /\ Shifted(m, t)[j + t] = m[j]
  <2>1. j \in Nat  BY DEF PowerMap
  <2>2. (j + t) - t = j  BY <2>1
  <2> QED  BY <2>1, <2>2 DEF Shifted
<1> QED  BY <1>1, <1>2 DEF PowerMap

LEMMA CompressedType == ASSUME NEW m, TaskType(m) PROVE TaskType(Compressed(m))
<1>1. DOMAIN Compressed(m) \subseteq DOMAIN m /\ \A k \in DOMAIN Compressed(m) : Compressed(m)[k] = m[k]
      BY DEF Compressed
<1>2. 0 \in DOMAIN Compressed(m)  BY DEF Compressed, TaskType
<1> QED  BY <1>1, <1>2 DEF TaskType, PowerMap

LEMMA NoPower == TaskType(Put(EmptyMap, 0, 0))
<1>1. DOMAIN Put(EmptyMap, 0, 0) = {0} /\ Put(EmptyMap, 0, 0)[0] = 0  BY DEF Put, EmptyMap
<1>2. 0 \in 0..DayLength  BY BatterySchedulerAssumption
<1> QED  BY <1>1, <1>2, PowersAreBounded DEF TaskType, PowerMap

LEMMA AtType ==
    ASSUME NEW m, NEW P, PowerMap(m, P), 0 \in DOMAIN m, NEW t \in Nat PROVE At(m, t) \in P
<1>1. FloorKey(m, t) \in FloorKeys(m, t)  BY FloorExists DEF PowerMap
<1> QED  BY <1>1 DEF FloorKeys, At, PowerMap

\* Task.compress counts the powers from 0 on, whatever the entry at 0 says: the entry after it
\* may go although it changes the power.
FirstFits(m) ==
    \A k \in DOMAIN m :
        0 < k /\ k < DayLength /\ {j \in DOMAIN m : 0 < j /\ j < k} = {} /\ m[k] = 0 => m[0] = 0

\* The entry that floorEntry finds.
LEMMA FloorIs ==
    ASSUME NEW map, DOMAIN map \subseteq Nat, NEW t \in Nat, NEW k \in DOMAIN map, k <= t,
           \A j \in DOMAIN map : j <= t => j <= k
    PROVE  FloorKey(map, t) = k
<1>1. k \in FloorKeys(map, t)  BY DEF FloorKeys
<1>2. \A j \in FloorKeys(map, t) : j = k  BY DEF FloorKeys
<1> QED  BY <1>1, <1>2 DEF FloorKey

\* What compress removes repeats the power before it, or the 0 it starts with.
LEMMA RemovedRepeats ==
    ASSUME NEW m, TaskType(m), NEW k \in DOMAIN m, k \notin DOMAIN Compressed(m)
    PROVE  /\ 0 < k /\ k < DayLength
           /\ {j \in DOMAIN m : 0 < j /\ j < k} = {} => m[k] = 0
           /\ {j \in DOMAIN m : 0 < j /\ j < k} # {} => m[k] = At(m, k - 1)
<1>1. k \in 0..DayLength /\ DayLength \in Nat  BY BatterySchedulerAssumption DEF TaskType
<1>2. k # 0 /\ k # DayLength  BY DEF Compressed
<1>3. m[k] = IF {j \in DOMAIN m : 0 < j /\ j < k} = {} THEN 0 ELSE At(m, k - 1)
      BY DEF Compressed
<1> QED  BY <1>1, <1>2, <1>3

\* compress keeps the power at every time if, and only if, the first entry after the one at 0
\* is not a 0 that ends another power: "deleting redundant values" (Task.compress) is what it
\* does to all other entries.
THEOREM CompressedKeepsPowers ==
    ASSUME NEW m, TaskType(m)
    PROVE  (\A t \in Nat : At(Compressed(m), t) = At(m, t)) <=> FirstFits(m)
<1> DEFINE c == Compressed(m)
<1>1. /\ DOMAIN m \subseteq Nat /\ 0 \in DOMAIN m
      /\ DOMAIN c \subseteq DOMAIN m /\ 0 \in DOMAIN c /\ \A k \in DOMAIN c : c[k] = m[k]
      BY DEF TaskType, PowerMap, Compressed
<1>2. ASSUME FirstFits(m), NEW t \in Nat PROVE At(c, t) = At(m, t)
  <2> HIDE DEF c
  <2> DEFINE g == FloorKey(c, t)
             f == FloorKey(m, t)
  <2>1. /\ g \in DOMAIN c /\ g <= t /\ \A j \in DOMAIN c : j <= t => j <= g
        /\ f \in DOMAIN m /\ f <= t /\ \A j \in DOMAIN m : j <= t => j <= f
    <3>1. g \in FloorKeys(c, t) /\ f \in FloorKeys(m, t)  BY <1>1, FloorExists
    <3> QED  BY <3>1 DEF FloorKeys
  <2> HIDE DEF g, f
  <2> DEFINE Differ == {k \in DOMAIN m : g <= k /\ k <= f /\ m[k] # m[g]}
  <2>2. Differ = {}
    <3> SUFFICES ASSUME Differ # {} PROVE FALSE  OBVIOUS
    <3>1. PICK k \in Differ : \A y \in Differ : k <= y
      <4>1. Differ \in SUBSET Nat  BY <1>1
      <4> QED  BY <4>1, Least
    <3>2. /\ k \in DOMAIN m /\ k \in Nat /\ g \in DOMAIN m /\ g \in Nat /\ f \in Nat
          /\ g <= k /\ k <= f /\ m[k] # m[g] /\ g # k
          BY <1>1, <2>1
    <3>3. k \notin DOMAIN c  BY <2>1, <3>2
    <3>4. CASE {j \in DOMAIN m : 0 < j /\ j < k} = {}
      <4>1. g = 0  BY <3>2, <3>4
      <4>2. 0 < k /\ k < DayLength /\ m[k] = 0  BY <3>2, <3>3, <3>4, RemovedRepeats DEF c
      <4> QED  BY <1>2, <3>2, <3>4, <4>1, <4>2 DEF FirstFits
    <3>5. CASE {j \in DOMAIN m : 0 < j /\ j < k} # {}
      <4>1. m[k] = At(m, k - 1)  BY <3>2, <3>3, <3>5, RemovedRepeats DEF c
      <4>2. k - 1 \in Nat /\ g <= k - 1  BY <3>2
      <4>3. PICK h \in FloorKeys(m, k - 1) : h = FloorKey(m, k - 1)  BY <1>1, <3>2, <4>2, FloorExists
      <4>4. h \in DOMAIN m /\ h <= k - 1 /\ g <= h  BY <3>2, <4>2, <4>3 DEF FloorKeys
      <4>5. h \in Nat /\ h < k /\ h <= f  BY <1>1, <3>2, <4>4
      <4>6. m[h] = m[g]
        <5> SUFFICES ASSUME m[h] # m[g] PROVE FALSE  OBVIOUS
        <5>1. h \in Differ  BY <4>4, <4>5
        <5>2. k <= h  BY <3>1, <5>1
        <5> QED  BY <3>2, <4>5, <5>2
      <4> QED  BY <3>2, <4>1, <4>3, <4>6 DEF At
    <3> QED  BY <3>4, <3>5
  <2>3. g <= f  BY <1>1, <2>1
  <2>4. m[f] = m[g]
    <3>1. f \notin Differ  BY <2>2
    <3> HIDE DEF Differ
    <3>2. f \in Nat /\ f <= f  BY <1>1, <2>1
    <3> QED  BY <2>1, <2>3, <3>1, <3>2 DEF Differ
  <2> QED  BY <1>1, <2>1, <2>4 DEF At, g, f
<1>3. ASSUME \A t \in Nat : At(c, t) = At(m, t) PROVE FirstFits(m)
  <2> SUFFICES ASSUME NEW k \in DOMAIN m, 0 < k, k < DayLength,
                      {j \in DOMAIN m : 0 < j /\ j < k} = {}, m[k] = 0
               PROVE  m[0] = 0
      BY DEF FirstFits
  <2>1. k \in Nat  BY <1>1
  <2>2. k \notin DOMAIN c  BY <2>1 DEF Compressed
  <2> HIDE DEF c
  <2>3. FloorKey(m, k) = k
    <3>1. k <= k  BY <2>1
    <3> QED  BY <1>1, <2>1, <3>1, FloorIs
  <2>4. FloorKey(c, k) = 0
    <3>1. \A j \in DOMAIN c : j <= k => j <= 0  BY <1>1, <2>1, <2>2
    <3>2. DOMAIN c \subseteq Nat /\ 0 <= k  BY <1>1, <2>1
    <3> QED  BY <1>1, <2>1, <3>1, <3>2, FloorIs
  <2>5. c[0] = m[k]  BY <1>3, <2>1, <2>3, <2>4 DEF At
  <2> QED  BY <1>1, <2>5
<1> QED  BY <1>2, <1>3

LEMMA PlansAreMaps == ASSUME NEW m \in Plans PROVE PowerMap(m, Bounded)
BY DEF Plans, PowerMap

LEMMA DayPowersType ==
    ASSUME NEW power \in DayPowers PROVE PowerMap(power, Power) /\ DOMAIN power \subseteq 0..DayLength
<1>1. PICK f \in [0..(DayLength - 1) -> Power] : power = Put(f, DayLength, 0)  BY DEF DayPowers
<1>2. DayLength \in Nat \ {0}  BY BatterySchedulerAssumption
<1> QED  BY <1>1, <1>2, PowersAreBounded DEF Put, PowerMap

LEMMA PartPowersType ==
    ASSUME NEW last \in 1..DayLength, NEW first \in 0..(last - 1), NEW powers \in PartPowers(first, last)
    PROVE  /\ PowerMap(powers, Power) /\ DOMAIN powers = {first, last}
           /\ first \in Nat /\ last \in Nat /\ first < last /\ last <= DayLength
<1>1. PICK p \in Power : powers = Put(Put(EmptyMap, first, p), last, 0)  BY DEF PartPowers
<1>2. DayLength \in Nat \ {0}  BY BatterySchedulerAssumption
<1>3. first \in Nat /\ last \in Nat /\ first < last /\ last <= DayLength  BY <1>2
<1>4. DOMAIN powers = {first, last} /\ powers[first] = p /\ powers[last] = 0
      BY <1>1, <1>3 DEF Put, EmptyMap
<1> QED  BY <1>3, <1>4, PowersAreBounded DEF PowerMap

LEMMA MergedType ==
    ASSUME NEW m, TaskType(m), NEW powers, PowerMap(powers, Power), DOMAIN powers \subseteq 0..DayLength,
           NEW last \in DOMAIN powers, NEW first,
           NEW ended, ended = Put(powers, last, At(m, last)),
           NEW updated, updated = PutAll(Outside(m, first, last), ended), 0 \in DOMAIN updated
    PROVE  /\ PowerMap(ended, Power) /\ DOMAIN ended = DOMAIN powers
           /\ TaskType(updated)
<1>1. At(m, last) \in Power  BY AtType DEF TaskType, PowerMap
<1>2. PowerMap(ended, Power) /\ DOMAIN ended = DOMAIN powers  BY <1>1 DEF PowerMap, Put
<1>3. DOMAIN Outside(m, first, last) \subseteq DOMAIN m
      /\ \A k \in DOMAIN Outside(m, first, last) : Outside(m, first, last)[k] = m[k]
      BY DEF Outside
<1>4. /\ DOMAIN updated = DOMAIN Outside(m, first, last) \cup DOMAIN ended
      /\ \A k \in DOMAIN updated : updated[k] = IF k \in DOMAIN ended THEN ended[k] ELSE Outside(m, first, last)[k]
      BY DEF PutAll
<1>5. PowerMap(updated, Power) /\ DOMAIN updated \subseteq 0..DayLength
      BY <1>2, <1>3, <1>4 DEF PowerMap, TaskType
<1> QED  BY <1>2, <1>5 DEF TaskType

---------------------------------------------------------------------------
(* The invariant of the types. *)

\* The types of the powers, in memory and in the file.
DataPowers(d) ==
    /\ d.targetSOC \in 0..FullEnergy /\ d.targetSocTime \in 0..MaxTime
    /\ DOMAIN d.flexibilities = DOMAIN d.tasks
    /\ \A id \in DOMAIN d.tasks :
           /\ d.tasks[id].startingTime \in Nat \ {0} /\ d.tasks[id].startingTime % DayLength = 0
           /\ TaskType(d.tasks[id].power)
    /\ ScheduleType(d.scheduledPower)

\* What a call has read before it takes the lock still fits when it has the lock: the task it
\* schedules is still there, since the call takes less than the day the task is kept for.
CallInv ==
    call # None =>
        \/ /\ call.op = "schedule" /\ call.id \in DOMAIN data.tasks
           /\ call.start = data.tasks[call.id].startingTime /\ now <= call.start + DayLength
        \/ /\ call.op = "adapt" /\ call.start \in Nat \ {0} /\ TaskType(call.updated)
           /\ PowerMap(call.powers, Power) /\ DOMAIN call.powers # {}
        \/ call = Saving

DiskInv ==
    /\ DataPowers(file.data) /\ file.whole \in BOOLEAN
    /\ silent \in BOOLEAN /\ failures \in 0..MaxFailures

Counters ==
    /\ now \in DayLength..MaxTime /\ stored \in 0..(FullEnergy * Hour)
    /\ run \in {"idle", "fix", "target", "save"} /\ followed \in Nat /\ events \in 0..MaxEvents
    /\ \A p \in published : p.id \in Nat /\ p.start \in Nat

\* With the invariant of the ids, this is inductive and gives the types.
TypeInv == Counters /\ DataPowers(data) /\ DiskInv /\ CallInv

LEMMA TypeInvTypes == IInv /\ TypeInv => TypeOK
<1> SUFFICES ASSUME IInv, TypeInv PROVE TypeOK  OBVIOUS
<1>1. DayLength \in Nat \ {0} /\ MaxTime \in Nat  BY BatterySchedulerAssumption
<1>2. now \in Nat /\ now \in 0..MaxTime  BY <1>1 DEF TypeInv, Counters
<1>3. ASSUME NEW d, DataType(d), DataPowers(d) PROVE DataOK(d)
  <2>1. FloorKeys(d.scheduledPower, now) # {}
        BY <1>2, <1>3, FloorExists DEF DataPowers, ScheduleType, PowerMap
  <2>2. \A k \in DOMAIN d.scheduledPower :
            k \in Nat /\ Abs(d.scheduledPower[k]) <= Larger(MaxPower, Step)
        BY <1>3 DEF DataPowers, ScheduleType, PowerMap, Bounded
  <2> QED  BY <1>3, <2>1, <2>2 DEF DataOK, DataType, DataPowers, TaskType, PowerMap
<1>4. DataOK(data) /\ DataOK(file.data)  BY <1>3 DEF IInv, FileInv, TypeInv, DiskInv
<1>5. file.whole \in BOOLEAN /\ silent \in BOOLEAN  BY DEF TypeInv, DiskInv
<1>6. call # None => call.op \in {"adapt", "save"} \/ (call.op = "schedule" /\ call.id \in DOMAIN data.tasks)
      BY DEF TypeInv, CallInv, Saving
<1>7. Counters /\ failures \in 0..MaxFailures  BY DEF TypeInv, DiskInv
<1> QED  BY <1>2, <1>4, <1>5, <1>6, <1>7, Zenon DEF TypeOK, Counters

LEMMA NewDataTyped == DataPowers(NewData)
<1>1. DOMAIN Put(EmptyMap, 0, 0) = {0} /\ Put(EmptyMap, 0, 0)[0] = 0  BY DEF Put, EmptyMap
<1>2. ScheduleType(Put(EmptyMap, 0, 0))
      BY <1>1, PowersAreBounded DEF ScheduleType, PowerMap
<1> QED  BY <1>2, BatterySchedulerAssumption DEF NewData, DataPowers, EmptyMap

LEMMA InitTypeInv == Init => TypeInv
<1> SUFFICES ASSUME Init PROVE TypeInv  OBVIOUS
<1> USE BatterySchedulerAssumption DEF Init
<1>2. DataPowers(NewData)  BY NewDataTyped
<1>3. Counters
  <2>1. followed \in Nat /\ run \in {"idle", "fix", "target", "save"} /\ published = {}  OBVIOUS
  <2>2. now \in DayLength..MaxTime /\ events \in 0..MaxEvents  OBVIOUS
  <2>3. stored \in 0..(FullEnergy * Hour)  OBVIOUS
  <2> QED  BY <2>1, <2>2, <2>3, Zenon DEF Counters
<1>4. DiskInv
  <2>1. file.data = NewData /\ file.whole \in BOOLEAN /\ silent \in BOOLEAN  OBVIOUS
  <2>2. failures \in 0..MaxFailures  OBVIOUS
  <2> QED  BY <1>2, <2>1, <2>2, Zenon DEF DiskInv
<1> QED  BY <1>2, <1>3, <1>4 DEF TypeInv, CallInv

---------------------------------------------------------------------------
(* The simple parts. *)

LEMMA ChangedCounts == ASSUME Counters, NEW d, Changed(d) PROVE followed' \in Nat
BY DEF Changed, Counters

LEMMA DiskLeft == ASSUME TypeInv, UNCHANGED disk PROVE DiskInv'
BY DEF TypeInv, DiskInv, disk

LEMMA DiskSaved == ASSUME TypeInv, NEW d, DataPowers(d), CallSaves(d) \/ RunSaves(d) PROVE DiskInv'
<1>1. CASE Truncate(d)
  <2>1. file'.data = d /\ file'.whole \in BOOLEAN  BY <1>1 DEF Truncate
  <2>2. UNCHANGED <<silent, failures>>  BY <1>1 DEF Truncate
  <2> QED  BY <2>1, <2>2 DEF TypeInv, DiskInv
<1>2. CASE Fail
  <2>1. silent' \in BOOLEAN /\ file' = file  BY <1>2 DEF Fail
  <2>2. failures' \in 0..MaxFailures  BY <1>2, BatterySchedulerAssumption DEF Fail, TypeInv, DiskInv
  <2> QED  BY <2>1, <2>2 DEF TypeInv, DiskInv
<1> QED  BY <1>1, <1>2 DEF CallSaves, RunSaves

LEMMA DiskEnded == ASSUME IInv, TypeInv, Close \/ Fail PROVE DiskInv'
<1>1. CASE Close
  <2>1. file'.data = file.data /\ file'.whole = TRUE /\ silent' = FALSE /\ failures' = failures
        BY <1>1 DEF Close, IInv, FileInv
  <2>2. file'.whole \in BOOLEAN /\ silent' \in BOOLEAN  BY <2>1
  <2> QED  BY <2>1, <2>2 DEF TypeInv, DiskInv
<1>2. CASE Fail
  <2>1. silent' \in BOOLEAN /\ file' = file  BY <1>2 DEF Fail
  <2>2. failures' \in 0..MaxFailures  BY <1>2, BatterySchedulerAssumption DEF Fail, TypeInv, DiskInv
  <2> QED  BY <2>1, <2>2 DEF TypeInv, DiskInv
<1> QED  BY <1>1, <1>2

LEMMA EventCounts == ASSUME TypeInv, Event PROVE events' \in 0..MaxEvents
BY BatterySchedulerAssumption DEF TypeInv, Counters, DiskInv, Event

LEMMA CallKept ==
    ASSUME CallInv, SameTasks(data, data'), UNCHANGED <<now, call>> PROVE CallInv'
BY DEF CallInv, SameTasks

LEMMA NoCall == ASSUME call' = None \/ call' = Saving PROVE CallInv'
BY DEF CallInv

LEMMA SavedTyped == ASSUME IInv, TypeInv, CallSaved \/ RunSaved PROVE TypeInv'
<1>1. DiskInv'  BY DiskEnded DEF CallSaved, RunSaved
<1>2. CASE CallSaved
  <2>1. Counters'  BY <1>2 DEF CallSaved, TypeInv, Counters
  <2> QED  BY <1>1, <1>2, <2>1, NoCall DEF CallSaved, TypeInv
<1>3. CASE RunSaved
  <2>1. Counters'  BY <1>3 DEF RunSaved, TypeInv, Counters
  <2>2. CallInv'  BY <1>3 DEF RunSaved, TypeInv, CallInv
  <2> QED  BY <1>1, <1>3, <2>1, <2>2 DEF RunSaved, TypeInv
<1> QED  BY <1>2, <1>3

LEMMA EndScheduleTyped == ASSUME IInv, TypeInv, EndSchedule PROVE TypeInv'
<1> DEFINE power == data.tasks[call.id].power
           merged == PutAll(Outside(data.scheduledPower, call.start, call.start + DayLength),
                            Shifted(power, call.start))
<1>1. /\ call.id \in DOMAIN data.tasks /\ call.start \in Nat \ {0}
      /\ TaskType(power) /\ ScheduleType(data.scheduledPower)
      BY DEF EndSchedule, TypeInv, CallInv, DataPowers, Saving
<1>2. data' = [data EXCEPT !.scheduledPower = merged]  BY DEF EndSchedule, Changed
<1>3. ScheduleType(merged)
  <2>1. PowerMap(power, Bounded)  BY <1>1, PowersAreBounded DEF TaskType, PowerMap
  <2>2. PowerMap(Shifted(power, call.start), Bounded)  BY <1>1, <2>1, ShiftedType
  <2>3. ScheduleType(Outside(data.scheduledPower, call.start, call.start + DayLength))
        BY <1>1, ScheduleOutside
  <2> QED  BY <2>2, <2>3, ScheduleMerge
<1>4. DataPowers(data')
  <2> HIDE DEF merged
  <2>1. /\ data'.scheduledPower = merged /\ data'.tasks = data.tasks
        /\ data'.targetSOC = data.targetSOC /\ data'.targetSocTime = data.targetSocTime
        /\ data'.flexibilities = data.flexibilities
        BY <1>2 DEF IInv, DataType
  <2> QED  BY <1>3, <2>1 DEF TypeInv, DataPowers
<1>5. followed' \in Nat  BY ChangedCounts DEF EndSchedule, TypeInv
<1>6. Counters'  BY <1>5 DEF EndSchedule, TypeInv, Counters
<1>7. CallInv'  BY NoCall DEF EndSchedule, CallSaves
<1>8. DiskInv'  BY <1>4, DiskSaved DEF EndSchedule
<1> QED  BY <1>4, <1>6, <1>7, <1>8 DEF TypeInv

LEMMA EndAdaptTyped == ASSUME IInv, TypeInv, EndAdapt PROVE TypeInv'
<1> DEFINE powers == Shifted(call.powers, call.start)
           first == CHOOSE k \in DOMAIN powers : \A j \in DOMAIN powers : k <= j
           last == CHOOSE k \in DOMAIN powers : Later(powers, k) = {}
           merged == PutAll(Outside(data.scheduledPower, first, last), powers)
           tasks == [id \in DOMAIN data.tasks |->
                        IF id = call.id THEN [data.tasks[id] EXCEPT !.power = Compressed(call.updated)]
                        ELSE data.tasks[id]]
<1>1. /\ call.start \in Nat \ {0} /\ TaskType(call.updated)
      /\ PowerMap(call.powers, Power) /\ DOMAIN call.powers # {}
      BY DEF EndAdapt, TypeInv, CallInv, Saving
<1>2. data' = [data EXCEPT !.tasks = tasks, !.scheduledPower = merged]  BY DEF EndAdapt, Changed
<1>3. PowerMap(powers, Bounded) /\ DOMAIN powers = {j + call.start : j \in DOMAIN call.powers}
  <2>1. PowerMap(call.powers, Bounded)  BY <1>1, PowersAreBounded DEF PowerMap
  <2> QED  BY <1>1, <2>1, ShiftedType
<1>4. first \in Nat \ {0}
  <2>1. DOMAIN powers \in SUBSET Nat /\ DOMAIN powers # {}  BY <1>1, <1>3 DEF PowerMap
  <2>2. \E k \in DOMAIN powers : \A j \in DOMAIN powers : k <= j  BY <2>1, Least
  <2>3. first \in DOMAIN powers  BY <2>2
  <2>4. \A j \in DOMAIN call.powers : j + call.start \in Nat \ {0}  BY <1>1 DEF PowerMap
  <2> QED  BY <1>3, <2>3, <2>4
<1>5. ScheduleType(merged)
  <2> HIDE DEF powers, first, last
  <2>1. ScheduleType(data.scheduledPower)  BY DEF TypeInv, DataPowers
  <2>2. ScheduleType(Outside(data.scheduledPower, first, last))  BY <1>4, <2>1, ScheduleOutside
  <2> QED  BY <1>3, <2>2, ScheduleMerge
<1>6. /\ DOMAIN tasks = DOMAIN data.tasks
      /\ \A id \in DOMAIN tasks : tasks[id].startingTime = data.tasks[id].startingTime
                                  /\ TaskType(tasks[id].power)
  <2>1. TaskType(Compressed(call.updated))  BY <1>1, CompressedType
  <2>2. \A id \in DOMAIN data.tasks : TaskType(data.tasks[id].power)  BY DEF TypeInv, DataPowers
  <2>3. \A id \in DOMAIN data.tasks : {"startingTime", "power"} = DOMAIN data.tasks[id]  BY DEF IInv, DataType
  <2> QED  BY <2>1, <2>2, <2>3
<1>7. DataPowers(data')
  <2> HIDE DEF merged, tasks
  <2>1. /\ data'.scheduledPower = merged /\ data'.tasks = tasks
        /\ data'.targetSOC = data.targetSOC /\ data'.targetSocTime = data.targetSocTime
        /\ data'.flexibilities = data.flexibilities
        BY <1>2 DEF IInv, DataType
  <2> QED  BY <1>5, <1>6, <2>1 DEF TypeInv, DataPowers
<1>8. followed' \in Nat  BY ChangedCounts DEF EndAdapt, TypeInv
<1>9. Counters'  BY <1>8 DEF EndAdapt, TypeInv, Counters
<1>10. CallInv'  BY NoCall DEF EndAdapt
<1>11. DiskInv'  BY DiskLeft DEF EndAdapt
<1> QED  BY <1>7, <1>9, <1>10, <1>11 DEF TypeInv

---------------------------------------------------------------------------
(* Orders and targets keep the types. *)

LEMMA BeginScheduleTyped ==
    ASSUME IInv, TypeInv, NEW id \in DOMAIN data.tasks, NEW power \in DayPowers, BeginSchedule(id, power)
    PROVE  TypeInv'
<1>1. /\ data' = [data EXCEPT !.tasks[id].power = Compressed(power)]
      /\ call' = [op |-> "schedule", id |-> id, start |-> data.tasks[id].startingTime,
                  powers |-> EmptyMap, updated |-> EmptyMap]
      /\ data.tasks[id].startingTime >= now
      /\ UNCHANGED <<now, stored, disk, run, published>>
      BY DEF BeginSchedule, Changed
<1>2. TaskType(Compressed(power))
  <2>1. 0 \in DOMAIN power  BY DEF BeginSchedule, Valid
  <2>2. TaskType(power)  BY <2>1, DayPowersType DEF TaskType
  <2> QED  BY <2>2, CompressedType
<1>3. /\ data'.scheduledPower = data.scheduledPower
      /\ data'.targetSOC = data.targetSOC /\ data'.targetSocTime = data.targetSocTime
      /\ data'.flexibilities = data.flexibilities
      /\ data'.tasks = [data.tasks EXCEPT ![id].power = Compressed(power)]
      BY <1>1 DEF IInv, DataType
<1>4. /\ DOMAIN data'.tasks = DOMAIN data.tasks
      /\ \A i \in DOMAIN data.tasks : /\ data'.tasks[i].startingTime = data.tasks[i].startingTime
                                      /\ TaskType(data'.tasks[i].power)
      BY <1>2, <1>3 DEF IInv, DataType, TypeInv, DataPowers
<1>5. DataPowers(data')  BY <1>3, <1>4 DEF TypeInv, DataPowers
<1>6. CallInv'
  <2>1. data.tasks[id].startingTime \in Nat /\ now \in Nat /\ DayLength \in Nat
        BY BatterySchedulerAssumption DEF TypeInv, DataPowers, IInv
  <2> QED  BY <1>1, <1>4, <2>1 DEF CallInv
<1>7. followed' \in Nat /\ events' \in 0..MaxEvents
      BY ChangedCounts, EventCounts DEF BeginSchedule, Call, TypeInv
<1>8. Counters'  BY <1>1, <1>7 DEF TypeInv, Counters
<1> QED  BY <1>1, <1>5, <1>6, <1>8, DiskLeft DEF TypeInv

LEMMA BeginAdaptTyped ==
    ASSUME IInv, TypeInv, NEW id \in DOMAIN data.tasks, NEW powers,
           NEW f, NEW l, DOMAIN powers = {f, l}, f \in Nat, l \in Nat, f < l, l <= DayLength,
           PowerMap(powers, Power), BeginAdapt(id, powers)
    PROVE  TypeInv'
<1> DEFINE power == data.tasks[id].power
           first == CHOOSE k \in DOMAIN powers : \A j \in DOMAIN powers : k <= j
           last == CHOOSE k \in DOMAIN powers : Later(powers, k) = {}
           ended == Put(powers, last, At(power, last))
           updated == PutAll(Outside(power, first, last), ended)
<1>1. /\ Valid(data.flexibilities[id], updated)
      /\ call' = [op |-> "adapt", id |-> id, start |-> data.tasks[id].startingTime,
                  powers |-> ended, updated |-> updated]
      /\ UNCHANGED <<now, stored, data, disk, run, published, followed>>
      BY DEF BeginAdapt
<1>2. last \in DOMAIN powers
  <2>1. Later(powers, l) = {}  BY DEF Later
  <2> QED  BY <2>1
<1>3. TaskType(power) /\ data.tasks[id].startingTime \in Nat \ {0}  BY DEF TypeInv, DataPowers
<1>4. 0 \in DOMAIN updated  BY <1>1 DEF Valid
<1>5. DOMAIN powers \subseteq 0..DayLength  BY BatterySchedulerAssumption
<1> HIDE DEF power, first, last
<1>6. PowerMap(ended, Power) /\ DOMAIN ended = DOMAIN powers /\ TaskType(updated)
      BY <1>2, <1>3, <1>4, <1>5, MergedType
<1> HIDE DEF ended, updated
<1>7. CallInv'  BY <1>1, <1>3, <1>6 DEF CallInv
<1>8. events' \in 0..MaxEvents  BY EventCounts DEF BeginAdapt, Call, TypeInv
<1>9. Counters'  BY <1>1, <1>8 DEF TypeInv, Counters
<1> QED  BY <1>1, <1>7, <1>9, DiskLeft DEF TypeInv

LEMMA UnscheduleTyped ==
    ASSUME IInv, TypeInv, NEW id, UnscheduleFlexibility(id) PROVE TypeInv'
<1> DEFINE start == data.tasks[id].startingTime
           schedule == Outside(data.scheduledPower, start, start + DayLength)
           none == Put(EmptyMap, 0, 0)
<1>1. /\ data' = [data EXCEPT !.scheduledPower = schedule, !.tasks[id].power = none]
      /\ CallSaves(data') /\ id \in DOMAIN data.tasks
      /\ UNCHANGED <<now, stored, run, published>>
      BY DEF UnscheduleFlexibility, Changed
<1>2. ScheduleType(schedule)
  <2>1. start \in Nat \ {0} /\ ScheduleType(data.scheduledPower)  BY <1>1 DEF TypeInv, DataPowers
  <2> QED  BY <2>1, ScheduleOutside
<1>3. TaskType(none)  BY NoPower
<1> HIDE DEF schedule, none
<1>4. /\ data'.scheduledPower = schedule
      /\ data'.targetSOC = data.targetSOC /\ data'.targetSocTime = data.targetSocTime
      /\ data'.flexibilities = data.flexibilities
      /\ data'.tasks = [data.tasks EXCEPT ![id].power = none]
      /\ data'.idCounter = data.idCounter /\ DOMAIN data' = DOMAIN data
      BY <1>1 DEF IInv, DataType
<1>5. /\ DOMAIN data'.tasks = DOMAIN data.tasks
      /\ \A i \in DOMAIN data.tasks : /\ data'.tasks[i].startingTime = data.tasks[i].startingTime
                                      /\ DOMAIN data'.tasks[i] = DOMAIN data.tasks[i]
                                      /\ TaskType(data'.tasks[i].power)
      BY <1>3, <1>4 DEF IInv, DataType, TypeInv, DataPowers
<1>6. DataPowers(data')  BY <1>2, <1>4, <1>5 DEF TypeInv, DataPowers
<1>7. CallInv'  BY <1>1, NoCall DEF CallSaves
<1>8. followed' \in Nat /\ events' \in 0..MaxEvents
      BY ChangedCounts, EventCounts DEF UnscheduleFlexibility, Call, TypeInv
<1>9. Counters'  BY <1>1, <1>8 DEF TypeInv, Counters
<1>10. DiskInv'  BY <1>1, <1>6, DiskSaved
<1> QED  BY <1>6, <1>7, <1>9, <1>10 DEF TypeInv

LEMMA ScheduleChangeTyped ==
    ASSUME IInv, TypeInv, NEW schedule, ScheduleType(schedule),
           NEW soc \in 0..FullEnergy, NEW time \in 0..MaxTime,
           data' = [data EXCEPT !.targetSOC = soc, !.targetSocTime = time, !.scheduledPower = schedule]
    PROVE  DataPowers(data') /\ SameTasks(data, data')
<1>1. /\ data'.scheduledPower = schedule /\ data'.targetSOC = soc /\ data'.targetSocTime = time
      /\ data'.flexibilities = data.flexibilities /\ data'.tasks = data.tasks
      /\ data'.idCounter = data.idCounter /\ DOMAIN data' = DOMAIN data
      BY DEF IInv, DataType
<1> QED  BY <1>1 DEF TypeInv, DataPowers, SameTasks

LEMMA SchedulePowerTyped ==
    ASSUME IInv, TypeInv, NEW power \in Power, SchedulePower(power) PROVE TypeInv'
<1> DEFINE schedule == Put(data.scheduledPower, now, power)
<1>1. /\ data' = [data EXCEPT !.scheduledPower = schedule]
      /\ UNCHANGED <<now, stored, disk, call, run, published>>
      BY DEF SchedulePower, Changed
<1>2. ScheduleType(schedule)
      BY PowersAreBounded, SchedulePut DEF TypeInv, DataPowers, IInv
<1> HIDE DEF schedule
<1>3. /\ data'.scheduledPower = schedule
      /\ data'.targetSOC = data.targetSOC /\ data'.targetSocTime = data.targetSocTime
      /\ data'.flexibilities = data.flexibilities /\ data'.tasks = data.tasks
      /\ data'.idCounter = data.idCounter /\ DOMAIN data' = DOMAIN data
      BY <1>1 DEF IInv, DataType
<1>4. DataPowers(data') /\ SameTasks(data, data')
      BY <1>2, <1>3 DEF TypeInv, DataPowers, SameTasks
<1>5. CallInv'  BY <1>1, <1>4, CallKept DEF TypeInv
<1>6. followed' \in Nat /\ events' \in 0..MaxEvents
      BY ChangedCounts, EventCounts DEF SchedulePower, Call, TypeInv
<1>7. Counters'  BY <1>1, <1>6 DEF TypeInv, Counters
<1> QED  BY <1>1, <1>4, <1>5, <1>7, DiskLeft DEF TypeInv

LEMMA MeasuredType == ASSUME stored \in Nat PROVE Measured \in Nat
<1>1. Hour * Percent \in Nat \ {0} /\ Percent \in Nat  BY BatterySchedulerAssumption
<1>2. stored \div (Hour * Percent) \in Nat  BY <1>1, Division
<1> QED  BY <1>1, <1>2 DEF Measured

LEMMA WrappedType == ASSUME NEW a \in Int PROVE Wrapped(a) \in Int
<1>1. Limit \in Nat  BY BatterySchedulerAssumption
<1>2. (a + Limit + 1) % (2 * (Limit + 1)) \in Int  BY <1>1
<1> QED  BY <1>1, <1>2 DEF Wrapped

LEMMA ChangeType == ASSUME stored \in Nat, NEW soc \in Int PROVE Change(soc) \in Int
<1>1. (soc - Measured) * 100 * Hour \in Int
  <2>1. soc - Measured \in Int /\ Hour \in Int  BY MeasuredType, BatterySchedulerAssumption
  <2> QED  BY <2>1
<1>2. Wrapped((soc - Measured) * 100 * Hour) \in Int  BY <1>1, WrappedType
<1> QED  BY <1>2, QuotientType DEF Change

LEMMA SetTargetTyped ==
    ASSUME IInv, TypeInv, NEW soc \in 0..FullEnergy, NEW time \in 0..MaxTime, SetTarget(soc, time)
    PROVE  DataPowers(data') /\ SameTasks(data, data') /\ followed' \in Nat
<1> DEFINE plan == Plan(soc, time)
           schedule == IF time > now THEN PutAll(Outside(data.scheduledPower, now, time - 1), plan)
                       ELSE data.scheduledPower
<1>1. data' = [data EXCEPT !.targetSOC = soc, !.targetSocTime = time, !.scheduledPower = schedule]
      BY DEF SetTarget, Changed
<1>2. ScheduleType(schedule)
  <2>1. CASE time > now
    <3>1. now \in Nat \ {0} /\ stored \in Nat /\ time \in Nat /\ soc \in Int
          BY BatterySchedulerAssumption DEF TypeInv, Counters
    <3>2. Change(soc) \in Int  BY <3>1, ChangeType
    <3>3. [at |-> now, rest |-> Change(soc)] \in States(time)
          BY <2>1, <3>1, <3>2 DEF States
    <3>4. Plan(soc, time) = Charging(time)[[at |-> now, rest |-> Change(soc)]]
          BY <2>1 DEF Plan
    <3>5. PowerMap(plan, Bounded)  BY <3>1, <3>3, <3>4, ChargingTyped, PlansAreMaps
    <3>6. ScheduleType(Outside(data.scheduledPower, now, time - 1))
          BY <3>1, ScheduleOutside DEF TypeInv, DataPowers
    <3> HIDE DEF plan
    <3>7. ScheduleType(PutAll(Outside(data.scheduledPower, now, time - 1), plan))
          BY <3>5, <3>6, ScheduleMerge
    <3> QED  BY <2>1, <3>7
  <2>2. CASE ~ (time > now)  BY <2>2 DEF TypeInv, DataPowers
  <2> QED  BY <2>1, <2>2
<1> HIDE DEF plan, schedule
<1>3. DataPowers(data') /\ SameTasks(data, data')  BY <1>1, <1>2, ScheduleChangeTyped
<1>4. followed' \in Nat  BY ChangedCounts DEF SetTarget, TypeInv
<1> QED  BY <1>3, <1>4

LEMMA TargetsTyped ==
    ASSUME IInv, TypeInv, Targets PROVE TypeInv'
<1>1. PICK soc \in {MinEnergy, MaxEnergy}, time \in (now + 1)..MaxTime : SetTargetSoc(soc, time)
      BY DEF Targets
<1>2. soc \in 0..FullEnergy /\ time \in 0..MaxTime
      BY BatterySchedulerAssumption DEF IInv
<1>3. /\ SetTarget(soc, time) /\ UNCHANGED <<now, stored, run, published>> /\ events' \in 0..MaxEvents
      /\ call = None /\ (CallSaves(data') \/ UNCHANGED <<call, disk>>)
      BY <1>1, EventCounts DEF SetTargetSoc, Call, TypeInv
<1>4. DataPowers(data') /\ followed' \in Nat
      BY <1>2, <1>3, SetTargetTyped
<1>5. Counters'  BY <1>3, <1>4 DEF TypeInv, Counters
<1>6. CallInv'  BY <1>3, NoCall DEF CallSaves
<1>7. DiskInv'  BY <1>3, <1>4, DiskSaved, DiskLeft
<1> QED  BY <1>4, <1>5, <1>6, <1>7 DEF TypeInv

LEMMA RunTargetTyped ==
    ASSUME IInv, TypeInv, RunTarget PROVE TypeInv'
<1>1. data.targetSOC \in 0..FullEnergy /\ data.targetSocTime \in 0..MaxTime  BY DEF TypeInv, DataPowers
<1>2. /\ SetTarget(data.targetSOC, data.targetSocTime)
      /\ UNCHANGED <<now, stored, call, published, events>>
      /\ RunSaves(data') \/ (run' = "idle" /\ UNCHANGED disk)
      BY DEF RunTarget
<1>3. DataPowers(data') /\ SameTasks(data, data') /\ followed' \in Nat
      BY <1>1, <1>2, SetTargetTyped
<1>4. run' \in {"idle", "fix", "target", "save"}  BY <1>2 DEF RunSaves
<1>5. Counters'  BY <1>2, <1>3, <1>4 DEF TypeInv, Counters
<1>6. CallInv'  BY <1>2, <1>3, CallKept DEF TypeInv
<1>7. DiskInv'  BY <1>2, <1>3, DiskSaved, DiskLeft
<1> QED  BY <1>3, <1>5, <1>6, <1>7 DEF TypeInv

---------------------------------------------------------------------------
(* Runs, restarts, time and offers keep the types. *)

LEMMA SweepTyped == ASSUME IInv, TypeInv, Sweep PROVE TypeInv'
<1> DEFINE over == {id \in DOMAIN data.tasks : Finished(data.tasks[id].startingTime)}
           tasks == [id \in DOMAIN data.tasks \ over |-> data.tasks[id]]
           flexibilities == [id \in DOMAIN data.flexibilities \ over |-> data.flexibilities[id]]
           schedule == [k \in {j \in DOMAIN data.scheduledPower : ~Swept(j)} |-> data.scheduledPower[k]]
<1>1. /\ data' = [data EXCEPT !.tasks = tasks, !.flexibilities = flexibilities, !.scheduledPower = schedule]
      /\ run' = (IF data.targetSocTime > now /\ data.targetSOC > 0 THEN "target" ELSE "fix")
      /\ UNCHANGED <<now, stored, disk, call, published, events>>
      BY DEF Sweep, Changed
<1>2. /\ data'.tasks = tasks /\ data'.flexibilities = flexibilities /\ data'.scheduledPower = schedule
      /\ data'.targetSOC = data.targetSOC /\ data'.targetSocTime = data.targetSocTime
      BY <1>1 DEF IInv, DataType
<1>3. ScheduleType(schedule)
      BY DEF TypeInv, DataPowers, ScheduleType, PowerMap, Swept
<1>4. DataPowers(data')  BY <1>2, <1>3 DEF TypeInv, DataPowers
<1>5. CallInv'
  <2> SUFFICES ASSUME call # None, call.op = "schedule" 
               PROVE  call.id \in DOMAIN data'.tasks /\ call.start = data'.tasks[call.id].startingTime
      BY <1>1 DEF TypeInv, CallInv
  <2>1. /\ call.id \in DOMAIN data.tasks /\ call.start = data.tasks[call.id].startingTime
        /\ now <= call.start + DayLength
        BY DEF TypeInv, CallInv, Saving
  <2>2. call.start \in Nat /\ now \in Nat /\ DayLength \in Nat
        BY <2>1, BatterySchedulerAssumption DEF TypeInv, DataPowers, IInv
  <2>3. call.id \notin over  BY <2>1, <2>2 DEF Finished
  <2> QED  BY <1>2, <2>1, <2>3
<1>6. followed' \in Nat  BY ChangedCounts DEF Sweep, TypeInv
<1>7. Counters'  BY <1>1, <1>6 DEF TypeInv, Counters
<1> QED  BY <1>1, <1>4, <1>5, <1>7, DiskLeft DEF TypeInv

LEMMA ZeroedTask == ASSUME NEW m, TaskType(m), NEW keys PROVE TaskType(Zeroed(m, keys))
BY PowersAreBounded DEF TaskType, PowerMap, Zeroed

LEMMA ZeroedSchedule == ASSUME NEW m, ScheduleType(m), NEW keys PROVE ScheduleType(Zeroed(m, keys))
BY PowersAreBounded DEF ScheduleType, PowerMap, Zeroed

LEMMA FixedTyped == ASSUME IInv, TypeInv, FixSchedule PROVE TypeInv'
<1> DEFINE d == data
           illegal == Illegal(d.scheduledPower)
           hit(id) == {FloorKey(d.tasks[id].power, t - d.tasks[id].startingTime) :
                          t \in {u \in illegal : id \in TasksAt(d, u, FALSE)}}
           reflected(id) == Zeroed(d.tasks[id].power, hit(id))
           power(id) == IF id \in TasksAt(d, now, FALSE) THEN Compressed(reflected(id)) ELSE reflected(id)
           schedule == Zeroed(d.scheduledPower, {FloorKey(d.scheduledPower, t) : t \in illegal})
           tasks == [id \in DOMAIN d.tasks |-> [d.tasks[id] EXCEPT !.power = power(id)]]
<1>1. /\ data' = [d EXCEPT !.scheduledPower = schedule, !.tasks = tasks]
      /\ RunSaves(data') /\ followed' = 1
      /\ UNCHANGED <<now, stored, call, published, events>>
      BY DEF FixSchedule, Fixed
<1> HIDE DEF illegal
<1>2. \A id \in DOMAIN d.tasks : TaskType(power(id))
  <2> SUFFICES ASSUME NEW id \in DOMAIN d.tasks PROVE TaskType(power(id))  OBVIOUS
  <2>1. TaskType(reflected(id))
    <3> HIDE DEF hit
    <3> QED  BY ZeroedTask DEF TypeInv, DataPowers
  <2> HIDE DEF reflected
  <2> QED  BY <2>1, CompressedType
<1>3. ScheduleType(schedule)  BY ZeroedSchedule DEF TypeInv, DataPowers
<1> HIDE DEF power, schedule
<1>4. /\ DOMAIN tasks = DOMAIN data.tasks
      /\ \A i \in DOMAIN data.tasks : /\ tasks[i].startingTime = data.tasks[i].startingTime
                                      /\ DOMAIN tasks[i] = DOMAIN data.tasks[i]
                                      /\ tasks[i].power = power(i)
      BY DEF IInv, DataType
<1> HIDE DEF tasks
<1>5. /\ data'.tasks = tasks /\ data'.scheduledPower = schedule
      /\ data'.flexibilities = data.flexibilities /\ data'.idCounter = data.idCounter
      /\ data'.targetSOC = data.targetSOC /\ data'.targetSocTime = data.targetSocTime
      /\ DOMAIN data' = DOMAIN data
      BY <1>1 DEF IInv, DataType
<1>6. DataPowers(data')  BY <1>2, <1>3, <1>4, <1>5 DEF TypeInv, DataPowers
<1>7. CallInv'  BY <1>1, <1>4, <1>5, CallKept DEF SameTasks, TypeInv
<1>8. run' \in {"idle", "fix", "target", "save"}  BY <1>1 DEF RunSaves
<1>9. Counters'  BY <1>1, <1>8 DEF TypeInv, Counters
<1>10. DiskInv'  BY <1>1, <1>6, DiskSaved
<1> QED  BY <1>6, <1>7, <1>9, <1>10 DEF TypeInv

LEMMA RestartTyped == ASSUME IInv, TypeInv, Restart PROVE TypeInv'
<1>1. /\ data' = (IF file.whole THEN file.data ELSE NewData)
      /\ silent' = ~file.whole /\ file' = file /\ failures' = failures
      /\ call' = None /\ run' = "idle" /\ followed' = 0
      /\ UNCHANGED <<now, stored>> /\ events' \in 0..MaxEvents
      BY EventCounts DEF Restart, TypeInv
<1>2. DataPowers(data')  BY <1>1, NewDataTyped DEF TypeInv, DiskInv
<1>3. published' \subseteq published
  <2>1. published' = IF ~file.whole THEN {}
                     ELSE IF silent THEN {p \in published : p.id < file.data.idCounter} ELSE published
        BY DEF Restart
  <2> QED  BY <2>1
<1>4. Counters'  BY <1>1, <1>3 DEF TypeInv, Counters
<1>5. DiskInv'
  <2>1. silent' \in BOOLEAN  BY <1>1, Zenon
  <2> QED  BY <1>1, <2>1 DEF TypeInv, DiskInv
<1> QED  BY <1>1, <1>2, <1>4, <1>5, NoCall DEF TypeInv

LEMMA TickTyped == ASSUME IInv, TypeInv, Tick PROVE TypeInv'
<1>1. /\ now < MaxTime /\ now' = now + 1
      /\ call # None /\ call.op = "schedule" => now < call.start + DayLength
      /\ stored' = Larger(0, Smaller(FullEnergy * Hour, stored + At(data.scheduledPower, now)))
      /\ followed' = (IF followed > 0 /\ now' \in DOMAIN data.scheduledPower THEN followed + 1 ELSE followed)
      /\ UNCHANGED <<data, disk, call, run, published, events>>
      BY DEF Tick
<1>2. /\ now \in Nat /\ DayLength \in Nat /\ MaxTime \in Nat /\ FullEnergy * Hour \in Nat
      /\ stored \in Int /\ followed \in Nat
      BY BatterySchedulerAssumption DEF IInv, TypeInv, Counters
<1>3. At(data.scheduledPower, now) \in Int
      BY <1>2, AtType DEF TypeInv, DataPowers, ScheduleType, Bounded
<1>4. stored' \in 0..(FullEnergy * Hour) /\ followed' \in Nat
  <2>1. \A full \in Nat, v \in Int : Larger(0, Smaller(full, v)) \in 0..full
        BY DEF Larger, Smaller
  <2>2. stored + At(data.scheduledPower, now) \in Int  BY <1>2, <1>3
  <2>3. stored' \in 0..(FullEnergy * Hour)  BY <1>1, <1>2, <2>1, <2>2
  <2> QED  BY <1>1, <1>2, <2>3
<1>5. now' \in DayLength..MaxTime  BY <1>1, <1>2 DEF TypeInv, Counters
<1>6. Counters'  BY <1>1, <1>4, <1>5 DEF TypeInv, Counters
<1>7. CallInv'
  <2> SUFFICES ASSUME call # None, call.op = "schedule" PROVE now' <= call.start + DayLength
      BY <1>1 DEF TypeInv, CallInv
  <2>1. call.start \in Nat  BY DEF TypeInv, CallInv, DataPowers, Saving
  <2> QED  BY <1>1, <1>2, <2>1
<1> QED  BY <1>1, <1>6, <1>7, DiskLeft DEF TypeInv

LEMMA DriftTyped == ASSUME IInv, TypeInv, Drift PROVE TypeInv'
<1>1. /\ stored' \in 0..(FullEnergy * Hour) /\ followed' = 0 /\ events' \in 0..MaxEvents
      /\ UNCHANGED <<now, data, disk, call, run, published>>
      BY EventCounts DEF Drift, TypeInv
<1>2. Counters'  BY <1>1 DEF TypeInv, Counters
<1> QED  BY <1>1, <1>2, DiskLeft DEF TypeInv, CallInv

LEMMA AddedTyped ==
    ASSUME NEW d, DataType(d), DataPowers(d), NEW t \in Nat, t >= DayLength, NEW b \in BOOLEAN
    PROVE  DataPowers(WithTaskAt(d, t, b))
<1>1. CASE TasksAt(d, t, b) # {}  BY <1>1 DEF WithTaskAt
<1>2. CASE TasksAt(d, t, b) = {}
  <2> DEFINE start == StartOf(t)
             task == [startingTime |-> start, power |-> Put(EmptyMap, 0, 0)]
             flexibility == Offered(d, start)
             schedule == Put(d.scheduledPower, start, 0)
             e == AddedForDay(d, t)
  <2>1. start \in Nat \ {0} /\ start % DayLength = 0
        BY BatterySchedulerAssumption, DayArithmetic, StartDivisible
  <2>2. TaskType(task.power) /\ task.startingTime = start  BY NoPower
  <2>3. ScheduleType(schedule)
        BY <2>1, PowersAreBounded, SchedulePut DEF DataPowers
  <2> HIDE DEF start, flexibility, task, schedule
  <2>4. /\ e.tasks = Put(d.tasks, d.idCounter, task)
        /\ e.flexibilities = Put(d.flexibilities, d.idCounter, flexibility)
        /\ e.scheduledPower = schedule
        /\ e.targetSOC = d.targetSOC /\ e.targetSocTime = d.targetSocTime
        BY DEF AddedForDay, DataType, start, flexibility, task, schedule
  <2> HIDE DEF e
  <2>5. DOMAIN e.tasks = DOMAIN e.flexibilities
        BY <2>4 DEF DataPowers, Put
  <2>6. \A id \in DOMAIN e.tasks :
            \/ e.tasks[id] = task
            \/ id \in DOMAIN d.tasks /\ e.tasks[id] = d.tasks[id]
        BY <2>4 DEF Put
  <2>7. DataPowers(e)  BY <2>1, <2>2, <2>3, <2>4, <2>5, <2>6 DEF DataPowers
  <2> QED  BY <1>2, <2>7 DEF WithTaskAt, e
<1> QED  BY <1>1, <1>2

LEMMA GetScheduleTyped ==
    ASSUME IInv, TypeInv, NEW from \in Nat, NEW to \in Nat, from >= DayLength, to >= DayLength,
           GetSchedule(from, to)
    PROVE  TypeInv'
<1> DEFINE one == WithTaskAt(data, from, FALSE)
           added == WithTaskAt(one, to, TRUE)
           start(id) == added.tasks[id].startingTime
<1>1. DataType(added) /\ DataPowers(added)
  <2>0. from \in Int /\ to \in Int  OBVIOUS
  <2>1. Grown(data, one)  BY <2>0, WithTaskGrows DEF IInv
  <2>2. DataPowers(one)  BY AddedTyped DEF IInv, TypeInv
  <2> HIDE DEF one
  <2>3. Grown(one, added)  BY <2>0, <2>1, WithTaskGrows DEF Grown
  <2>4. DataPowers(added)  BY <2>1, <2>2, AddedTyped DEF Grown
  <2> QED  BY <2>3, <2>4 DEF Grown
<1>2. PICK first \in TasksAt(added, from, FALSE), last \in TasksAt(added, to, TRUE) :
          /\ Changed([added EXCEPT !.flexibilities =
                 [id \in DOMAIN @ |->
                     IF id = first THEN Polled(added, start(id))
                     ELSE IF id = last THEN PolledLater(added, @[id], start(id)) ELSE @[id]]])
          /\ IF added.idCounter = data.idCounter THEN UNCHANGED <<call, disk>>
             ELSE CallSaves(SavedAfter(added))
          /\ published' = published \cup {[id |-> id, start |-> start(id)] : id \in {first, last}}
      BY DEF GetSchedule
<1>3. call = None /\ UNCHANGED <<now, stored, run>> /\ events' \in 0..MaxEvents
      BY EventCounts DEF GetSchedule, Call, TypeInv
<1> HIDE DEF added
<1> DEFINE flexibilities ==
               [id \in DOMAIN added.flexibilities |->
                     IF id = first THEN Polled(added, start(id))
                     ELSE IF id = last THEN PolledLater(added, added.flexibilities[id], start(id))
                     ELSE added.flexibilities[id]]
<1>4. /\ data' = [added EXCEPT !.flexibilities = flexibilities]
      /\ DOMAIN flexibilities = DOMAIN added.flexibilities
      BY <1>2 DEF Changed
<1> HIDE DEF flexibilities
<1>5. /\ data'.flexibilities = flexibilities /\ data'.tasks = added.tasks
      /\ data'.scheduledPower = added.scheduledPower
      /\ data'.targetSOC = added.targetSOC /\ data'.targetSocTime = added.targetSocTime
      BY <1>1, <1>4 DEF DataType
<1>6. DataPowers(data')  BY <1>1, <1>4, <1>5 DEF DataPowers
<1>7. DiskInv'
  <2>1. UNCHANGED disk \/ CallSaves(added)  BY <1>2 DEF SavedAfter
  <2> QED  BY <1>1, <2>1, DiskLeft, DiskSaved
<1>8. \A p \in published' : p.id \in Nat /\ p.start \in Nat
  <2>1. first \in DOMAIN added.tasks /\ last \in DOMAIN added.tasks  BY DEF TasksAt
  <2>2. \A id \in DOMAIN added.tasks : id \in Nat /\ start(id) \in Nat
        BY <1>1 DEF DataType, DataPowers
  <2>3. \A p \in published : p.id \in Nat /\ p.start \in Nat  BY DEF TypeInv, Counters
  <2> QED  BY <1>2, <2>1, <2>2, <2>3
<1>9. followed' \in Nat  BY <1>2, ChangedCounts DEF TypeInv
<1>10. Counters'  BY <1>3, <1>8, <1>9 DEF TypeInv, Counters
<1>11. CallInv'  BY <1>2, <1>3, NoCall DEF CallSaves
<1> QED  BY <1>6, <1>7, <1>10, <1>11 DEF TypeInv

LEMMA OffersTyped == ASSUME IInv, TypeInv, Offers PROVE TypeInv'
<1>1. PICK from \in {now, StartOf(now) + DayLength},
           to \in {StartOf(now) + n * DayLength : n \in 1..3} : GetSchedule(from, to)
      BY DEF Offers
<1>2. now \in Nat /\ now >= DayLength /\ DayLength \in Nat \ {0}
      BY BatterySchedulerAssumption DEF IInv, TypeInv, Counters
<1>3. StartOf(now) \in Nat
  <2>1. StartOf(now) \in Int /\ now < StartOf(now) + DayLength  BY <1>2, DayArithmetic
  <2> QED  BY <1>2, <2>1
<1>4. \A n \in 1..3 : n * DayLength \in Nat /\ n * DayLength >= DayLength  BY <1>2
<1>5. from \in Nat /\ from >= DayLength  BY <1>2, <1>3
<1>6. to \in Nat /\ to >= DayLength
  <2>1. PICK n \in 1..3 : to = StartOf(now) + n * DayLength  BY <1>1
  <2> QED  BY <1>2, <1>3, <1>4, <2>1
<1> QED  BY <1>1, <1>5, <1>6, GetScheduleTyped

LEMMA OrdersTyped == ASSUME IInv, TypeInv, Orders PROVE TypeInv'
<1>1. PICK id \in DOMAIN data.tasks :
          \/ \E power \in DayPowers : BeginSchedule(id, power)
          \/ \E last \in 1..DayLength : \E first \in 0..(last - 1) :
                 \E powers \in PartPowers(first, last) : BeginAdapt(id, powers)
          \/ UnscheduleFlexibility(id)
      BY DEF Orders
<1>2. ASSUME NEW last \in 1..DayLength, NEW first \in 0..(last - 1),
             NEW powers \in PartPowers(first, last), BeginAdapt(id, powers)
      PROVE  TypeInv'
  <2>1. /\ PowerMap(powers, Power) /\ DOMAIN powers = {first, last}
        /\ first \in Nat /\ last \in Nat /\ first < last /\ last <= DayLength
        BY PartPowersType
  <2> QED  BY <1>2, <2>1, BeginAdaptTyped
<1> QED  BY <1>1, <1>2, BeginScheduleTyped, UnscheduleTyped

LEMMA NextTypeInv == ASSUME IInv, TypeInv, [Next]_vars PROVE TypeInv'
<1>1. CASE Offers  BY <1>1, OffersTyped
<1>2. CASE Orders  BY <1>2, OrdersTyped
<1>3. CASE EndSchedule  BY <1>3, EndScheduleTyped
<1>4. CASE EndAdapt  BY <1>4, EndAdaptTyped
<1>5. CASE Targets  BY <1>5, TargetsTyped
<1>6. CASE Powers  BY <1>6, SchedulePowerTyped DEF Powers
<1>7. CASE CallSaved  BY <1>7, SavedTyped
<1>8. CASE Run  BY <1>8, SweepTyped, RunTargetTyped, FixedTyped, SavedTyped DEF Run
<1>9. CASE Restart  BY <1>9, RestartTyped
<1>10. CASE Tick  BY <1>10, TickTyped
<1>11. CASE Drift  BY <1>11, DriftTyped
<1>12. CASE UNCHANGED vars
  <2>1. DiskInv'  BY <1>12, DiskLeft DEF vars
  <2> QED  BY <1>12, <2>1 DEF vars, TypeInv, Counters, CallInv
<1> QED  BY <1>1, <1>2, <1>3, <1>4, <1>5, <1>6, <1>7, <1>8, <1>9, <1>10, <1>11, <1>12 DEF Next

\* The inductive invariant of the types: in memory and in the file every power is within its
\* bound and the schedule has its entry at 0, and an order that waits for the lock knows its
\* task, with powers of that task's day.
THEOREM TypesInvariance == Spec => [](IInv /\ TypeInv)
<1>1. Init => IInv /\ TypeInv  BY InitIInv, InitTypeInv
<1>2. IInv /\ TypeInv /\ [Next]_vars => (IInv /\ TypeInv)'  BY NextIInv, NextTypeInv
<1> QED  BY <1>1, <1>2, PTL DEF Spec

\* TypeOK, and with it that there is always a power in force: no sweep, order, repair or
\* restart leaves the schedule without an entry up to now.
THEOREM PowerInForce == Spec => []TypeOK
BY TypesInvariance, TypeInvTypes, PTL

---------------------------------------------------------------------------
(* A repaired schedule stays within the bounds. *)

\* The energies e that fixSchedule expects are those of a schedule that is followed from the
\* time t on until its next entry, and do not lead out of the bounds there.
FollowedAt(s, e, t) ==
    /\ e[t] \in Int
    /\ Later(s, t) # {} => e[NextKey(s, t)] = After(s, e[t], t) /\ ~ Leads(s, e[t], t)
Within(s, t0, e) == \A t \in {t0} \cup Later(s, t0) : FollowedAt(s, e, t)

\* The energy x, in Ws, that the battery holds beyond what is expected, when that was rounded n
\* times and began with a measurement.
Near(x, n) == -(n * (Hour - 1)) <= x /\ x <= n * (Hour - 1) + (Percent * Hour - 1)

\* While the schedule is as the last repair has left it, the battery holds about what the
\* repair has expected: the entry in force was followed from the time b on.  This is inductive:
\* every entry rounds once, and what changes the schedule clears followed.
LegalInv ==
    followed > 0 /\ Later(data.scheduledPower, now) # {} =>
        \E b \in 0..now : \E e :
            LET s == data.scheduledPower
            IN  /\ Later(s, b) = Later(s, now)
                /\ Within(s, b, e)
                /\ Near(stored - Hour * e[b] - (now - b) * At(s, b), followed - 1)

LEMMA TimesAfter ==
    ASSUME NEW s, ScheduleType(s), now \in Nat, NEW t \in Times(s), t # now
    PROVE  LET before == CHOOSE k \in Times(s) : k < t /\ \A j \in Times(s) : j < t => j <= k
           IN  /\ before \in Times(s) /\ before < t /\ \A j \in Times(s) : j < t => j <= before
               /\ Later(s, before) # {} /\ NextKey(s, before) = t
<1> DEFINE before == CHOOSE k \in Times(s) : k < t /\ \A j \in Times(s) : j < t => j <= k
           T == {k \in Times(s) : k < t}
<1>1. Times(s) \subseteq Nat /\ now \in Times(s) /\ \A k \in Times(s) : now <= k
      BY DEF ScheduleType, PowerMap, Times, Later
<1>2. t \in DOMAIN s /\ t \in Nat /\ now < t  BY <1>1 DEF Times, Later
<1>3. T \in SUBSET (0..t) /\ T # {}  BY <1>1, <1>2
<1>4. PICK x \in T : \A y \in T : y <= x  BY <1>2, <1>3, Greatest
<1>5. before \in Times(s) /\ before < t /\ \A j \in Times(s) : j < t => j <= before
      BY <1>4
<1> HIDE DEF before
<1>6. before \in Nat /\ t \in Later(s, before)  BY <1>1, <1>2, <1>5 DEF Later
<1>7. NextKey(s, before) \in Later(s, before) /\ \A j \in Later(s, before) : NextKey(s, before) <= j
      BY <1>6, NextExists DEF ScheduleType, PowerMap
<1>8. Later(s, before) \subseteq Times(s) /\ Later(s, before) \subseteq Nat
  <2>1. ASSUME NEW k \in Later(s, before) PROVE k \in Times(s) /\ k \in Nat
    <3>1. k \in DOMAIN s /\ k > before /\ k \in Nat  BY DEF Later, ScheduleType, PowerMap
    <3>2. now <= before  BY <1>1, <1>5
    <3>3. k > now  BY <1>6, <3>1, <3>2
    <3> QED  BY <3>1, <3>3 DEF Times, Later
  <2> QED  BY <2>1
<1>9. NextKey(s, before) \in Times(s) /\ NextKey(s, before) \in Nat /\ NextKey(s, before) > before
      /\ NextKey(s, before) <= t
      BY <1>6, <1>7, <1>8 DEF Later
<1>10. NextKey(s, before) = t  BY <1>2, <1>5, <1>6, <1>9
<1> QED  BY <1>5, <1>6, <1>10 DEF before

LEMMA AfterType ==
    ASSUME NEW s, ScheduleType(s), NEW t \in Nat, Later(s, t) # {}, NEW e \in Int
    PROVE  After(s, e, t) \in Int
<1>1. NextKey(s, t) \in Later(s, t)  BY NextExists DEF ScheduleType, PowerMap
<1>2. NextKey(s, t) \in Nat  BY <1>1 DEF Later, ScheduleType, PowerMap
<1>3. At(s, t) \in Int  BY AtType DEF ScheduleType, Bounded
<1>4. (NextKey(s, t) - t) * At(s, t) \in Int  BY <1>2, <1>3
<1>5. Taken(s, t) \in Int  BY <1>4, QuotientType, BatterySchedulerAssumption DEF Taken
<1> QED  BY <1>5 DEF After

LEMMA EnergyTyped ==
    ASSUME NEW s, ScheduleType(s), now \in Nat, stored \in Nat, NEW t \in Times(s), NEW g,
           \A k \in Times(s) : k < t => g[k] \in Int
    PROVE  EnergyAt(s, g, t) \in Int
<1> DEFINE before == CHOOSE k \in Times(s) : k < t /\ \A j \in Times(s) : j < t => j <= k
<1>1. CASE t = now  BY <1>1, MeasuredType DEF EnergyAt
<1>2. CASE t # now
  <2>1. before \in Times(s) /\ before < t /\ Later(s, before) # {}  BY <1>2, TimesAfter
  <2>2. g[before] \in Int  BY <2>1
  <2>3. before \in Nat  BY <2>1 DEF Times, Later, ScheduleType, PowerMap
  <2>4. After(s, g[before], before) \in Int  BY <2>1, <2>2, <2>3, AfterType
  <2>5. EnergyAt(s, g, t) = IF Leads(s, g[before], before) THEN g[before] ELSE After(s, g[before], before)
        BY <1>2 DEF EnergyAt
  <2> HIDE DEF before
  <2> QED  BY <2>2, <2>4, <2>5
<1> QED  BY <1>1, <1>2

\* The energy at a time depends on that at the time before: a recursion by time.
LEMMA EnergyLooksBack ==
    ASSUME NEW s, ScheduleType(s), now \in Nat, NEW t \in Times(s), NEW g, NEW h,
           \A k \in Times(s) : k < t => g[k] = h[k]
    PROVE  EnergyAt(s, g, t) = EnergyAt(s, h, t)
<1> DEFINE before == CHOOSE k \in Times(s) : k < t /\ \A j \in Times(s) : j < t => j <= k
<1>1. CASE t = now  BY <1>1 DEF EnergyAt
<1>2. CASE t # now
  <2>1. before \in Times(s) /\ before < t  BY <1>2, TimesAfter
  <2>2. g[before] = h[before]  BY <2>1
  <2> QED  BY <2>2 DEF EnergyAt
<1> QED  BY <1>1, <1>2

LEMMA EnergyFunction ==
    ASSUME NEW s, NEW f, f = [t \in Times(s) |-> EnergyAt(s, f, t)]
    PROVE  RepairedEnergy(s) = [t \in Times(s) |-> EnergyAt(s, RepairedEnergy(s), t)]
BY DEF RepairedEnergy

LEMMA EnergyEquation ==
    ASSUME NEW s, ScheduleType(s), now \in Nat, stored \in Nat
    PROVE  \A t \in Times(s) : /\ RepairedEnergy(s)[t] = EnergyAt(s, RepairedEnergy(s), t)
                               /\ RepairedEnergy(s)[t] \in Int
<1> DEFINE S == Times(s)
           rank == [t \in S |-> t]
           D == [g \in [S -> Int] |-> [t \in S |-> EnergyAt(s, g, t)]]
           E == RepairedEnergy(s)
<1>1. S \subseteq Nat  BY DEF Times, Later, ScheduleType, PowerMap
<1>2. rank \in [S -> Nat]  BY <1>1
<1>3. D \in [[S -> Int] -> [S -> Int]]
  <2>1. ASSUME NEW g \in [S -> Int], NEW t \in S PROVE EnergyAt(s, g, t) \in Int  BY EnergyTyped
  <2> QED  BY <2>1
<1>4. ASSUME NEW g \in [S -> Int], NEW h \in [S -> Int], NEW x \in S,
             \A y \in S : rank[y] < rank[x] => g[y] = h[y]
      PROVE  D[g][x] = D[h][x]
  <2>1. \A y \in S : y < x => g[y] = h[y]  BY <1>4
  <2> QED  BY <2>1, EnergyLooksBack
<1>5. Solvable(S, Int, D)
  <2> HIDE DEF S, rank, D
  <2>1. 0 \in Int  OBVIOUS
  <2>2. Recursion(S, Int, rank, D)  BY <2>1, <1>2, <1>3, <1>4 DEF Recursion
  <2> QED  BY <2>2, Fixpoint
<1>6. PICK f \in [S -> Int] : f = [t \in S |-> EnergyAt(s, f, t)]  BY <1>5 DEF Solvable
<1>7. E = [t \in S |-> EnergyAt(s, E, t)]  BY <1>6, EnergyFunction
<1> HIDE DEF E
<1> DEFINE T == {t \in S : E[t] \notin Int}
<1>8. T = {}
  <2> SUFFICES ASSUME T # {} PROVE FALSE  OBVIOUS
  <2>1. PICK t \in T : \A k \in T : t <= k  BY <1>1, Least
  <2>2. ASSUME NEW k \in S, k < t PROVE E[k] \in Int
    <3>1. k \in Nat /\ t \in Nat  BY <1>1
    <3>2. k \notin T  BY <2>1, <2>2, <3>1
    <3> QED  BY <3>2
  <2>3. EnergyAt(s, E, t) \in Int  BY <2>2, EnergyTyped
  <2> QED  BY <1>7, <2>3
<1> QED  BY <1>7, <1>8 DEF E

\* The arithmetic of a measurement, and of an entry that is followed: what it takes is rounded
\* off by less than a watt hour.
LEMMA MeasuredNear == ASSUME stored \in Nat PROVE Measured \in Nat /\ Near(stored - Hour * Measured, 0)
<1> DEFINE b == Hour * Percent
           q == stored \div b
<1>1. Hour \in Nat \ {0} /\ Percent \in Nat \ {0} /\ b \in Nat \ {0} /\ b = Percent * Hour
      BY BatterySchedulerAssumption
<1>2. q \in Nat /\ b * q <= stored /\ stored < b * q + b
  <2> HIDE DEF b
  <2> QED  BY <1>1, Division
<1>3. Measured = q * Percent /\ Measured \in Nat  BY <1>1, <1>2 DEF Measured
<1> HIDE DEF q
<1>4. Hour * (q * Percent) = b * q  BY <1>1, <1>2
<1>5. b * q \in Nat  BY <1>1, <1>2
<1>6. 0 * (Hour - 1) = 0  BY <1>1
<1>7. Hour * Measured = b * q  BY <1>3, <1>4
<1> HIDE DEF b
<1>8. 0 <= stored - b * q /\ stored - b * q <= b - 1  BY <1>1, <1>2, <1>5
<1>9. -(0 * (Hour - 1)) <= stored - Hour * Measured
      BY <1>6, <1>7, <1>8
<1>10. stored - Hour * Measured <= 0 * (Hour - 1) + (Percent * Hour - 1)
       BY <1>1, <1>6, <1>7, <1>8
<1> QED  BY <1>3, <1>9, <1>10 DEF Near

LEMMA RoundedOff ==
    ASSUME NEW a \in Int
    PROVE  /\ Quotient(a, Hour) \in Int
           /\ a - Hour * Quotient(a, Hour) \in -(Hour - 1)..(Hour - 1)
<1>1. Hour \in Nat \ {0}  BY BatterySchedulerAssumption
<1>2. Quotient(a, Hour) \in Int  BY <1>1, QuotientType
<1>3. Remainder(a, Hour) \in -(Hour - 1)..(Hour - 1)
  <2>1. a >= 0 => Remainder(a, Hour) \in 0..(Hour - 1)  BY <1>1, RemainderBounds
  <2>2. a < 0 => Remainder(a, Hour) \in -(Hour - 1)..0  BY <1>1, RemainderBounds
  <2>3. a >= 0 \/ a < 0  OBVIOUS
  <2> QED  BY <1>1, <2>1, <2>2, <2>3
<1> QED  BY <1>2, <1>3 DEF Remainder

\* Up to every time before its end an entry that does not lead out stays about in the bounds.
LEMMA LegalStretch ==
    ASSUME NEW e \in Int, NEW p \in Int, NEW k \in Nat, NEW m \in Nat, k <= m,
           ~ LeadsOut(e, e + Quotient(m * p, Hour), p)
    PROVE  /\ p > 0 => Hour * e + k * p <= Hour * MaxEnergy + (Hour - 1)
           /\ p < 0 => Hour * e + k * p >= Hour * MinEnergy - (Hour - 1)
<1> DEFINE a == m * p
           q == Quotient(a, Hour)
           j == m - k
<1>1. Hour \in Nat \ {0} /\ MaxEnergy \in Nat /\ MinEnergy \in Nat  BY BatterySchedulerAssumption
<1>2. a \in Int /\ q \in Int /\ a - Hour * q \in -(Hour - 1)..(Hour - 1)
  <2>1. a \in Int  OBVIOUS
  <2> HIDE DEF a
  <2> QED  BY <2>1, RoundedOff
<1>3. a = k * p + j * p /\ j \in Nat /\ k * p \in Int /\ j * p \in Int
  <2>1. j \in Nat /\ m = k + j  OBVIOUS
  <2> HIDE DEF j
  <2>2. (k + j) * p = k * p + j * p  BY <2>1
  <2> QED  BY <2>1, <2>2
<1>4. ~ LeadsOut(e, e + q, p)  OBVIOUS
<1> HIDE DEF a, q, j
<1>5. Hour * (e + q) = Hour * e + Hour * q /\ Hour * e \in Int /\ Hour * q \in Int  BY <1>1, <1>2
<1>6. ASSUME p > 0 PROVE Hour * e + k * p <= Hour * MaxEnergy + (Hour - 1)
  <2>1. e + q <= MaxEnergy  BY <1>1, <1>2, <1>4, <1>6 DEF LeadsOut
  <2>2. Hour * (e + q) <= Hour * MaxEnergy  BY <1>1, <1>2, <2>1
  <2>3. j * p >= 0  BY <1>3, <1>6
  <2>4. Hour * MaxEnergy \in Int  BY <1>1
  <2>5. a <= Hour * q + (Hour - 1)  BY <1>1, <1>2, <1>5
  <2> QED  BY <1>1, <1>2, <1>3, <1>5, <2>2, <2>3, <2>4, <2>5
<1>7. ASSUME p < 0 PROVE Hour * e + k * p >= Hour * MinEnergy - (Hour - 1)
  <2>1. e + q >= MinEnergy  BY <1>1, <1>2, <1>4, <1>7 DEF LeadsOut
  <2>2. Hour * (e + q) >= Hour * MinEnergy  BY <1>1, <1>2, <2>1
  <2>3. j * p <= 0  BY <1>3, <1>7
  <2>4. Hour * MinEnergy \in Int  BY <1>1
  <2>5. a >= Hour * q - (Hour - 1)  BY <1>1, <1>2, <1>5
  <2> QED  BY <1>1, <1>2, <1>3, <1>5, <2>2, <2>3, <2>4, <2>5
<1> QED  BY <1>6, <1>7

\* The energies that fixSchedule expects are those of the schedule it leaves behind: where a
\* power was replaced by 0, the energy stays what it was.
LEMMA FixMakesWithin ==
    ASSUME IInv, TypeInv, FixSchedule
    PROVE  LET s == data.scheduledPower
               r == data'.scheduledPower
           IN  /\ Within(r, now, RepairedEnergy(s)) /\ RepairedEnergy(s)[now] = Measured
               /\ ScheduleType(r)
<1> DEFINE s == data.scheduledPower
           illegal == Illegal(s)
           floors == {FloorKey(s, t) : t \in illegal}
           r == Zeroed(s, floors)
           e == RepairedEnergy(s)
<1>1. ScheduleType(s) /\ now \in Nat /\ stored \in Nat  BY DEF IInv, TypeInv, DataPowers, Counters
<1>2. data'.scheduledPower = r
      BY DEF FixSchedule, Fixed, IInv, DataType
<1>3. \A t \in Times(s) : e[t] = EnergyAt(s, e, t) /\ e[t] \in Int  BY <1>1, EnergyEquation
<1>4. \A t \in Times(s) : t \in illegal <=> Later(s, t) # {} /\ Leads(s, e[t], t)
      BY DEF Illegal, Followed
<1>5. illegal \subseteq Times(s)  BY DEF Illegal, Followed
<1> HIDE DEF illegal, e
<1>6. DOMAIN r = DOMAIN s  BY DEF Zeroed
<1>7. /\ \A t : Later(r, t) = Later(s, t) /\ NextKey(r, t) = NextKey(s, t)
      /\ \A t : FloorKey(r, t) = FloorKey(s, t)
      /\ Times(r) = Times(s)
      BY <1>6 DEF Later, NextKey, FloorKey, FloorKeys, Times
<1>8. \A t \in Times(s) : FloorKey(s, t) \in DOMAIN s /\ (t # now => FloorKey(s, t) = t) /\ FloorKey(s, now) <= now
  <2> SUFFICES ASSUME NEW t \in Times(s)
               PROVE  FloorKey(s, t) \in DOMAIN s /\ (t # now => FloorKey(s, t) = t) /\ FloorKey(s, now) <= now
      OBVIOUS
  <2>1. t \in Nat /\ (t # now => t \in DOMAIN s)  BY <1>1 DEF Times, Later, ScheduleType, PowerMap
  <2>2. FloorKey(s, t) \in FloorKeys(s, t) /\ FloorKey(s, now) \in FloorKeys(s, now)
        BY <1>1, <2>1, FloorExists DEF ScheduleType, PowerMap
  <2>3. FloorKey(s, t) \in Nat  BY <1>1, <2>2 DEF FloorKeys, ScheduleType, PowerMap
  <2> QED  BY <1>1, <2>1, <2>2, <2>3 DEF FloorKeys
<1>9. \A t \in Times(s) : At(r, t) = IF t \in illegal THEN 0 ELSE At(s, t)
  <2> SUFFICES ASSUME NEW t \in Times(s) PROVE At(r, t) = IF t \in illegal THEN 0 ELSE At(s, t)
      OBVIOUS
  <2>1. At(r, t) = IF FloorKey(s, t) \in floors THEN 0 ELSE At(s, t)
        BY <1>6, <1>7, <1>8 DEF At, Zeroed
  <2>2. FloorKey(s, t) \in floors => t \in illegal
    <3> SUFFICES ASSUME NEW u \in illegal, FloorKey(s, u) = FloorKey(s, t) PROVE t = u
        OBVIOUS
    <3>1. u \in Times(s) /\ (u = now \/ u > now) /\ (t = now \/ t > now) /\ u \in Int /\ t \in Int
          BY <1>1, <1>5 DEF Times, Later, ScheduleType, PowerMap
    <3> QED  BY <1>1, <1>8, <3>1
  <2> QED  BY <2>1, <2>2
<1>10. e[now] = Measured  BY <1>3 DEF EnergyAt, Times
<1>11. ASSUME NEW t \in Times(s), Later(s, t) # {}
       PROVE  e[NextKey(s, t)] = After(r, e[t], t) /\ ~ Leads(r, e[t], t)
  <2> DEFINE n == NextKey(s, t)
             before == CHOOSE k \in Times(s) : k < n /\ \A j \in Times(s) : j < n => j <= k
  <2>1. t \in Nat /\ now <= t  BY <1>1 DEF Times, Later, ScheduleType, PowerMap
  <2>2. n \in Later(s, t) /\ \A j \in Later(s, t) : n <= j
        BY <1>1, <1>11, NextExists DEF ScheduleType, PowerMap
  <2>3. n \in Nat /\ n > t /\ n \in DOMAIN s  BY <1>1, <2>2 DEF Later, ScheduleType, PowerMap
  <2> HIDE DEF n
  <2>4. n \in Times(s) /\ n # now  BY <1>1, <2>1, <2>3 DEF Times, Later
  <2>5. before \in Times(s) /\ before < n
        BY <1>1, <2>4, TimesAfter
  <2>6. before = t
    <3>1. \A j \in Times(s) : j < n => j <= before  BY <1>1, <2>4, TimesAfter
    <3>2. t <= before  BY <2>3, <3>1
    <3>3. before \in Nat  BY <1>1, <2>5 DEF Times, Later, ScheduleType, PowerMap
    <3>4. ~ (before > t)
      <4> SUFFICES ASSUME before > t PROVE FALSE  OBVIOUS
      <4> HIDE DEF before
      <4>1. before # now  BY <1>1, <2>1, <3>3
      <4>2. before \in Later(s, t)  BY <2>5, <4>1 DEF Times, Later
      <4> QED  BY <2>2, <2>3, <2>5, <3>3, <4>2 DEF n
    <3> QED  BY <2>1, <3>2, <3>3, <3>4
  <2>7. e[n] = IF Leads(s, e[t], t) THEN e[t] ELSE After(s, e[t], t)
        BY <1>3, <2>4, <2>6 DEF EnergyAt
  <2>8. CASE t \in illegal
    <3>1. At(r, t) = 0 /\ e[n] = e[t] /\ e[t] \in Int  BY <1>3, <1>4, <1>9, <2>7, <2>8
    <3>2. (n - t) * 0 = 0  BY <2>1, <2>3
    <3>3. Taken(r, t) = 0
      <4>1. Quotient(0, Hour) = 0  BY BatterySchedulerAssumption DEF Quotient, Abs, Larger
      <4> QED  BY <1>7, <3>1, <3>2, <4>1 DEF Taken, n
    <3>4. After(r, e[t], t) = e[t]  BY <3>1, <3>3 DEF After
    <3> QED  BY <3>1, <3>4 DEF Leads, LeadsOut, n
  <2>9. CASE t \notin illegal
    <3>1. ~ Leads(s, e[t], t) /\ At(r, t) = At(s, t)  BY <1>4, <1>9, <1>11, <2>9
    <3>2. After(r, e[t], t) = After(s, e[t], t)  BY <1>7, <3>1 DEF After, Taken
    <3> QED  BY <2>7, <3>1, <3>2 DEF Leads, n
  <2> QED  BY <2>8, <2>9
<1>12. {now} \cup Later(r, now) = Times(s)  BY <1>7 DEF Times
<1>13. Within(r, now, e)
  <2> HIDE DEF r, s
  <2>1. \A t \in Times(s) : e[t] \in Int  BY <1>3
  <2>2. \A t \in Times(s) : Later(r, t) # {} => e[NextKey(r, t)] = After(r, e[t], t) /\ ~ Leads(r, e[t], t)
        BY <1>7, <1>11
  <2> QED  BY <1>12, <2>1, <2>2 DEF Within, FollowedAt
<1>14. ScheduleType(r)  BY <1>1, ZeroedSchedule
<1> QED  BY <1>2, <1>10, <1>13, <1>14 DEF e

LEMMA FixMakesLegal == ASSUME IInv, TypeInv, FixSchedule PROVE LegalInv'
<1> DEFINE r == data'.scheduledPower
           e == RepairedEnergy(data.scheduledPower)
<1>1. Within(r, now, e) /\ e[now] = Measured /\ ScheduleType(r)  BY FixMakesWithin
<1>2. now \in Nat /\ stored \in Nat  BY DEF IInv, TypeInv, Counters
<1>3. now' = now /\ stored' = stored /\ followed' = 1  BY DEF FixSchedule
<1>4. At(r, now) \in Int  BY <1>1, <1>2, AtType DEF ScheduleType, Bounded
<1> HIDE DEF r, e
<1>5. (now - now) * At(r, now) = 0  BY <1>2, <1>4
<1>6. Near(stored - Hour * e[now] - (now - now) * At(r, now), followed' - 1)
  <2>1. Measured \in Nat /\ Near(stored - Hour * Measured, 0)  BY <1>2, MeasuredNear
  <2>2. stored - Hour * Measured \in Int  BY <1>2, <2>1, BatterySchedulerAssumption
  <2>3. (stored - Hour * Measured) - 0 = stored - Hour * Measured  BY <2>2
  <2> QED  BY <1>1, <1>3, <1>5, <2>1, <2>3
<1>7. now \in 0..now  BY <1>2
<1> QED  BY <1>1, <1>3, <1>6, <1>7 DEF LegalInv, r

\* A step of the battery: it stays near what is expected, also where it is full or empty, and
\* moves about within the bounds.
LEMMA TickStaysNear ==
    ASSUME NEW e \in Int, NEW p \in Int, NEW d \in Nat, NEW m \in Nat, d < m, NEW c \in Nat,
           stored \in 0..(FullEnergy * Hour), ~ LeadsOut(e, e + Quotient(m * p, Hour), p),
           Near(stored - Hour * e - d * p, c),
           NEW next, next = Larger(0, Smaller(FullEnergy * Hour, stored + p))
    PROVE  /\ next \in Int /\ Near(next - Hour * e - (d + 1) * p, c)
           /\ next > stored => next <= MaxEnergy * Hour + (Percent * Hour - 1) + (c + 1) * (Hour - 1)
           /\ next < stored => next >= MinEnergy * Hour - (c + 1) * (Hour - 1)
<1> DEFINE he == Hour * e
           dp == d * p
           full == FullEnergy * Hour
           max == Hour * MaxEnergy
           min == Hour * MinEnergy
           ch == c * (Hour - 1)
           ph == Percent * Hour
<1>1. /\ Hour \in Nat \ {0} /\ Percent \in Nat \ {0}
      /\ MinEnergy \in Nat /\ MaxEnergy \in Nat /\ FullEnergy \in Nat /\ MaxEnergy < FullEnergy
      BY BatterySchedulerAssumption
<1>2. /\ he \in Int /\ dp \in Int /\ full \in Nat /\ max \in Nat /\ min \in Nat /\ ch \in Nat /\ ph \in Nat
      /\ stored \in Nat /\ stored <= full
      BY <1>1
<1>3. (d + 1) * p = dp + p  OBVIOUS
<1>4. (c + 1) * (Hour - 1) = ch + (Hour - 1)  BY <1>1
<1>5. MaxEnergy * Hour = max /\ MinEnergy * Hour = min  BY <1>1
<1>6. max + Hour <= full
  <2>1. MaxEnergy + 1 <= FullEnergy  BY <1>1
  <2>2. Hour * (MaxEnergy + 1) <= Hour * FullEnergy  BY <1>1, <2>1
  <2>3. Hour * (MaxEnergy + 1) = max + Hour /\ Hour * FullEnergy = full  BY <1>1
  <2> QED  BY <2>2, <2>3
<1>7. Hour <= ph  BY <1>1
<1>8. /\ p > 0 => he + (dp + p) <= max + (Hour - 1)
      /\ p < 0 => he + (dp + p) >= min - (Hour - 1)
  <2>1. d + 1 \in Nat /\ d + 1 <= m  OBVIOUS
  <2>2. /\ p > 0 => Hour * e + (d + 1) * p <= Hour * MaxEnergy + (Hour - 1)
        /\ p < 0 => Hour * e + (d + 1) * p >= Hour * MinEnergy - (Hour - 1)
        BY <2>1, LegalStretch
  <2> QED  BY <1>3, <2>2
<1>9. -ch <= stored - he - dp /\ stored - he - dp <= ch + (ph - 1)
      BY DEF Near
<1> HIDE DEF he, dp, full, max, min, ch, ph
<1>10. next = Larger(0, Smaller(full, stored + p))  BY DEF full
<1>11. next \in Int  BY <1>2, <1>10 DEF Larger, Smaller
<1>12. -ch <= next - he - (dp + p) /\ next - he - (dp + p) <= ch + (ph - 1)
  <2>1. CASE p > 0
    <3>1. next = IF full < stored + p THEN full ELSE stored + p
          BY <1>2, <1>10, <2>1 DEF Larger, Smaller
    <3> QED  BY <1>1, <1>2, <1>6, <1>8, <1>9, <2>1, <3>1
  <2>2. CASE p < 0
    <3>1. next = IF stored + p < 0 THEN 0 ELSE stored + p
          BY <1>2, <1>10, <2>2 DEF Larger, Smaller
    <3> QED  BY <1>1, <1>2, <1>7, <1>8, <1>9, <2>2, <3>1
  <2>3. CASE p = 0
    <3>1. next = stored  BY <1>2, <1>10, <2>3 DEF Larger, Smaller
    <3> QED  BY <1>2, <1>9, <2>3, <3>1
  <2> QED  BY <2>1, <2>2, <2>3
<1>13. Near(next - Hour * e - (d + 1) * p, c)
  <2>1. next - Hour * e - (d + 1) * p = next - he - (dp + p)  BY <1>3 DEF he
  <2> QED  BY <1>12, <2>1 DEF Near, ch, ph
<1>14. next > stored => next <= max + (ph - 1) + (ch + (Hour - 1))
  <2> SUFFICES ASSUME next > stored PROVE next <= max + (ph - 1) + (ch + (Hour - 1))  OBVIOUS
  <2>1. p > 0 /\ next <= stored + p  BY <1>2, <1>10 DEF Larger, Smaller
  <2> QED  BY <1>1, <1>2, <1>8, <1>9, <1>11, <2>1
<1>15. next < stored => next >= min - (ch + (Hour - 1))
  <2> SUFFICES ASSUME next < stored PROVE next >= min - (ch + (Hour - 1))  OBVIOUS
  <2>1. p < 0 /\ next >= stored + p  BY <1>2, <1>10 DEF Larger, Smaller
  <2> QED  BY <1>1, <1>2, <1>8, <1>9, <1>11, <2>1
<1> QED  BY <1>4, <1>5, <1>11, <1>13, <1>14, <1>15 DEF ph

\* What Tick does while a repaired schedule is followed.
LEMMA TickFollows ==
    ASSUME IInv, TypeInv, Tick, followed > 0, NEW b \in 0..now, NEW e,
           Later(data.scheduledPower, b) = Later(data.scheduledPower, now),
           Later(data.scheduledPower, now) # {}, Within(data.scheduledPower, b, e),
           Near(stored - Hour * e[b] - (now - b) * At(data.scheduledPower, b), followed - 1)
    PROVE  LET p == At(data.scheduledPower, b)
               n == NextKey(data.scheduledPower, b)
           IN  /\ e[b] \in Int /\ p \in Int /\ n \in Nat /\ n > now /\ stored' \in Int
               /\ n \in Later(data.scheduledPower, b)
               /\ \A j \in Later(data.scheduledPower, b) : n <= j
               /\ e[n] = e[b] + Quotient((n - b) * p, Hour)
               /\ Near(stored' - Hour * e[b] - ((now - b) + 1) * p, followed - 1)
               /\ stored' > stored =>
                      stored' <= MaxEnergy * Hour + (Percent * Hour - 1) + followed * (Hour - 1)
               /\ stored' < stored => stored' >= MinEnergy * Hour - followed * (Hour - 1)
<1> DEFINE s == data.scheduledPower
           p == At(s, b)
           n == NextKey(s, b)
           d == now - b
           m == n - b
           c == followed - 1
<1>1. ScheduleType(s) /\ now \in Nat /\ stored \in 0..(FullEnergy * Hour) /\ followed \in Nat
      BY DEF IInv, TypeInv, DataPowers, Counters
<1>2. DOMAIN s \subseteq Nat /\ b \in Nat /\ d \in Nat  BY <1>1 DEF ScheduleType, PowerMap
<1>3. p \in Int  BY <1>1, <1>2, AtType DEF ScheduleType, Bounded
<1>4. n \in Later(s, b) /\ \A j \in Later(s, b) : n <= j  BY <1>2, NextExists
<1>5. n \in Nat /\ n > now  BY <1>2, <1>4 DEF Later
<1>6. FollowedAt(s, e, b)  BY DEF Within
<1>7. e[b] \in Int /\ e[n] = e[b] + Quotient(m * p, Hour) /\ ~ LeadsOut(e[b], e[b] + Quotient(m * p, Hour), p)
      BY <1>6 DEF FollowedAt, After, Taken, Leads
<1>8. m \in Nat /\ d < m /\ c \in Nat /\ c + 1 = followed  BY <1>1, <1>2, <1>5
<1>9. At(s, now) = p
  <2>1. FloorKeys(s, now) = FloorKeys(s, b)
    <3>1. \A k \in DOMAIN s : k <= now <=> k <= b
      <4>1. \A k \in DOMAIN s : k > b <=> k > now  BY DEF Later
      <4> QED  BY <1>1, <1>2, <4>1
    <3> QED  BY <3>1 DEF FloorKeys
  <2> QED  BY <2>1 DEF At, FloorKey
<1>10. stored' = Larger(0, Smaller(FullEnergy * Hour, stored + p))  BY <1>9 DEF Tick
<1>11. Near(stored - Hour * e[b] - d * p, c)  OBVIOUS
<1> DEFINE f == e[b]
<1> HIDE DEF s, p, n, d, m, c, f
<1>12. PICK y : y = stored'  OBVIOUS
<1>13. /\ f \in Int /\ p \in Int /\ d \in Nat /\ m \in Nat /\ d < m /\ c \in Nat
       /\ stored \in 0..(FullEnergy * Hour) /\ ~ LeadsOut(f, f + Quotient(m * p, Hour), p)
       BY <1>1, <1>2, <1>3, <1>7, <1>8 DEF f
<1>14. Near(stored - Hour * f - d * p, c)  BY <1>11 DEF f
<1>15. y = Larger(0, Smaller(FullEnergy * Hour, stored + p))  BY <1>10, <1>12
<1>16. /\ y \in Int /\ Near(y - Hour * f - (d + 1) * p, c)
       /\ y > stored => y <= MaxEnergy * Hour + (Percent * Hour - 1) + (c + 1) * (Hour - 1)
       /\ y < stored => y >= MinEnergy * Hour - (c + 1) * (Hour - 1)
       BY <1>13, <1>14, <1>15, TickStaysNear
<1> QED  BY <1>3, <1>4, <1>5, <1>7, <1>8, <1>12, <1>16 DEF s, p, n, d, m, c, f

LEMMA TickKeepsLegal == ASSUME IInv, TypeInv, LegalInv, Tick PROVE LegalInv'
<1> DEFINE s == data.scheduledPower
<1>0. now \in Nat /\ followed \in Nat /\ now' = now + 1 /\ data' = data /\ ScheduleType(s)
      /\ followed' = (IF followed > 0 /\ now' \in DOMAIN s THEN followed + 1 ELSE followed)
      BY DEF IInv, TypeInv, Counters, DataPowers, Tick
<1> SUFFICES ASSUME followed > 0, Later(s, now + 1) # {}
             PROVE  \E b \in 0..(now + 1) : \E e :
                        /\ Later(s, b) = Later(s, now + 1)
                        /\ Within(s, b, e)
                        /\ Near(stored' - Hour * e[b] - ((now + 1) - b) * At(s, b), followed' - 1)
    BY <1>0 DEF LegalInv
<1>1. Later(s, now + 1) = Later(s, now) \ {now + 1} /\ Later(s, now) # {} /\ DOMAIN s \subseteq Nat
      BY <1>0 DEF Later, ScheduleType, PowerMap
<1>2. PICK b, e :
          /\ b \in 0..now /\ Later(s, b) = Later(s, now) /\ Within(s, b, e)
          /\ Near(stored - Hour * e[b] - (now - b) * At(s, b), followed - 1)
      BY <1>1 DEF LegalInv
<1> DEFINE p == At(s, b)
           n == NextKey(s, b)
           x == stored' - Hour * e[b] - ((now - b) + 1) * p
<1>3. /\ e[b] \in Int /\ p \in Int /\ n \in Nat /\ n > now /\ stored' \in Int
      /\ n \in Later(s, b) /\ \A j \in Later(s, b) : n <= j
      /\ e[n] = e[b] + Quotient((n - b) * p, Hour)
      /\ Near(x, followed - 1)
      BY <1>1, <1>2, TickFollows
<1> HIDE DEF s, p, n
<1>4. b \in Nat /\ now - b \in Nat /\ (now + 1) - b = (now - b) + 1  BY <1>0, <1>2
<1>5. CASE now + 1 \notin DOMAIN s
  <2>1. Later(s, b) = Later(s, now + 1) /\ followed' = followed
        BY <1>0, <1>1, <1>2, <1>5 DEF Later
  <2>2. x = stored' - Hour * e[b] - ((now + 1) - b) * At(s, b)  BY <1>4 DEF p
  <2>3. b \in 0..(now + 1)  BY <1>0, <1>2
  <2> HIDE DEF x
  <2> QED  BY <1>2, <1>3, <2>1, <2>2, <2>3
<1>6. CASE now + 1 \in DOMAIN s
  <2>1. now + 1 \in Later(s, b)  BY <1>0, <1>2, <1>6 DEF Later
  <2>2. n = now + 1  BY <1>0, <1>3, <2>1
  <2>3. Within(s, n, e)
    <3>1. {n} \cup Later(s, n) \subseteq {b} \cup Later(s, b)
          BY <1>1, <1>2, <2>1, <2>2
    <3> QED  BY <1>2, <3>1 DEF Within
  <2>4. followed' - 1 = (followed - 1) + 1  BY <1>0, <1>6
  <2> DEFINE a == ((now - b) + 1) * p
             q == Quotient(a, Hour)
             c == followed - 1
  <2>5. a \in Int /\ q \in Int /\ a - Hour * q \in -(Hour - 1)..(Hour - 1)
    <3>1. a \in Int  BY <1>3, <1>4
    <3> HIDE DEF a
    <3> QED  BY <3>1, RoundedOff
  <2>6. e[n] = e[b] + q  BY <1>3, <1>4, <2>2
  <2>7. Hour \in Nat \ {0} /\ Percent * Hour \in Nat /\ c \in Nat  BY <1>0, BatterySchedulerAssumption
  <2>8. Near(x, c) /\ x = stored' - Hour * e[b] - a  BY <1>3
  <2> HIDE DEF a, q, c, x
  <2>9. Hour * e[n] = Hour * e[b] + Hour * q /\ Hour * e[b] \in Int /\ Hour * q \in Int
        BY <1>3, <2>5, <2>6, <2>7
  <2>10. x + (a - Hour * q) = stored' - Hour * e[n] /\ x \in Int
         BY <1>3, <2>5, <2>8, <2>9
  <2>11. Near(x + (a - Hour * q), c + 1)
    <3>1. (c + 1) * (Hour - 1) = c * (Hour - 1) + (Hour - 1) /\ c * (Hour - 1) \in Int  BY <2>7
    <3> DEFINE y == a - Hour * q
               ch == c * (Hour - 1)
    <3>2. y \in Int /\ -(Hour - 1) <= y /\ y <= Hour - 1  BY <2>5, <2>7
    <3>3. -ch <= x /\ x <= ch + (Percent * Hour - 1)  BY <2>8 DEF Near
    <3>4. ch \in Int  BY <3>1
    <3> HIDE DEF y, ch
    <3>5. -(ch + (Hour - 1)) <= x + y /\ x + y <= (ch + (Hour - 1)) + (Percent * Hour - 1)
          BY <2>7, <2>10, <3>2, <3>3, <3>4
    <3> QED  BY <3>1, <3>5 DEF Near, y, ch
  <2>12. (n - n) * At(s, n) = 0
    <3>1. At(s, n) \in Int  BY <1>0, <1>3, AtType DEF ScheduleType, Bounded
    <3> QED  BY <1>3, <3>1
  <2>13. (stored' - Hour * e[n]) - 0 = stored' - Hour * e[n]  BY <2>10, <2>5
  <2>14. Near(stored' - Hour * e[n] - (n - n) * At(s, n), followed' - 1)
         BY <2>4, <2>10, <2>11, <2>12, <2>13 DEF c
  <2>15. n \in 0..(now + 1) /\ Later(s, n) = Later(s, now + 1)  BY <1>0, <2>2
  <2> QED  BY <2>2, <2>3, <2>14, <2>15
<1> QED  BY <1>5, <1>6

LEMMA ChangedLegal ==
    ASSUME LegalInv, Counters, NEW d, Changed(d), UNCHANGED <<now, stored>> PROVE LegalInv'
<1>1. followed' = IF d.scheduledPower = data.scheduledPower THEN followed ELSE 0  BY DEF Changed
<1>2. CASE d.scheduledPower = data.scheduledPower
  <2>1. data'.scheduledPower = data.scheduledPower /\ followed' = followed  BY <1>1, <1>2 DEF Changed
  <2> QED  BY <2>1 DEF LegalInv
<1>3. CASE d.scheduledPower # data.scheduledPower
  <2>1. followed' = 0  BY <1>1, <1>3
  <2> QED  BY <2>1 DEF LegalInv
<1> QED  BY <1>2, <1>3

LEMMA NotFollowed == ASSUME followed' = 0 PROVE LegalInv'
BY DEF LegalInv

LEMMA StillLegal ==
    ASSUME LegalInv, UNCHANGED <<now, stored, data, followed>> PROVE LegalInv'
BY DEF LegalInv

LEMMA NextLegal ==
    ASSUME IInv, TypeInv, LegalInv, [Next]_vars PROVE LegalInv' /\ (now' > now => Tick)
<1>0. ~ (now > now)  BY DEF IInv
<1>1. ASSUME NEW d, Changed(d), UNCHANGED <<now, stored>> PROVE LegalInv' /\ (now' > now => Tick)
      BY <1>0, <1>1, ChangedLegal DEF TypeInv
<1>2. CASE Offers  BY <1>1, <1>2 DEF Offers, GetSchedule
<1>3. CASE Orders
  <2>1. ASSUME NEW id, NEW power, BeginSchedule(id, power) PROVE LegalInv' /\ (now' > now => Tick)
        BY <1>1, <2>1 DEF BeginSchedule
  <2>2. ASSUME NEW id, NEW powers, BeginAdapt(id, powers) PROVE LegalInv' /\ (now' > now => Tick)
        BY <1>0, <2>2, StillLegal DEF BeginAdapt
  <2>3. ASSUME NEW id, UnscheduleFlexibility(id) PROVE LegalInv' /\ (now' > now => Tick)
        BY <1>1, <2>3 DEF UnscheduleFlexibility
  <2> QED  BY <1>3, <2>1, <2>2, <2>3 DEF Orders
<1>4. CASE EndSchedule  BY <1>1, <1>4 DEF EndSchedule
<1>5. CASE EndAdapt  BY <1>1, <1>5 DEF EndAdapt
<1>6. CASE Targets  BY <1>1, <1>6 DEF Targets, SetTargetSoc, SetTarget
<1>7. CASE Powers  BY <1>1, <1>7 DEF Powers, SchedulePower
<1>8. CASE Run
  <2>1. CASE Sweep  BY <1>1, <2>1 DEF Sweep
  <2>2. CASE RunTarget  BY <1>1, <2>2 DEF RunTarget, SetTarget
  <2>3. CASE FixSchedule  BY <1>0, <2>3, FixMakesLegal DEF FixSchedule
  <2>4. CASE RunSaved  BY <1>0, <2>4, StillLegal DEF RunSaved
  <2> QED  BY <1>8, <2>1, <2>2, <2>3, <2>4 DEF Run
<1>9. CASE Restart  BY <1>0, <1>9, NotFollowed DEF Restart
<1>10. CASE Tick  BY <1>10, TickKeepsLegal
<1>11. CASE Drift  BY <1>0, <1>11, NotFollowed DEF Drift
<1>12. CASE CallSaved  BY <1>0, <1>12, StillLegal DEF CallSaved
<1>13. CASE UNCHANGED vars  BY <1>0, <1>13, StillLegal DEF vars
<1> QED  BY <1>2, <1>3, <1>4, <1>5, <1>6, <1>7, <1>8, <1>9, <1>10, <1>11, <1>12, <1>13 DEF Next

LEMMA TickIsWithin ==
    ASSUME IInv, TypeInv, LegalInv, Tick, followed > 0, Later(data.scheduledPower, now) # {}
    PROVE  /\ stored' > stored =>
                  stored' <= MaxEnergy * Hour + (Percent * Hour - 1) + followed * (Hour - 1)
           /\ stored' < stored => stored' >= MinEnergy * Hour - followed * (Hour - 1)
<1>1. PICK b, e :
          /\ b \in 0..now /\ Later(data.scheduledPower, b) = Later(data.scheduledPower, now)
          /\ Within(data.scheduledPower, b, e)
          /\ Near(stored - Hour * e[b] - (now - b) * At(data.scheduledPower, b), followed - 1)
      BY DEF LegalInv
<1> QED  BY <1>1, TickFollows

\* NeverDrivenOut: as long as the schedule is as the last repair has left it, following it
\* neither charges the battery above its bounds nor discharges it below by more than is
\* rounded off, up to the last entry.
THEOREM RepairedStaysWithin == Spec => NeverDrivenOut
<1> DEFINE AllInv == IInv /\ TypeInv /\ LegalInv
           Stays == now' > now /\ followed > 0 /\ Later(data.scheduledPower, now) # {} =>
                       LET rounded == followed * (Hour - 1)
                       IN  /\ stored' > stored => stored' <= MaxEnergy * Hour + (Percent * Hour - 1) + rounded
                           /\ stored' < stored => stored' >= MinEnergy * Hour - rounded
<1>1. Init => AllInv  BY InitIInv, InitTypeInv DEF Init, LegalInv
<1>2. AllInv /\ [Next]_vars => AllInv'  BY NextIInv, NextTypeInv, NextLegal
<1>3. AllInv /\ [Next]_vars => [Stays]_vars  BY NextLegal, TickIsWithin
<1> QED  BY <1>1, <1>2, <1>3, PTL DEF Spec, NeverDrivenOut

---------------------------------------------------------------------------
(* Repairing again. *)

\* fixSchedule leaves a schedule alone that it expects to stay within the bounds.
LEMMA LegalIsLeftAlone ==
    ASSUME NEW s, ScheduleType(s), now \in Nat, stored \in Nat,
           NEW e, e[now] = Measured, Within(s, now, e)
    PROVE  Illegal(s) = {}
<1> DEFINE E == RepairedEnergy(s)
<1>1. \A t \in Times(s) : FollowedAt(s, e, t)  BY DEF Within, Times
<1>2. \A t \in Times(s) : E[t] = EnergyAt(s, E, t)  BY EnergyEquation
<1>3. Times(s) \subseteq Nat  BY DEF Times, Later, ScheduleType, PowerMap
<1> HIDE DEF E
<1> DEFINE Differ == {t \in Times(s) : E[t] # e[t]}
<1>4. Differ = {}
  <2> SUFFICES ASSUME Differ # {} PROVE FALSE  OBVIOUS
  <2>1. PICK t \in Differ : \A u \in Differ : t <= u
    <3>1. Differ \in SUBSET Nat  BY <1>3
    <3> QED  BY <3>1, Least
  <2>2. t \in Times(s) /\ E[t] # e[t] /\ E[t] = EnergyAt(s, E, t)  BY <1>2
  <2>3. t # now  BY <2>2 DEF EnergyAt
  <2> DEFINE before == CHOOSE k \in Times(s) : k < t /\ \A j \in Times(s) : j < t => j <= k
  <2>4. before \in Times(s) /\ before < t /\ Later(s, before) # {} /\ NextKey(s, before) = t
        BY <2>2, <2>3, TimesAfter
  <2>5. E[t] = IF Leads(s, E[before], before) THEN E[before] ELSE After(s, E[before], before)
        BY <2>2, <2>3 DEF EnergyAt
  <2> HIDE DEF before
  <2>6. E[before] = e[before]
    <3> SUFFICES ASSUME E[before] # e[before] PROVE FALSE  OBVIOUS
    <3>1. before \in Differ  BY <2>4
    <3>2. t <= before /\ t \in Nat /\ before \in Nat  BY <1>3, <2>1, <2>2, <2>4, <3>1
    <3> QED  BY <2>4, <3>2
  <2>7. e[t] = After(s, e[before], before) /\ ~ Leads(s, e[before], before)
        BY <1>1, <2>4 DEF FollowedAt
  <2> QED  BY <2>2, <2>5, <2>6, <2>7
<1>5. ASSUME NEW t \in Times(s), Later(s, t) # {} PROVE ~ Leads(s, E[t], t)
  <2>1. E[t] = e[t]  BY <1>4
  <2> QED  BY <1>1, <1>5, <2>1 DEF FollowedAt
<1> QED  BY <1>5 DEF Illegal, Followed, E

\* The one pass of fixSchedule is enough, although every power it removes changes what it
\* expects from then on: of the schedule it leaves, at the same time and with the same
\* measurement, it would remove nothing.
RepairIsComplete == [][FixSchedule => Illegal(data'.scheduledPower) = {}]_vars

THEOREM RepairedAtOnce == Spec => RepairIsComplete
<1> DEFINE Complete == FixSchedule => Illegal(data'.scheduledPower) = {}
<1>1. IInv /\ TypeInv => Complete
  <2> SUFFICES ASSUME IInv, TypeInv, FixSchedule PROVE Illegal(data'.scheduledPower) = {}  OBVIOUS
  <2> DEFINE r == data'.scheduledPower
             e == RepairedEnergy(data.scheduledPower)
  <2>1. Within(r, now, e) /\ e[now] = Measured /\ ScheduleType(r)  BY FixMakesWithin
  <2>2. now \in Nat /\ stored \in Nat  BY DEF IInv, TypeInv, Counters
  <2> HIDE DEF r, e
  <2>3. Illegal(r) = {}  BY <2>1, <2>2, LegalIsLeftAlone
  <2> QED  BY <2>3 DEF r
<1>2. IInv /\ TypeInv /\ [Next]_vars => [Complete]_vars  BY <1>1
<1> QED  BY <1>2, TypesInvariance, PTL DEF Spec, RepairIsComplete
=============================================================================
