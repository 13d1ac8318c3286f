--------------------- MODULE MultiThreadedWorkQueueProofs ---------------------
(***************************************************************************)
(* Both pools and the dynamic threads for any finite sets of tasks and     *)
(* threads: the transfer queue is no longer than the number of idle        *)
(* threads, and Quiesce leaves nothing that was accepted before it began.  *)
(*                                                                         *)
(* Every counter is the size of a set.  For Quiesce, the invariant says    *)
(* of each task that is accepted and not counted how far Main can have     *)
(* come: not past the pool the task is in.                                 *)
(***************************************************************************)
EXTENDS MultiThreadedWorkQueue, FiniteSetTheorems, TLAPS

\* The tasks in mNumPendingTasks, and the dynamic threads that exist.
Counted == {t \in Tasks : counted[t]}
Started == {d \in Dynamic : dyn[d] # "off"}

\* The counters of the code are sizes of sets, and the transfer queue is no
\* longer than the last of them.
CounterInv ==
  /\ mNumQuiescing = IF pc = "idle" THEN 0 ELSE 1
  /\ mNumPendingTasks = Cardinality(Counted)
  /\ mNumDynamicThreads = Cardinality(Started)
  /\ mNumIdleDynamicThreads = Cardinality(Idle)
  /\ Cardinality(mIdleTaskQueue) <= Cardinality(Idle)

\* Where a task can be, and that a dynamic thread runs one task at a time.
PlaceInv(t) ==
  /\ where[t] \in {"counting", "call"} => on[t] \in Pools
  /\ where[t] = "queue" => on[t] \in Pools \cup {"dynamic"}
  /\ Running(t) => on[t] \in Pools \cup {Main} \cup Dynamic
  /\ where[t] \in {"new", "counting"} => ~counted[t]
  /\ where[t] = "run" /\ on[t] \in Dynamic =>
       /\ dyn[on[t]] = "busy"
       /\ \A u \in Tasks : where[u] = "run" /\ on[u] = on[t] => u = t

\* Who adds a task is running itself, and a task that runs inline does so on the
\* thread of who adds it.
AdderInv(t) ==
  where[t] \in Adding =>
    /\ by[t] \in Tasks => Running(by[t])
    /\ where[t] = "inline" => on[t] = ThreadOf(by[t])

TaskInv == \A t \in Tasks : PlaceInv(t) /\ AdderInv(t)

\* Following the adders of inline tasks leads to one that is not inline.
InlineWellFounded ==
  \A S \in SUBSET Tasks :
    S # {} => \E t \in S : where[t] # "inline" \/ by[t] \notin S

\* A task that was accepted before Quiesce began and is not through.
Old(t) ==
  where[t] \in {"queue", "run", "inline"} /\ ~counted[t] /\ t \notin straddling

\* The steps of Quiesce that come after a pool was found blocked.
Beyond(p) ==
  {"stop", "exitSleep", "exitCheck", "pending"} \cup
  IF p = "blocking" THEN {} ELSE {Stealing("blocking"), Waiting("blocking")}

\* Where in Quiesce Main can be while such a task is where it is.
NotYet(t) ==
  /\ pc # "pending"
  /\ \A p \in Pools :
       on[t] = p =>
         /\ pc \notin Beyond(p)
         /\ where[t] = "queue" => pc # Waiting(p) /\ (pc = Stealing(p) => t \in scan)

DuringQuiesce(t) ==
  /\ where[t] \in Adding => by[t] # Main
  /\ where[t] = "call" /\ ~counted[t] => t \in straddling
  /\ pc \notin {Stealing(p) : p \in Pools} => ~(Running(t) /\ on[t] = Main)
  /\ Old(t) => NotYet(t)

QuiesceInv == pc # "idle" => \A t \in Tasks : DuringQuiesce(t)

IInv == TypeOK /\ CounterInv /\ TaskInv /\ InlineWellFounded /\ QuiesceInv
-------------------------------------------------------------------------------
(***************************************************************************)
(* The sets that are counted.                                              *)
(***************************************************************************)

\* Every set that a counter of the queue stands for is finite.
LEMMA SetSizes ==
  /\ \A S \in SUBSET Tasks :
       IsFiniteSet(S) /\ Cardinality(S) \in Nat /\ Cardinality(S) \in 0 .. Cardinality(Tasks)
  /\ \A S \in SUBSET Dynamic :
       IsFiniteSet(S) /\ Cardinality(S) \in Nat /\ Cardinality(S) \in 0 .. Cardinality(Dynamic)
<1>1. IsFiniteSet(Tasks) /\ IsFiniteSet(Dynamic)
  BY PoolAssumption
<1>2. Cardinality(Tasks) \in Nat /\ Cardinality(Dynamic) \in Nat
  BY <1>1, FS_CardinalityType
<1>3. \A S \in SUBSET Tasks :
        IsFiniteSet(S) /\ Cardinality(S) \in Nat /\ Cardinality(S) <= Cardinality(Tasks)
  BY <1>1, FS_Subset, FS_CardinalityType
<1>4. \A S \in SUBSET Dynamic :
        IsFiniteSet(S) /\ Cardinality(S) \in Nat /\ Cardinality(S) <= Cardinality(Dynamic)
  BY <1>1, FS_Subset, FS_CardinalityType
<1>. QED
  BY <1>2, <1>3, <1>4

\* These are the sets.
LEMMA Sets ==
  /\ Counted \in SUBSET Tasks /\ mIdleTaskQueue \in SUBSET Tasks
  /\ Started \in SUBSET Dynamic /\ Idle \in SUBSET Dynamic
  /\ Counted' \in SUBSET Tasks /\ mIdleTaskQueue' \in SUBSET Tasks
  /\ Started' \in SUBSET Dynamic /\ Idle' \in SUBSET Dynamic
BY DEF Counted, mIdleTaskQueue, In, Started, Idle

\* Removing an element that is there takes one from the size.
LEMMA SizeOfRemoved ==
  ASSUME NEW S, IsFiniteSet(S), NEW x \in S
  PROVE  /\ Cardinality(S) \in Nat
         /\ Cardinality(S) > 0
         /\ Cardinality(S \ {x}) = Cardinality(S) - 1
<1>1. /\ Cardinality(S) \in Nat /\ IsFiniteSet(S \ {x})
      /\ Cardinality(S \ {x}) = Cardinality(S) - 1
  BY FS_CardinalityType, FS_RemoveElement
<1>2. Cardinality(S \ {x}) \in Nat
  BY <1>1, FS_CardinalityType
<1>. QED
  BY <1>1, <1>2

\* A running task on a dynamic thread, inline or not, has the task beneath it
\* that the thread took.
LEMMA RunBeneath ==
  ASSUME TypeOK, TaskInv, InlineWellFounded,
         NEW t \in Tasks, Running(t), on[t] \in Dynamic
  PROVE  \E x \in Tasks : /\ where[x] = "run" /\ on[x] = on[t]
                          /\ where[t] = "inline" => Busy(x)
<1>. DEFINE S == {u \in Tasks : where[u] = "inline" /\ on[u] = on[t]}
<1>1. CASE where[t] = "run"
  BY <1>1
<1>2. CASE where[t] = "inline"
  <2>1. PICK u \in S : by[u] \notin S
    BY <1>2 DEF InlineWellFounded
  <2>2. on[u] = ThreadOf(by[u]) /\ by[u] \in Tasks /\ Running(by[u])
    BY <2>1, PoolAssumption DEF TaskInv, AdderInv, ThreadOf, Adding, TypeOK
  <2>3. where[by[u]] = "run" /\ on[by[u]] = on[t]
    BY <2>1, <2>2, PoolAssumption DEF ThreadOf, Running
  <2>4. Busy(by[u])
    BY <2>1 DEF Busy, Adding
  <2>. QED
    BY <2>2, <2>3, <2>4
<1>. QED
  BY <1>1, <1>2 DEF Running

\* A new work queue has no task and no dynamic thread.
LEMMA InitIInv == Init => IInv
<1>. SUFFICES ASSUME Init PROVE IInv
  OBVIOUS
<1>. USE PoolAssumption DEF Init
<1>1. Counted = {} /\ Started = {} /\ Idle = {} /\ mIdleTaskQueue = {}
  BY DEF Counted, Started, Idle, mIdleTaskQueue, In
<1>2. CounterInv
  BY <1>1, FS_EmptySet DEF CounterInv
<1>3. TypeOK
  <2>1. Cardinality(Tasks) \in Nat /\ Cardinality(Dynamic) \in Nat
    BY FS_CardinalityType
  <2>2. on \in [Tasks -> Pools \cup {"dynamic", Main} \cup Dynamic]
    OBVIOUS
  <2>3. /\ mNumQuiescing \in 0 .. 1 /\ mNumPendingTasks \in 0 .. Cardinality(Tasks)
        /\ mNumDynamicThreads \in 0 .. Cardinality(Dynamic)
        /\ mNumIdleDynamicThreads \in 0 .. Cardinality(Dynamic)
        /\ quiesced \in 0 .. MaxQuiesce
    BY <2>1
  <2>. QED
    BY <2>2, <2>3 DEF TypeOK, Adding
<1>4. TaskInv
  BY DEF TaskInv, PlaceInv, AdderInv, Running, Adding
<1>5. InlineWellFounded
  BY DEF InlineWellFounded
<1>6. QuiesceInv
  BY DEF QuiesceInv
<1>. QED
  BY <1>2, <1>3, <1>4, <1>5, <1>6 DEF IInv
-------------------------------------------------------------------------------
\* A task that was not counted and is from now on.
LEMMA CountUp ==
  ASSUME TypeOK, CounterInv, NEW t \in Tasks, ~counted[t], WithPendingTaskCounter(t)
  PROVE  mNumPendingTasks' = Cardinality(Counted')
<1>1. Counted' = Counted \cup {t} /\ t \notin Counted
  BY DEF Counted, TypeOK, WithPendingTaskCounter
<1>2. Cardinality(Counted \cup {t}) = Cardinality(Counted) + 1
  BY <1>1, SetSizes, Sets, FS_AddElement
<1>. QED
  BY <1>1, <1>2 DEF CounterInv, WithPendingTaskCounter

\* What RunBlockingTask does with a task that it takes.
LEMMA WrapCounts ==
  ASSUME IInv, NEW t \in Tasks, where[t] = "new", wrap(t)
  PROVE  mNumPendingTasks' = Cardinality(Counted')
<1>1. ~counted[t]
  BY DEF IInv, TaskInv, PlaceInv
<1>2. CASE IsQuiescing
  BY <1>1, <1>2, CountUp DEF wrap, IInv
<1>3. CASE ~IsQuiescing
  BY <1>3 DEF wrap, IInv, CounterInv, Counted
<1>. QED
  BY <1>2, <1>3

\* A call of AddTask or EnqueueBlockingTask begins.
LEMMA AddIInv ==
  ASSUME IInv, NEW a \in Tasks \cup {Main}, NEW t \in Tasks, NEW p \in Pools,
         Add(a, t, p)
  PROVE  IInv'
<1>. USE PoolAssumption DEF IInv, Add, Place, counters, dynVars, mainVars
<1>1. CounterInv'
  <2>1. Counted' = Counted /\ Started' = Started /\ Idle' = Idle
    BY DEF Counted, Started, Idle, TypeOK
  <2>2. mIdleTaskQueue' = mIdleTaskQueue
    BY DEF mIdleTaskQueue, In, TypeOK, Pools, TaskInv, PlaceInv
  <2>. QED
    BY <2>1, <2>2 DEF CounterInv, TypeOK
<1>2. TypeOK'
  BY <1>1, SetSizes, Sets DEF CounterInv, TypeOK, Adding
<1>3. TaskInv'
  BY DEF TaskInv, PlaceInv, AdderInv, Running, Adding, TypeOK, ThreadOf, Pools, CanAct
<1>4. InlineWellFounded'
  BY DEF InlineWellFounded, TypeOK
<1>5. QuiesceInv'
  <2>. SUFFICES ASSUME NEW x \in Tasks, pc' # "idle"
                PROVE  DuringQuiesce(x)'
    BY DEF QuiesceInv
  <2>. QED
    BY DEF QuiesceInv, DuringQuiesce, Old, NotYet, Running, TypeOK, Adding, Pools,
           CounterInv, IsQuiescing, CanAct
<1>. QED
  BY <1>1, <1>2, <1>3, <1>4, <1>5

\* The task is counted before it is pushed.
LEMMA CountTaskIInv ==
  ASSUME IInv, NEW t \in Tasks, CountTask(t)
  PROVE  IInv'
<1>. USE PoolAssumption DEF IInv, CountTask, Place, dynVars, mainVars
<1>1. CounterInv'
  <2>1. Started' = Started /\ Idle' = Idle /\ mIdleTaskQueue' = mIdleTaskQueue
    BY DEF Started, Idle, mIdleTaskQueue, In, TypeOK, TaskInv, PlaceInv, Pools
  <2>2. mNumPendingTasks' = Cardinality(Counted')
    BY CountUp DEF TaskInv, PlaceInv
  <2>. QED
    BY <2>1, <2>2 DEF CounterInv
<1>2. TypeOK'
  BY <1>1, SetSizes, Sets DEF CounterInv, TypeOK, Adding, WithPendingTaskCounter
<1>3. TaskInv'
  BY DEF TaskInv, PlaceInv, AdderInv, Running, Adding, TypeOK, ThreadOf, Pools,
         WithPendingTaskCounter
<1>4. InlineWellFounded'
  BY DEF InlineWellFounded, TypeOK
<1>5. QuiesceInv'
  <2>. SUFFICES ASSUME NEW x \in Tasks, pc' # "idle"
                PROVE  DuringQuiesce(x)'
    BY DEF QuiesceInv
  <2>. QED
    BY DEF QuiesceInv, DuringQuiesce, Old, NotYet, Running, TypeOK, Adding, Pools,
           WithPendingTaskCounter
<1>. QED
  BY <1>1, <1>2, <1>3, <1>4, <1>5

\* The task is on a queue, and who added it goes on.
LEMMA PushIInv ==
  ASSUME IInv, NEW t \in Tasks, Push(t)
  PROVE  IInv'
<1>. USE PoolAssumption DEF IInv, Push, Place, counters, dynVars, mainVars
<1>1. CounterInv'
  <2>1. Counted' = Counted /\ Started' = Started /\ Idle' = Idle
    BY DEF Counted, Started, Idle, TypeOK
  <2>2. mIdleTaskQueue' = mIdleTaskQueue
    BY DEF mIdleTaskQueue, In, TypeOK, Pools, TaskInv, PlaceInv
  <2>. QED
    BY <2>1, <2>2 DEF CounterInv, TypeOK
<1>2. TypeOK'
  BY <1>1, SetSizes, Sets DEF CounterInv, TypeOK, Adding
<1>3. TaskInv'
  BY DEF TaskInv, PlaceInv, AdderInv, Running, Adding, TypeOK, ThreadOf, Pools
<1>4. InlineWellFounded'
  BY DEF InlineWellFounded, TypeOK
<1>5. QuiesceInv'
  <2>. SUFFICES ASSUME NEW x \in Tasks, pc' # "idle"
                PROVE  DuringQuiesce(x)'
    BY DEF QuiesceInv
  <2>. QED
    BY DEF QuiesceInv, DuringQuiesce, Old, NotYet, Running, TypeOK, Adding, Pools
<1>. QED
  BY <1>1, <1>2, <1>3, <1>4, <1>5

\* The queue is full: the task runs on the stack of who adds it, or goes back.
LEMMA PushFullIInv ==
  ASSUME IInv, NEW t \in Tasks, PushFull(t)
  PROVE  IInv'
<1>. USE PoolAssumption DEF IInv, PushFull, Place, counters, dynVars, mainVars
<1>1. CounterInv'
  <2>1. Counted' = Counted /\ Started' = Started /\ Idle' = Idle
    BY DEF Counted, Started, Idle, TypeOK
  <2>2. mIdleTaskQueue' = mIdleTaskQueue
    BY DEF mIdleTaskQueue, In, TypeOK, Pools, TaskInv, PlaceInv
  <2>. QED
    BY <2>1, <2>2 DEF CounterInv, TypeOK
<1>2. TypeOK'
  BY <1>1, SetSizes, Sets DEF CounterInv, TypeOK, Adding, TaskInv, AdderInv, ThreadOf
<1>3. TaskInv'
  BY DEF TaskInv, PlaceInv, AdderInv, Running, Adding, TypeOK, ThreadOf, Pools
<1>4. InlineWellFounded'
  <2>. SUFFICES ASSUME NEW S \in SUBSET Tasks, S # {}
                PROVE  \E u \in S : where'[u] # "inline" \/ by'[u] \notin S
    BY DEF InlineWellFounded
  <2>1. \A u \in Tasks : where[u] = "inline" => by[u] # t
    BY DEF TaskInv, AdderInv, Adding, Running
  <2>2. CASE S \ {t} = {}
    <3>1. where'[t] = "inline" => by'[t] # t
      BY DEF TaskInv, AdderInv, Adding, Running, TypeOK
    <3>. QED
      BY <2>2, <3>1
  <2>3. CASE S \ {t} # {}
    <3>1. PICK u \in S \ {t} : where[u] # "inline" \/ by[u] \notin S \ {t}
      BY <2>3 DEF InlineWellFounded
    <3>. QED
      BY <2>1, <3>1 DEF TypeOK
  <2>. QED
    BY <2>2, <2>3
<1>5. QuiesceInv'
  <2>. SUFFICES ASSUME NEW x \in Tasks, pc' # "idle"
                PROVE  DuringQuiesce(x)'
    BY DEF QuiesceInv
  <2>. QED
    BY DEF QuiesceInv, DuringQuiesce, Old, NotYet, Running, TypeOK, Adding, Pools,
           TaskInv, AdderInv, ThreadOf
<1>. QED
  BY <1>1, <1>2, <1>3, <1>4, <1>5

\* A worker takes a task.
LEMMA WorkerTakesIInv ==
  ASSUME IInv, NEW t \in Tasks, WorkerTakes(t)
  PROVE  IInv'
<1>. USE PoolAssumption DEF IInv, WorkerTakes, Place, counters, dynVars, mainVars
<1>1. CounterInv'
  <2>1. Counted' = Counted /\ Started' = Started /\ Idle' = Idle
    BY DEF Counted, Started, Idle, TypeOK
  <2>2. mIdleTaskQueue' = mIdleTaskQueue
    BY DEF mIdleTaskQueue, In, TypeOK, Pools, TaskInv, PlaceInv
  <2>. QED
    BY <2>1, <2>2 DEF CounterInv, TypeOK
<1>2. TypeOK'
  BY <1>1, SetSizes, Sets DEF CounterInv, TypeOK, Adding
<1>3. TaskInv'
  BY DEF TaskInv, PlaceInv, AdderInv, Running, Adding, TypeOK, ThreadOf, Pools
<1>4. InlineWellFounded'
  BY DEF InlineWellFounded, TypeOK
<1>5. QuiesceInv'
  <2>. SUFFICES ASSUME NEW x \in Tasks, pc' # "idle"
                PROVE  DuringQuiesce(x)'
    BY DEF QuiesceInv
  <2>. QED
    BY DEF QuiesceInv, DuringQuiesce, Old, NotYet, Running, TypeOK, Adding, Pools,
           Stealing, Waiting, Beyond
<1>. QED
  BY <1>1, <1>2, <1>3, <1>4, <1>5

\* A task returns. It has added nothing that is not on its way by itself.
LEMMA FinishIInv ==
  ASSUME IInv, NEW t \in Tasks, Finish(t)
  PROVE  IInv'
<1>. USE PoolAssumption DEF IInv, Finish, Place
<1>1. CounterInv'
  <2>1. Started' = Started /\ Idle' = Idle /\ mIdleTaskQueue' = mIdleTaskQueue
    BY DEF Started, Idle, mIdleTaskQueue, In, TypeOK, TaskInv, PlaceInv, Pools, Running
  <2>2. mNumPendingTasks' = Cardinality(Counted')
    <3>1. CASE counted[t]
      <4>1. Counted' = Counted \ {t} /\ t \in Counted
        BY <3>1 DEF Counted, TypeOK
      <4>2. Cardinality(Counted \ {t}) = Cardinality(Counted) - 1
        BY <4>1, SetSizes, Sets, SizeOfRemoved
      <4>. QED
        BY <3>1, <4>1, <4>2 DEF CounterInv
    <3>2. CASE ~counted[t]
      <4>1. Counted' = Counted
        BY <3>2 DEF Counted, TypeOK
      <4>. QED
        BY <3>2, <4>1 DEF CounterInv, TypeOK
    <3>. QED
      BY <3>1, <3>2
  <2>. QED
    BY <2>1, <2>2 DEF CounterInv
<1>2. TypeOK'
  BY <1>1, SetSizes, Sets DEF CounterInv, TypeOK, Adding, Stealable
<1>3. TaskInv'
  <2>. SUFFICES ASSUME NEW u \in Tasks PROVE PlaceInv(u)' /\ AdderInv(u)'
    BY DEF TaskInv
  <2>1. PlaceInv(u) /\ AdderInv(u) /\ PlaceInv(t)
    BY DEF TaskInv
  <2>2. PlaceInv(u)'
    BY <2>1 DEF PlaceInv, Running, TypeOK
  <2>3. AdderInv(u)'
    BY <2>1 DEF AdderInv, Busy, Running, TypeOK, ThreadOf, Adding
  <2>. QED
    BY <2>2, <2>3
<1>4. InlineWellFounded'
  BY DEF InlineWellFounded, TypeOK
<1>5. QuiesceInv'
  <2>. SUFFICES ASSUME NEW x \in Tasks, pc' # "idle"
                PROVE  DuringQuiesce(x)'
    BY DEF QuiesceInv
  <2>. QED
    BY DEF QuiesceInv, DuringQuiesce, Old, NotYet, Running, TypeOK, Adding, Pools,
           Stealable, Stealing, Waiting, Beyond
<1>. QED
  BY <1>1, <1>2, <1>3, <1>4, <1>5

\* A task is handed over, to one of more idle threads than there are tasks.
LEMMA HandOverIInv ==
  ASSUME IInv, NEW a \in Tasks \cup {Main}, NEW t \in Tasks,
         HandOver(a, t)
  PROVE  IInv'
<1>. USE PoolAssumption DEF IInv, HandOver, Place, mainVars, MayRunBlocking, CanAct
<1>1. CounterInv'
  <2>1. Started' = Started /\ Idle' = Idle
    BY DEF Started, Idle, NotifyOne, TypeOK
  <2>2. mIdleTaskQueue' = mIdleTaskQueue \cup {t} /\ t \notin mIdleTaskQueue
    BY DEF mIdleTaskQueue, In, TypeOK
  <2>3. Cardinality(mIdleTaskQueue') = Cardinality(mIdleTaskQueue) + 1
    BY <2>2, SetSizes, Sets, FS_AddElement
  <2>4. mNumPendingTasks' = Cardinality(Counted')
    BY WrapCounts
  <2>5. Cardinality(mIdleTaskQueue) < Cardinality(Idle)
    BY DEF HasIdleThread, CounterInv
  <2>. QED
    BY <2>1, <2>3, <2>4, <2>5, SetSizes, Sets DEF CounterInv
<1>2. TypeOK'
  BY <1>1, SetSizes, Sets
  DEF CounterInv, TypeOK, Adding, NotifyOne, wrap, WithPendingTaskCounter
<1>3. TaskInv'
  BY DEF TaskInv, PlaceInv, AdderInv, Running, Adding, TypeOK, ThreadOf, Pools,
         NotifyOne, wrap, WithPendingTaskCounter
<1>4. InlineWellFounded'
  BY DEF InlineWellFounded, TypeOK
<1>5. QuiesceInv'
  <2>. SUFFICES ASSUME NEW x \in Tasks, pc' # "idle"
                PROVE  DuringQuiesce(x)'
    BY DEF QuiesceInv
  <2>. QED
    BY DEF QuiesceInv, DuringQuiesce, Old, NotYet, Running, TypeOK, Adding, Pools,
           CounterInv, IsQuiescing, wrap, WithPendingTaskCounter
<1>. QED
  BY <1>1, <1>2, <1>3, <1>4, <1>5

\* The program is terminated.
LEMMA CleanUpIInv ==
  ASSUME IInv, NEW a \in Tasks \cup {Main}, NEW t \in Tasks, CleanUp(a, t)
  PROVE  IInv'
<1>. USE PoolAssumption DEF IInv, CleanUp, counters, taskVars, dynVars, mainVars
<1>1. CounterInv'
  <2>1. Counted' = Counted /\ Started' = Started /\ Idle' = Idle
    BY DEF Counted, Started, Idle, TypeOK
  <2>2. mIdleTaskQueue' = mIdleTaskQueue
    BY DEF mIdleTaskQueue, In, TypeOK, Pools, TaskInv, PlaceInv
  <2>. QED
    BY <2>1, <2>2 DEF CounterInv, TypeOK
<1>2. TypeOK'
  BY <1>1, SetSizes, Sets DEF CounterInv, TypeOK, Adding
<1>3. TaskInv'
  BY DEF TaskInv, PlaceInv, AdderInv, Running, Adding, TypeOK, ThreadOf, Pools
<1>4. InlineWellFounded'
  BY DEF InlineWellFounded, TypeOK
<1>5. QuiesceInv'
  <2>. SUFFICES ASSUME NEW x \in Tasks, pc' # "idle"
                PROVE  DuringQuiesce(x)'
    BY DEF QuiesceInv
  <2>. QED
    BY DEF QuiesceInv, DuringQuiesce, Old, NotYet, Running, TypeOK, Adding, Pools
<1>. QED
  BY <1>1, <1>2, <1>3, <1>4, <1>5

\* A thread is started for the task.
LEMMA StartThreadIInv ==
  ASSUME IInv, NEW a \in Tasks \cup {Main}, NEW t \in Tasks,
         StartThread(a, t)
  PROVE  IInv'
<1>. USE PoolAssumption DEF IInv, StartThread, Place, mainVars, MayRunBlocking, CanAct
<1>1. CounterInv'
  <2>1. PICK d \in Dynamic : /\ dyn[d] = "off" /\ dyn' = [dyn EXCEPT ![d] = "busy"]
                             /\ Place(t, "run", d)
    OBVIOUS
  <2>2. /\ Started' = Started \cup {d} /\ d \notin Started
        /\ Idle' = Idle /\ mIdleTaskQueue' = mIdleTaskQueue
    BY <2>1 DEF Started, Idle, mIdleTaskQueue, In, TypeOK
  <2>3. Cardinality(Started') = Cardinality(Started) + 1
    BY <2>2, SetSizes, Sets, FS_AddElement
  <2>4. mNumPendingTasks' = Cardinality(Counted')
    BY WrapCounts
  <2>. QED
    BY <2>2, <2>3, <2>4 DEF CounterInv
<1>2. TypeOK'
  <2>1. PICK d \in Dynamic : /\ dyn[d] = "off" /\ dyn' = [dyn EXCEPT ![d] = "busy"]
                             /\ Place(t, "run", d)
    OBVIOUS
  <2>2. /\ where' = [where EXCEPT ![t] = "run"] /\ on' = [on EXCEPT ![t] = d]
        /\ UNCHANGED <<by, unseen, mStopWaiting, ended, terminated, pc, scan, quiesced,
                       straddling>>
        /\ dyn' = [dyn EXCEPT ![d] = "busy"]
    BY <2>1
  <2>3. counted' = counted \/ counted' = [counted EXCEPT ![t] = TRUE]
    BY DEF wrap, WithPendingTaskCounter
  <2>. HIDE DEF StartThread
  <2>4. counted' \in [Tasks -> BOOLEAN]
    BY <2>3 DEF TypeOK
  <2>. QED
    BY <1>1, <2>2, <2>4, SetSizes, Sets DEF CounterInv, TypeOK
<1>3. TaskInv'
  BY DEF TaskInv, PlaceInv, AdderInv, Running, Adding, TypeOK, ThreadOf, Pools, wrap,
         WithPendingTaskCounter
<1>4. InlineWellFounded'
  BY DEF InlineWellFounded, TypeOK
<1>5. QuiesceInv'
  <2>. SUFFICES ASSUME NEW x \in Tasks, pc' # "idle"
                PROVE  DuringQuiesce(x)'
    BY DEF QuiesceInv
  <2>. QED
    BY DEF QuiesceInv, DuringQuiesce, Old, NotYet, Running, TypeOK, Adding, Pools,
           CounterInv, IsQuiescing, wrap, WithPendingTaskCounter
<1>. QED
  BY <1>1, <1>2, <1>3, <1>4, <1>5

\* The task is given back.
LEMMA ReturnTaskIInv ==
  ASSUME IInv, NEW a \in Tasks \cup {Main}, NEW t \in Tasks,
         ReturnTask(a, t)
  PROVE  IInv'
<1>. USE PoolAssumption
     DEF IInv, ReturnTask, Place, mainVars, counters, dynVars, MayRunBlocking, CanAct
<1>1. CounterInv'
  <2>1. Counted' = Counted /\ Started' = Started /\ Idle' = Idle
    BY DEF Counted, Started, Idle, TypeOK
  <2>2. mIdleTaskQueue' = mIdleTaskQueue
    BY DEF mIdleTaskQueue, In, TypeOK, Pools, TaskInv, PlaceInv
  <2>. QED
    BY <2>1, <2>2 DEF CounterInv, TypeOK
<1>2. TypeOK'
  BY <1>1, SetSizes, Sets DEF CounterInv, TypeOK, Adding
<1>3. TaskInv'
  BY DEF TaskInv, PlaceInv, AdderInv, Running, Adding, TypeOK, ThreadOf, Pools
<1>4. InlineWellFounded'
  BY DEF InlineWellFounded, TypeOK
<1>5. QuiesceInv'
  <2>. SUFFICES ASSUME NEW x \in Tasks, pc' # "idle"
                PROVE  DuringQuiesce(x)'
    BY DEF QuiesceInv
  <2>. QED
    BY DEF QuiesceInv, DuringQuiesce, Old, NotYet, Running, TypeOK, Adding, Pools
<1>. QED
  BY <1>1, <1>2, <1>3, <1>4, <1>5

\* A thread without a task becomes idle.
LEMMA SleepIInv ==
  ASSUME IInv, NEW d \in Dynamic, Sleep(d)
  PROVE  IInv'
<1>. USE PoolAssumption DEF IInv, Sleep, counters, taskVars, mainVars
<1>1. CounterInv'
  <2>1. /\ Counted' = Counted /\ Started' = Started
        /\ mIdleTaskQueue' = mIdleTaskQueue
    BY DEF Counted, Started, mIdleTaskQueue, In, TypeOK
  <2>2. Idle' = Idle \cup {d} /\ d \notin Idle
    BY DEF Idle, TypeOK
  <2>3. Cardinality(Idle') = Cardinality(Idle) + 1
    BY <2>2, SetSizes, Sets, FS_AddElement
  <2>. QED
    BY <2>1, <2>3, SetSizes, Sets DEF CounterInv
<1>2. TypeOK'
  BY <1>1, SetSizes, Sets DEF CounterInv, TypeOK, Adding
<1>3. TaskInv'
  BY DEF TaskInv, PlaceInv, AdderInv, Running, Adding, TypeOK, ThreadOf, Pools
<1>4. InlineWellFounded'
  BY DEF InlineWellFounded, TypeOK
<1>5. QuiesceInv'
  <2>. SUFFICES ASSUME NEW x \in Tasks, pc' # "idle"
                PROVE  DuringQuiesce(x)'
    BY DEF QuiesceInv
  <2>. QED
    BY DEF QuiesceInv, DuringQuiesce, Old, NotYet, Running, TypeOK, Adding, Pools
<1>. QED
  BY <1>1, <1>2, <1>3, <1>4, <1>5

\* The timeout, or a spurious wake-up: the thread still counts as idle.
LEMMA WakeIInv ==
  ASSUME IInv, NEW d \in Dynamic, NEW to \in {"woken", "timedOut"}, Wake(d, to)
  PROVE  IInv'
<1>. USE PoolAssumption DEF IInv, Wake, counters, taskVars, mainVars
<1>1. CounterInv'
  <2>1. Counted' = Counted /\ Started' = Started /\ Idle' = Idle
    BY DEF Counted, Started, Idle, TypeOK
  <2>2. mIdleTaskQueue' = mIdleTaskQueue
    BY DEF mIdleTaskQueue, In, TypeOK, Pools, TaskInv, PlaceInv
  <2>. QED
    BY <2>1, <2>2 DEF CounterInv, TypeOK
<1>2. TypeOK'
  BY <1>1, SetSizes, Sets DEF CounterInv, TypeOK, Adding
<1>3. TaskInv'
  BY DEF TaskInv, PlaceInv, AdderInv, Running, Adding, TypeOK, ThreadOf, Pools
<1>4. InlineWellFounded'
  BY DEF InlineWellFounded, TypeOK
<1>5. QuiesceInv'
  <2>. SUFFICES ASSUME NEW x \in Tasks, pc' # "idle"
                PROVE  DuringQuiesce(x)'
    BY DEF QuiesceInv
  <2>. QED
    BY DEF QuiesceInv, DuringQuiesce, Old, NotYet, Running, TypeOK, Adding, Pools
<1>. QED
  BY <1>1, <1>2, <1>3, <1>4, <1>5

\* A thread goes back to sleep.
LEMMA SleepAgainIInv ==
  ASSUME IInv, NEW d \in Dynamic, SleepAgain(d)
  PROVE  IInv'
<1>. USE PoolAssumption DEF IInv, SleepAgain, counters, taskVars, mainVars
<1>1. CounterInv'
  <2>1. Counted' = Counted /\ Started' = Started /\ Idle' = Idle
    BY DEF Counted, Started, Idle, TypeOK
  <2>2. mIdleTaskQueue' = mIdleTaskQueue
    BY DEF mIdleTaskQueue, In, TypeOK, Pools, TaskInv, PlaceInv
  <2>. QED
    BY <2>1, <2>2 DEF CounterInv, TypeOK
<1>2. TypeOK'
  BY <1>1, SetSizes, Sets DEF CounterInv, TypeOK, Adding
<1>3. TaskInv'
  BY DEF TaskInv, PlaceInv, AdderInv, Running, Adding, TypeOK, ThreadOf, Pools
<1>4. InlineWellFounded'
  BY DEF InlineWellFounded, TypeOK
<1>5. QuiesceInv'
  <2>. SUFFICES ASSUME NEW x \in Tasks, pc' # "idle"
                PROVE  DuringQuiesce(x)'
    BY DEF QuiesceInv
  <2>. QED
    BY DEF QuiesceInv, DuringQuiesce, Old, NotYet, Running, TypeOK, Adding, Pools
<1>. QED
  BY <1>1, <1>2, <1>3, <1>4, <1>5

\* A thread takes a task over; the last one of its kind is still idle.
LEMMA NextTaskIInv ==
  ASSUME IInv, NEW d \in Dynamic, NextTask(d)
  PROVE  IInv'
<1>. USE PoolAssumption DEF IInv, NextTask, WaitEnds, counters, mainVars
<1>1. CounterInv'
  <2>1. PICK t \in mIdleTaskQueue : Place(t, "run", d)
    OBVIOUS
  <2>2. /\ Counted' = Counted /\ Started' = Started
        /\ mIdleTaskQueue' = mIdleTaskQueue \ {t}
    BY <2>1 DEF Place, Counted, Started, mIdleTaskQueue, In, TypeOK
  <2>3. /\ Cardinality(mIdleTaskQueue) > 0
        /\ Cardinality(mIdleTaskQueue') = Cardinality(mIdleTaskQueue) - 1
    BY <2>2, SetSizes, Sets, SizeOfRemoved
  <2>4. CASE dyn[d] = "lock"
    <3>1. Idle' = Idle
      BY <2>4 DEF Idle, TypeOK
    <3>. QED
      BY <2>2, <2>3, <2>4, <3>1, SetSizes, Sets DEF CounterInv
  <2>5. CASE dyn[d] # "lock"
    <3>1. Idle' = Idle \ {d} /\ d \in Idle
      BY <2>5 DEF Idle, TypeOK
    <3>2. Cardinality(Idle') = Cardinality(Idle) - 1
      BY <3>1, SetSizes, Sets, SizeOfRemoved
    <3>. QED
      BY <2>2, <2>3, <2>5, <3>2, SetSizes, Sets DEF CounterInv
  <2>. QED
    BY <2>4, <2>5
<1>2. TypeOK'
  <2>1. PICK t \in mIdleTaskQueue : Place(t, "run", d)
    OBVIOUS
  <2>2. t \in Tasks /\ where[t] = "queue" /\ on[t] = "dynamic"
    BY DEF mIdleTaskQueue, In
  <2>. QED
    BY <2>1, <2>2, <1>1, SetSizes, Sets DEF Place, CounterInv, TypeOK, Adding
<1>3. TaskInv'
  <2>1. PICK t \in mIdleTaskQueue : Place(t, "run", d)
    OBVIOUS
  <2>2. t \in Tasks /\ where[t] = "queue" /\ dyn[d] # "busy"
    BY DEF mIdleTaskQueue, In
  <2>. QED
    BY <2>1, <2>2
    DEF Place, TaskInv, PlaceInv, AdderInv, Running, Adding, TypeOK, ThreadOf, Pools
<1>4. InlineWellFounded'
  <2>1. PICK t \in mIdleTaskQueue : Place(t, "run", d)
    OBVIOUS
  <2>2. t \in Tasks /\ where[t] = "queue" /\ on[t] = "dynamic"
    BY DEF mIdleTaskQueue, In
  <2>. QED
    BY <2>1, <2>2 DEF Place, InlineWellFounded, TypeOK
<1>5. QuiesceInv'
  <2>1. PICK t \in mIdleTaskQueue : Place(t, "run", d)
    OBVIOUS
  <2>2. t \in Tasks /\ where[t] = "queue" /\ on[t] = "dynamic"
    BY DEF mIdleTaskQueue, In
  <2>. SUFFICES ASSUME NEW x \in Tasks, pc' # "idle"
                PROVE  DuringQuiesce(x)'
    BY DEF QuiesceInv
  <2>. QED
    BY <2>1, <2>2
    DEF Place, QuiesceInv, DuringQuiesce, Old, NotYet, Running, TypeOK, Adding, Pools
<1>. QED
  BY <1>1, <1>2, <1>3, <1>4, <1>5

\* A thread ends, when there is no task for it.
LEMMA ExitIInv ==
  ASSUME IInv, NEW d \in Dynamic, Exit(d)
  PROVE  IInv'
<1>. USE PoolAssumption DEF IInv, Exit, WaitEnds, counters, taskVars
<1>1. CounterInv'
  <2>1. /\ Counted' = Counted /\ mIdleTaskQueue' = mIdleTaskQueue
        /\ Started' = Started \ {d} /\ d \in Started
    BY DEF Counted, Started, mIdleTaskQueue, In, TypeOK
  <2>2. Cardinality(Started') = Cardinality(Started) - 1
    BY <2>1, SetSizes, Sets, SizeOfRemoved
  <2>3. Cardinality(mIdleTaskQueue) = 0
    BY FS_EmptySet
  <2>4. CASE dyn[d] = "lock"
    <3>1. Idle' = Idle
      BY <2>4 DEF Idle, TypeOK
    <3>. QED
      BY <2>1, <2>2, <2>4, <3>1, SetSizes, Sets DEF CounterInv
  <2>5. CASE dyn[d] # "lock"
    <3>1. Idle' = Idle \ {d} /\ d \in Idle
      BY <2>5 DEF Idle, TypeOK
    <3>2. Cardinality(Idle') = Cardinality(Idle) - 1
      BY <3>1, SetSizes, Sets, SizeOfRemoved
    <3>. QED
      BY <2>1, <2>2, <2>3, <2>5, <3>2, SetSizes, Sets DEF CounterInv
  <2>. QED
    BY <2>4, <2>5
<1>2. TypeOK'
  BY <1>1, SetSizes, Sets DEF CounterInv, TypeOK, Adding
<1>3. TaskInv'
  BY DEF TaskInv, PlaceInv, AdderInv, Running, Adding, TypeOK, ThreadOf, Pools
<1>4. InlineWellFounded'
  BY DEF InlineWellFounded, TypeOK
<1>5. QuiesceInv'
  <2>. SUFFICES ASSUME NEW x \in Tasks, pc' # "idle"
                PROVE  DuringQuiesce(x)'
    BY DEF QuiesceInv
  <2>. QED
    BY DEF QuiesceInv, DuringQuiesce, Old, NotYet, Running, TypeOK, Adding, Pools,
           Stealing, Waiting, Beyond
<1>. QED
  BY <1>1, <1>2, <1>3, <1>4, <1>5

\* Quiesce begins: what was accepted is old, what is between its two steps is
\* straddling.
LEMMA QuiesceIInv ==
  ASSUME IInv, Quiesce
  PROVE  IInv'
<1>. USE PoolAssumption DEF IInv, Quiesce, CanAct, taskVars, dynVars, Stealing
<1>1. CounterInv'
  <2>1. Counted' = Counted /\ Started' = Started /\ Idle' = Idle
    BY DEF Counted, Started, Idle, TypeOK
  <2>2. mIdleTaskQueue' = mIdleTaskQueue
    BY DEF mIdleTaskQueue, In, TypeOK, Pools, TaskInv, PlaceInv
  <2>. QED
    BY <2>1, <2>2 DEF CounterInv, TypeOK
<1>2. TypeOK'
  BY <1>1, SetSizes, Sets DEF CounterInv, TypeOK, Adding, In, Pools
<1>3. TaskInv'
  BY DEF TaskInv, PlaceInv, AdderInv, Running, Adding, TypeOK, ThreadOf, Pools
<1>4. InlineWellFounded'
  BY DEF InlineWellFounded, TypeOK
<1>5. QuiesceInv'
  <2>. SUFFICES ASSUME NEW x \in Tasks, pc' # "idle"
                PROVE  DuringQuiesce(x)'
    BY DEF QuiesceInv
  <2>. QED
    BY DEF QuiesceInv, DuringQuiesce, Old, NotYet, Running, TypeOK, Adding, Pools,
           Waiting, Beyond, Busy, In
<1>. QED
  BY <1>1, <1>2, <1>3, <1>4, <1>5

\* Main runs a task of the pool it empties.
LEMMA StealIInv ==
  ASSUME IInv, NEW t \in Tasks, Steal(t)
  PROVE  IInv'
<1>. USE PoolAssumption DEF IInv, Steal, Place, counters, dynVars, mainVars
<1>1. CounterInv'
  <2>1. Counted' = Counted /\ Started' = Started /\ Idle' = Idle
    BY DEF Counted, Started, Idle, TypeOK
  <2>2. mIdleTaskQueue' = mIdleTaskQueue
    BY DEF mIdleTaskQueue, In, TypeOK, Pools, TaskInv, PlaceInv
  <2>. QED
    BY <2>1, <2>2 DEF CounterInv, TypeOK
<1>2. TypeOK'
  BY <1>1, SetSizes, Sets DEF CounterInv, TypeOK, Adding
<1>3. TaskInv'
  BY DEF TaskInv, PlaceInv, AdderInv, Running, Adding, TypeOK, ThreadOf, Pools
<1>4. InlineWellFounded'
  BY DEF InlineWellFounded, TypeOK
<1>5. QuiesceInv'
  <2>. SUFFICES ASSUME NEW x \in Tasks, pc' # "idle"
                PROVE  DuringQuiesce(x)'
    BY DEF QuiesceInv
  <2>. QED
    BY DEF QuiesceInv, DuringQuiesce, Old, NotYet, Running, TypeOK, Adding, Pools,
           Stealing, Waiting, Beyond
<1>. QED
  BY <1>1, <1>2, <1>3, <1>4, <1>5

\* Main found none of the tasks that were queued when it began to look.
LEMMA StealNothingIInv ==
  ASSUME IInv, NEW p \in Pools, StealNothing(p)
  PROVE  IInv'
<1>. USE PoolAssumption
     DEF IInv, StealNothing, counters, taskVars, dynVars, Stealing, Waiting
<1>1. CounterInv'
  <2>1. Counted' = Counted /\ Started' = Started /\ Idle' = Idle
    BY DEF Counted, Started, Idle, TypeOK
  <2>2. mIdleTaskQueue' = mIdleTaskQueue
    BY DEF mIdleTaskQueue, In, TypeOK, Pools, TaskInv, PlaceInv
  <2>. QED
    BY <2>1, <2>2 DEF CounterInv, TypeOK
<1>2. TypeOK'
  BY <1>1, SetSizes, Sets DEF CounterInv, TypeOK, Adding
<1>3. TaskInv'
  BY DEF TaskInv, PlaceInv, AdderInv, Running, Adding, TypeOK, ThreadOf, Pools
<1>4. InlineWellFounded'
  BY DEF InlineWellFounded, TypeOK
<1>5. QuiesceInv'
  <2>. SUFFICES ASSUME NEW x \in Tasks, pc' # "idle"
                PROVE  DuringQuiesce(x)'
    BY DEF QuiesceInv
  <2>. QED
    BY DEF QuiesceInv, DuringQuiesce, Old, NotYet, Running, TypeOK, Adding, Pools,
           NoneRuns, In, Beyond
<1>. QED
  BY <1>1, <1>2, <1>3, <1>4, <1>5

\* All workers of a pool are blocked.
LEMMA PoolBlockedIInv ==
  ASSUME IInv, NEW p \in Pools, PoolBlocked(p)
  PROVE  IInv'
<1>. USE PoolAssumption
     DEF IInv, PoolBlocked, counters, taskVars, dynVars, Stealing, Waiting
<1>1. CounterInv'
  <2>1. Counted' = Counted /\ Started' = Started /\ Idle' = Idle
    BY DEF Counted, Started, Idle, TypeOK
  <2>2. mIdleTaskQueue' = mIdleTaskQueue
    BY DEF mIdleTaskQueue, In, TypeOK, Pools, TaskInv, PlaceInv
  <2>. QED
    BY <2>1, <2>2 DEF CounterInv, TypeOK
<1>2. TypeOK'
  BY <1>1, SetSizes, Sets DEF CounterInv, TypeOK, Adding, In, Pools
<1>3. TaskInv'
  BY DEF TaskInv, PlaceInv, AdderInv, Running, Adding, TypeOK, ThreadOf, Pools
<1>4. InlineWellFounded'
  BY DEF InlineWellFounded, TypeOK
<1>5. QuiesceInv'
  <2>. SUFFICES ASSUME NEW x \in Tasks, pc' # "idle"
                PROVE  DuringQuiesce(x)'
    BY DEF QuiesceInv
  <2>. QED
    BY DEF QuiesceInv, DuringQuiesce, Old, NotYet, Running, TypeOK, Adding, Pools,
           NoneRuns, AllBlocked, In, Beyond
<1>. QED
  BY <1>1, <1>2, <1>3, <1>4, <1>5

\* When no dynamic thread is left, no task waits for one or runs on one: the
\* transfer queue is no longer than the set of idle threads, which is empty.
LEMMA ThreadsEnded ==
  ASSUME IInv, mNumDynamicThreads = 0
  PROVE  \A x \in Tasks : /\ Running(x) => on[x] \notin Dynamic
                          /\ where[x] = "queue" => on[x] # "dynamic"
<1>. USE DEF IInv
<1>1. Started = {}
  BY SetSizes, Sets, FS_EmptySet DEF CounterInv
<1>2. Idle = {}
  BY <1>1 DEF Idle, Started
<1>3. Cardinality(mIdleTaskQueue) = 0
  BY <1>2, SetSizes, Sets, FS_EmptySet DEF CounterInv
<1>4. mIdleTaskQueue = {}
  BY <1>3, SetSizes, Sets, FS_EmptySet
<1>5. ASSUME NEW x \in Tasks, Running(x), on[x] \in Dynamic PROVE FALSE
  <2>1. PICK y \in Tasks : where[y] = "run" /\ on[y] = on[x]
    BY <1>5, RunBeneath
  <2>2. dyn[on[x]] = "busy"
    BY <1>5, <2>1 DEF TaskInv, PlaceInv
  <2>. QED
    BY <1>1, <1>5, <2>2 DEF Started
<1>. QED
  BY <1>4, <1>5 DEF mIdleTaskQueue, In

\* Main tells the idle threads to end, and sleeps unless all have.
LEMMA StopWaitingIInv ==
  ASSUME IInv, StopWaiting
  PROVE  IInv'
<1>. USE PoolAssumption DEF IInv, StopWaiting, CheckExited, counters, taskVars
<1>0. mNumDynamicThreads = 0 =>
        \A x \in Tasks : /\ Running(x) => on[x] \notin Dynamic
                         /\ where[x] = "queue" => on[x] # "dynamic"
  BY ThreadsEnded
<1>1. CounterInv'
  <2>1. /\ Counted' = Counted /\ Started' = Started /\ Idle' = Idle
        /\ mIdleTaskQueue' = mIdleTaskQueue
    BY DEF Counted, Started, Idle, mIdleTaskQueue, In, TypeOK
  <2>. QED
    BY <2>1 DEF CounterInv
<1>2. TypeOK'
  BY <1>1, SetSizes, Sets DEF CounterInv, TypeOK, Adding
<1>3. TaskInv'
  BY DEF TaskInv, PlaceInv, AdderInv, Running, Adding, TypeOK, ThreadOf, Pools
<1>4. InlineWellFounded'
  BY DEF InlineWellFounded, TypeOK
<1>5. QuiesceInv'
  <2>. SUFFICES ASSUME NEW x \in Tasks, pc' # "idle"
                PROVE  DuringQuiesce(x)'
    BY DEF QuiesceInv
  <2>1. DuringQuiesce(x) /\ PlaceInv(x)
    BY DEF QuiesceInv, TaskInv
  <2>. QED
    BY <1>0, <2>1
    DEF PlaceInv, DuringQuiesce, Old, NotYet, Running, TypeOK, Adding, Pools, Stealing,
        Waiting, Beyond
<1>. QED
  BY <1>1, <1>2, <1>3, <1>4, <1>5

\* Main looks again whether all threads have ended.
LEMMA ExitNoticedIInv ==
  ASSUME IInv, ExitNoticed
  PROVE  IInv'
<1>. USE PoolAssumption DEF IInv, ExitNoticed, CheckExited, counters, taskVars
<1>0. mNumDynamicThreads = 0 =>
        \A x \in Tasks : /\ Running(x) => on[x] \notin Dynamic
                         /\ where[x] = "queue" => on[x] # "dynamic"
  BY ThreadsEnded
<1>1. CounterInv'
  <2>1. /\ Counted' = Counted /\ Started' = Started /\ Idle' = Idle
        /\ mIdleTaskQueue' = mIdleTaskQueue
    BY DEF Counted, Started, Idle, mIdleTaskQueue, In, TypeOK
  <2>. QED
    BY <2>1 DEF CounterInv
<1>2. TypeOK'
  BY <1>1, SetSizes, Sets DEF CounterInv, TypeOK, Adding
<1>3. TaskInv'
  BY DEF TaskInv, PlaceInv, AdderInv, Running, Adding, TypeOK, ThreadOf, Pools
<1>4. InlineWellFounded'
  BY DEF InlineWellFounded, TypeOK
<1>5. QuiesceInv'
  <2>. SUFFICES ASSUME NEW x \in Tasks, pc' # "idle"
                PROVE  DuringQuiesce(x)'
    BY DEF QuiesceInv
  <2>1. DuringQuiesce(x) /\ PlaceInv(x)
    BY DEF QuiesceInv, TaskInv
  <2>. QED
    BY <1>0, <2>1
    DEF PlaceInv, DuringQuiesce, Old, NotYet, Running, TypeOK, Adding, Pools, Stealing,
        Waiting, Beyond
<1>. QED
  BY <1>1, <1>2, <1>3, <1>4, <1>5

\* Main wakes without a notification.
LEMMA SpuriousWakeupIInv ==
  ASSUME IInv, SpuriousWakeup
  PROVE  IInv'
<1>. USE PoolAssumption DEF IInv, SpuriousWakeup, counters, taskVars, dynVars
<1>1. CounterInv'
  <2>1. Counted' = Counted /\ Started' = Started /\ Idle' = Idle
    BY DEF Counted, Started, Idle, TypeOK
  <2>2. mIdleTaskQueue' = mIdleTaskQueue
    BY DEF mIdleTaskQueue, In, TypeOK, Pools, TaskInv, PlaceInv
  <2>. QED
    BY <2>1, <2>2 DEF CounterInv, TypeOK
<1>2. TypeOK'
  BY <1>1, SetSizes, Sets DEF CounterInv, TypeOK, Adding
<1>3. TaskInv'
  BY DEF TaskInv, PlaceInv, AdderInv, Running, Adding, TypeOK, ThreadOf, Pools
<1>4. InlineWellFounded'
  BY DEF InlineWellFounded, TypeOK
<1>5. QuiesceInv'
  <2>. SUFFICES ASSUME NEW x \in Tasks, pc' # "idle"
                PROVE  DuringQuiesce(x)'
    BY DEF QuiesceInv
  <2>. QED
    BY DEF QuiesceInv, DuringQuiesce, Old, NotYet, Running, TypeOK, Adding, Pools,
           Stealing, Waiting, Beyond
<1>. QED
  BY <1>1, <1>2, <1>3, <1>4, <1>5

\* Another pass over the pools: nothing old is left.
LEMMA QuiesceAgainIInv ==
  ASSUME IInv, QuiesceAgain
  PROVE  IInv'
<1>. USE PoolAssumption DEF IInv, QuiesceAgain, counters, taskVars, dynVars, Stealing
<1>1. CounterInv'
  <2>1. Counted' = Counted /\ Started' = Started /\ Idle' = Idle
    BY DEF Counted, Started, Idle, TypeOK
  <2>2. mIdleTaskQueue' = mIdleTaskQueue
    BY DEF mIdleTaskQueue, In, TypeOK, Pools, TaskInv, PlaceInv
  <2>. QED
    BY <2>1, <2>2 DEF CounterInv, TypeOK
<1>2. TypeOK'
  BY <1>1, SetSizes, Sets DEF CounterInv, TypeOK, Adding, In, Pools
<1>3. TaskInv'
  BY DEF TaskInv, PlaceInv, AdderInv, Running, Adding, TypeOK, ThreadOf, Pools
<1>4. InlineWellFounded'
  BY DEF InlineWellFounded, TypeOK
<1>5. QuiesceInv'
  <2>. SUFFICES ASSUME NEW x \in Tasks, pc' # "idle"
                PROVE  DuringQuiesce(x)'
    BY DEF QuiesceInv
  <2>. QED
    BY DEF QuiesceInv, DuringQuiesce, Old, NotYet, Running, TypeOK, Adding, Pools,
           Stealing, Waiting, Beyond
<1>. QED
  BY <1>1, <1>2, <1>3, <1>4, <1>5

\* Quiesce returns.
LEMMA QuiesceReturnsIInv ==
  ASSUME IInv, QuiesceReturns
  PROVE  IInv'
<1>. USE PoolAssumption DEF IInv, QuiesceReturns, taskVars, dynVars
<1>1. CounterInv'
  <2>1. Counted' = Counted /\ Started' = Started /\ Idle' = Idle
    BY DEF Counted, Started, Idle, TypeOK
  <2>2. mIdleTaskQueue' = mIdleTaskQueue
    BY DEF mIdleTaskQueue, In, TypeOK, Pools, TaskInv, PlaceInv
  <2>. QED
    BY <2>1, <2>2 DEF CounterInv, TypeOK
<1>2. TypeOK'
  BY <1>1, SetSizes, Sets DEF CounterInv, TypeOK, Adding
<1>3. TaskInv'
  BY DEF TaskInv, PlaceInv, AdderInv, Running, Adding, TypeOK, ThreadOf, Pools
<1>4. InlineWellFounded'
  BY DEF InlineWellFounded, TypeOK
<1>5. QuiesceInv'
  <2>. SUFFICES ASSUME NEW x \in Tasks, pc' # "idle"
                PROVE  DuringQuiesce(x)'
    BY DEF QuiesceInv
  <2>. QED
    BY DEF QuiesceInv, DuringQuiesce, Old, NotYet, Running, TypeOK, Adding, Pools,
           Stealing, Waiting, Beyond
<1>. QED
  BY <1>1, <1>2, <1>3, <1>4, <1>5

-------------------------------------------------------------------------------
\* Every step of the queue keeps IInv.
LEMMA IInvStep == IInv /\ [Next]_vars => IInv'
<1>. SUFFICES ASSUME IInv, [Next]_vars PROVE IInv'
  OBVIOUS
<1>1. ASSUME NEW a \in Tasks \cup {Main}, NEW t \in Tasks, Calls(a, t) PROVE IInv'
  BY <1>1, AddIInv, HandOverIInv, CleanUpIInv, StartThreadIInv, ReturnTaskIInv
  DEF Calls, RunBlockingTask
<1>2. ASSUME NEW t \in Tasks, TaskStep(t) PROVE IInv'
  BY <1>2, CountTaskIInv, PushIInv, PushFullIInv, WorkerTakesIInv, FinishIInv DEF TaskStep
<1>3. ASSUME NEW d \in Dynamic, DynamicStep(d) PROVE IInv'
  BY <1>3, SleepIInv, SleepAgainIInv, NextTaskIInv, ExitIInv DEF DynamicStep
<1>4. ASSUME NEW d \in Dynamic, Wake(d, "woken") \/ Wake(d, "timedOut") PROVE IInv'
  BY <1>4, WakeIInv
<1>5. CASE Quiesce
  BY <1>5, QuiesceIInv
<1>6. CASE QuiesceStep
  BY <1>6, StealIInv, StealNothingIInv, PoolBlockedIInv, StopWaitingIInv,
     ExitNoticedIInv, QuiesceAgainIInv, QuiesceReturnsIInv DEF QuiesceStep
<1>7. CASE SpuriousWakeup
  BY <1>7, SpuriousWakeupIInv
<1>8. CASE UNCHANGED vars
  <2>. USE <1>8 DEF vars, counters, taskVars, dynVars, mainVars, IInv
  <2>1. TypeOK'
    BY DEF TypeOK
  <2>2. CounterInv'
    BY DEF CounterInv, Counted, Started, Idle, mIdleTaskQueue, In
  <2>3. TaskInv' /\ InlineWellFounded'
    BY DEF TaskInv, PlaceInv, AdderInv, Running, ThreadOf, InlineWellFounded
  <2>4. QuiesceInv'
    BY DEF QuiesceInv, DuringQuiesce, Old, NotYet, Running
  <2>. QED
    BY <2>1, <2>2, <2>3, <2>4
<1>. QED
  BY <1>1, <1>2, <1>3, <1>4, <1>5, <1>6, <1>7, <1>8 DEF Next, Terminated

\* The four counters of the two pools are exact at all times: the threads that
\* hold a PendingTask, that were started, and that are idle, for any number of
\* tasks and threads.
THEOREM CountersExact == Spec => []IInv
<1>1. Init => IInv
  BY InitIInv
<1>2. IInv /\ [Next]_vars => IInv'
  BY IInvStep
<1>. QED
  BY <1>1, <1>2, PTL DEF Spec

\* The transfer queue never holds more tasks than there are idle threads,
\* whichever of them time out or wake up while tasks are handed over.
THEOREM TransferQueueBounded == Spec => []TransferBounded
<1>1. IInv => TransferBounded
  BY DEF IInv, CounterInv, TransferBounded
<1>. QED
  BY <1>1, CountersExact, PTL

\* With no task counted, what is alive behind the last step of Quiesce straddles
\* its beginning or is about to be counted by a task that does.
LEMMA NothingOldLeft ==
  ASSUME IInv, pc = "pending", mNumPendingTasks = 0,
         NEW t \in Alive \ straddling
  PROVE  where[t] = "counting" /\ by[t] \in straddling
<1>. USE DEF IInv
<1>1. Counted = {}
  BY SetSizes, Sets, FS_EmptySet DEF CounterInv
<1>2. \A x \in Tasks : ~counted[x] /\ DuringQuiesce(x) /\ AdderInv(x)
  BY <1>1 DEF Counted, QuiesceInv, TaskInv
<1>3. t \in Tasks /\ where[t] = "counting"
  BY <1>2 DEF Alive, DuringQuiesce, Old, NotYet, Adding
<1>4. by[t] \in Tasks /\ Running(by[t])
  BY <1>2, <1>3 DEF DuringQuiesce, AdderInv, Adding, TypeOK
<1>5. by[t] \in straddling
  BY <1>2, <1>4 DEF DuringQuiesce, Old, NotYet, Running
<1>. QED
  BY <1>3, <1>5

\* Quiesce returns from its last step, and only when nothing is counted.
LEMMA ReturnsUncounted ==
  ASSUME Next, pc = "pending", pc' = "idle"
  PROVE  mNumPendingTasks = 0
<1>. USE DEF mainVars
<1>1. ~ \E a \in Tasks \cup {Main}, t \in Tasks : Calls(a, t)
  BY DEF Calls, RunBlockingTask, Add, HandOver, CleanUp, StartThread, ReturnTask
<1>2. ~ \E t \in Tasks : TaskStep(t)
  BY DEF TaskStep, CountTask, Push, PushFull, WorkerTakes, Finish
<1>3. ~ \E d \in Dynamic : DynamicStep(d) \/ Wake(d, "woken") \/ Wake(d, "timedOut")
  BY DEF DynamicStep, Wake, Sleep, SleepAgain, NextTask, Exit
<1>4. ~Quiesce /\ ~SpuriousWakeup /\ ~Terminated
  BY DEF Quiesce, CanAct, SpuriousWakeup, Terminated, vars
<1>5. QuiesceStep => QuiesceReturns
  BY DEF QuiesceStep, Steal, StealNothing, PoolBlocked, StopWaiting, ExitNoticed,
         QuiesceAgain, Stealing, Waiting
<1>. QED
  BY <1>1, <1>2, <1>3, <1>4, <1>5 DEF Next, QuiesceReturns, HasPendingTasks

\* When Quiesce returns, nothing is left of the tasks that were accepted when it
\* began and of all that they added, in either pool or on a dynamic thread,
\* except what straddles its beginning.
THEOREM QuiesceLeavesNothing == Spec => QuiescedMeansEmpty
<1>1. IInv /\ [Next]_vars =>
        [pc = "pending" /\ pc' = "idle" =>
           \A t \in Alive \ straddling :
             where[t] = "counting" /\ by[t] \in straddling]_vars
  BY NothingOldLeft, ReturnsUncounted
<1>. QED
  BY <1>1, CountersExact, PTL DEF Spec, QuiescedMeansEmpty
===============================================================================
