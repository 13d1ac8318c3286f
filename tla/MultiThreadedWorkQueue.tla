------------------------ MODULE MultiThreadedWorkQueue ------------------------
(***************************************************************************)
(* MultiThreadedWorkQueue (context/multi_threaded_work_queue.cpp): a pool  *)
(* for non-blocking tasks, a pool for blocking ones, the dynamic threads   *)
(* of BlockingWorkQueue, and the pending-task counter that they share.     *)
(*                                                                         *)
(* The fixed pools are abstracted to what WorkQueue shows of them: a task  *)
(* that was pushed is run by some worker, and AllBlocked holds only while  *)
(* no worker runs a task; a queue may then hold a task only if the workers *)
(* had already looked into it when the task was pushed.  The dynamic       *)
(* threads are modelled in full; what they and their callers do under      *)
(* mMutex is one step.                                                     *)
(*                                                                         *)
(* Tasks add tasks: a running task may call AddTask or AddBlockingTask for *)
(* any task that was not added before, and so may Main, which also calls   *)
(* Quiesce.  The tasks are the threads of control of this specification;   *)
(* on[t] says on which thread a task runs.                                 *)
(***************************************************************************)
EXTENDS Integers, FiniteSets

CONSTANTS Tasks,
          Dynamic,   \* threads that RunBlockingTask may start
          Main,      \* the thread that calls Quiesce
          kCapacity, \* of one queue of a pool
          MaxQuiesce \* bound: calls of Quiesce

ASSUME PoolAssumption ==
  /\ IsFiniteSet(Tasks) /\ IsFiniteSet(Dynamic)
  /\ Main \notin Tasks \cup Dynamic
  /\ ({Main} \cup Dynamic) \cap {"nonBlocking", "blocking", "dynamic"} = {}
  /\ kCapacity \in Nat \ {0} /\ MaxQuiesce \in Nat

VARIABLES
  mNumQuiescing, mNumPendingTasks,  \* QuiescingState
  where,    \* per task: "new", "counting" and "call" (being added), "queue",
            \* "run", "inline" (run by who adds it), "done", "returned"
  on,       \* per task: the pool it is added to, or the thread that runs it
  by,       \* per task that is being added or runs inline: who adds it
  counted,  \* per task: it holds a PendingTask
  unseen,   \* queued tasks that were pushed while no worker of the pool ran a
            \* task, so that no worker has to look for them before it blocks
  mNumDynamicThreads, mNumIdleDynamicThreads, mStopWaiting,
  dyn,      \* per dynamic thread: where it is, see TypeOK
  ended,    \* an entry of mDynamicThreads belongs to a thread that has ended
  terminated,  \* std::terminate was called
  pc,       \* of Main
  scan,     \* tasks that were queued when Main's Steal began
  quiesced,   \* for the bound
  straddling  \* history: tasks whose call read IsQuiescing before a Quiesce
              \* began and pushed after it

counters == <<mNumQuiescing, mNumPendingTasks>>
taskVars == <<where, on, by, counted, unseen>>
dynVars ==
  <<mNumDynamicThreads, mNumIdleDynamicThreads, mStopWaiting, dyn, ended>>
mainVars == <<pc, scan, quiesced, straddling>>
vars == <<counters, taskVars, dynVars, terminated, mainVars>>

Pools == {"nonBlocking", "blocking"}
In(w, p) == {t \in Tasks : where[t] = w /\ on[t] = p}
mIdleTaskQueue == In("queue", "dynamic")
Adding == {"counting", "call", "inline"}
Busy(a) == \E t \in Tasks : where[t] \in Adding /\ by[t] = a
Running(t) == where[t] \in {"run", "inline"}
NoneRuns(p) == \A t \in Tasks : ~(Running(t) /\ on[t] = p)
AllBlocked(p) == NoneRuns(p) /\ In("queue", p) \subseteq unseen

Stealing(p) == IF p = "blocking" THEN "stealBlocking" ELSE "steal"
Waiting(p) == IF p = "blocking" THEN "waitBlocking" ELSE "wait"

Init ==
  /\ mNumQuiescing = 0 /\ mNumPendingTasks = 0
  /\ where = [t \in Tasks |-> "new"]
  /\ on = [t \in Tasks |-> Main]
  /\ by = [t \in Tasks |-> Main]
  /\ counted = [t \in Tasks |-> FALSE]
  /\ unseen = {}
  /\ mNumDynamicThreads = 0 /\ mNumIdleDynamicThreads = 0
  /\ mStopWaiting = FALSE
  /\ dyn = [d \in Dynamic |-> "off"]
  /\ ended = FALSE /\ terminated = FALSE
  /\ pc = "idle" /\ scan = {}
  /\ quiesced = 0 /\ straddling = {}

IsQuiescing == mNumQuiescing > 0
CanAct(a) ==
  ~terminated /\ ~Busy(a) /\ IF a = Main THEN pc = "idle" ELSE Running(a)
ThreadOf(a) == IF a = Main THEN Main ELSE on[a]
Place(t, w, p) ==
  /\ where' = [where EXCEPT ![t] = w]
  /\ on' = [on EXCEPT ![t] = p]
WithPendingTaskCounter(t) ==
  /\ counted' = [counted EXCEPT ![t] = TRUE]
  /\ mNumPendingTasks' = mNumPendingTasks + 1

(***************************************************************************)
(* AddTask and EnqueueBlockingTask: first they look whether a Quiesce is   *)
(* under way, and if so count the task; then they push.  A push fails when *)
(* the queue it tries is full, which takes kCapacity tasks in the pool.    *)
(***************************************************************************)
Add(a, t, p) ==
  /\ CanAct(a) /\ where[t] = "new" /\ t # a
  /\ Place(t, IF IsQuiescing THEN "counting" ELSE "call", p)
  /\ by' = [by EXCEPT ![t] = a]
  /\ UNCHANGED <<counters, counted, unseen, dynVars, terminated, mainVars>>

CountTask(t) ==
  /\ where[t] = "counting" /\ ~terminated
  /\ Place(t, "call", on[t])
  /\ WithPendingTaskCounter(t)
  /\ UNCHANGED <<mNumQuiescing, by, unseen, dynVars, terminated, mainVars>>

Push(t) ==
  /\ where[t] = "call" /\ ~terminated
  /\ Place(t, "queue", on[t])
  /\ by' = [by EXCEPT ![t] = Main]
  /\ unseen' = IF NoneRuns(on[t]) THEN unseen \cup {t} ELSE unseen
  /\ UNCHANGED <<counters, counted, dynVars, terminated, mainVars>>

\* The task runs in the caller; EnqueueBlockingTask does so only in quiescing
\* mode and else gives it back.
PushFull(t) ==
  /\ where[t] = "call" /\ ~terminated
  /\ Cardinality(In("queue", on[t])) >= kCapacity
  /\ IF on[t] = "blocking" /\ ~counted[t]
       THEN Place(t, "returned", Main) /\ by' = [by EXCEPT ![t] = Main]
       ELSE Place(t, "inline", ThreadOf(by[t])) /\ UNCHANGED by
  /\ UNCHANGED <<counters, counted, unseen, dynVars, terminated, mainVars>>

\* A worker of a fixed pool takes a task.
WorkerTakes(t) ==
  /\ where[t] = "queue" /\ on[t] \in Pools /\ ~terminated
  /\ Place(t, "run", on[t])
  /\ unseen' = {x \in unseen : on[x] # on[t]}
  /\ UNCHANGED <<counters, by, counted, dynVars, terminated, mainVars>>

Stealable ==
  {x \in Tasks : where[x] = "queue" /\ on[x] \in Pools /\ pc = Stealing(on[x])}

\* A task returns and is destroyed, and with it its PendingTask.  A dynamic
\* thread then locks mMutex, and Main looks for the next task to steal.
Finish(t) ==
  /\ Running(t) /\ ~Busy(t) /\ ~terminated
  /\ Place(t, "done", Main)
  /\ by' = [by EXCEPT ![t] = Main]
  /\ counted' = [counted EXCEPT ![t] = FALSE]
  /\ mNumPendingTasks' = mNumPendingTasks - IF counted[t] THEN 1 ELSE 0
  /\ dyn' = IF where[t] = "run" /\ on[t] \in Dynamic
              THEN [dyn EXCEPT ![on[t]] = "lock"] ELSE dyn
  /\ scan' = IF where[t] = "run" /\ on[t] = Main THEN Stealable ELSE scan
  /\ UNCHANGED <<mNumQuiescing, unseen, mNumDynamicThreads,
                 mNumIdleDynamicThreads, mStopWaiting, ended, terminated, pc,
                 quiesced, straddling>>

(***************************************************************************)
(* RunBlockingTask.  Reading IsQuiescing and counting are one step: a      *)
(* Quiesce that begins in between has yet to take mMutex, and then waits   *)
(* for the thread that got the task.                                       *)
(***************************************************************************)
wrap(t) ==
  IF IsQuiescing THEN WithPendingTaskCounter(t)
                 ELSE UNCHANGED <<counted, mNumPendingTasks>>
MayRunBlocking(a, t) == CanAct(a) /\ where[t] = "new" /\ t # a

\* notify_one wakes a sleeping thread, if there is one.
NotifyOne ==
  \/ \E d \in Dynamic : dyn[d] = "asleep" /\ dyn' = [dyn EXCEPT ![d] = "woken"]
  \/ (\A d \in Dynamic : dyn[d] # "asleep") /\ UNCHANGED dyn

\* Mutant: one task more than there are idle threads.
HasIdleThreadOrEqual == Cardinality(mIdleTaskQueue) <= mNumIdleDynamicThreads

HasIdleThread == Cardinality(mIdleTaskQueue) < mNumIdleDynamicThreads

HandOver(a, t) ==
  /\ MayRunBlocking(a, t) /\ HasIdleThread
  /\ Place(t, "queue", "dynamic")
  /\ wrap(t)
  /\ NotifyOne
  /\ UNCHANGED <<mNumQuiescing, by, unseen, mNumDynamicThreads,
                 mNumIdleDynamicThreads, mStopWaiting, ended, terminated,
                 mainVars>>

\* Entries of ended threads are removed; their std::thread was never joined.
CleanUp(a, t) ==
  /\ MayRunBlocking(a, t) /\ ~HasIdleThread /\ ended
  /\ terminated' = TRUE
  /\ UNCHANGED <<counters, taskVars, dynVars, mainVars>>

StartThread(a, t) ==
  /\ MayRunBlocking(a, t) /\ ~HasIdleThread /\ ~ended
  /\ mNumDynamicThreads < Cardinality(Dynamic)
  /\ \E d \in Dynamic : /\ dyn[d] = "off"
                        /\ dyn' = [dyn EXCEPT ![d] = "busy"]
                        /\ Place(t, "run", d)
  /\ wrap(t)
  /\ mNumDynamicThreads' = mNumDynamicThreads + 1
  /\ UNCHANGED <<mNumQuiescing, by, unseen, mNumIdleDynamicThreads,
                 mStopWaiting, ended, terminated, mainVars>>

\* At the limit the task goes back, without a counter.
ReturnTask(a, t) ==
  /\ MayRunBlocking(a, t) /\ ~HasIdleThread /\ ~ended
  /\ mNumDynamicThreads >= Cardinality(Dynamic)
  /\ Place(t, "returned", Main)
  /\ UNCHANGED <<counters, by, counted, unseen, dynVars, terminated, mainVars>>

(***************************************************************************)
(* A dynamic thread between two tasks: WaitNextTask, and the end of        *)
(* do_work.  The idle count goes up and down again when there is no wait.  *)
(***************************************************************************)
StopsWaiting == mIdleTaskQueue # {} \/ mStopWaiting

Sleep(d) ==
  /\ dyn[d] = "lock" /\ ~StopsWaiting /\ ~terminated
  /\ mNumIdleDynamicThreads' = mNumIdleDynamicThreads + 1
  /\ dyn' = [dyn EXCEPT ![d] = "asleep"]
  /\ UNCHANGED <<counters, taskVars, mNumDynamicThreads, mStopWaiting, ended,
                 terminated, mainVars>>

\* The timeout, or a spurious wake-up.
Wake(d, to) ==
  /\ dyn[d] = "asleep" /\ ~terminated
  /\ dyn' = [dyn EXCEPT ![d] = to]
  /\ UNCHANGED <<counters, taskVars, mNumDynamicThreads,
                 mNumIdleDynamicThreads, mStopWaiting, ended, terminated,
                 mainVars>>

SleepAgain(d) ==
  /\ dyn[d] = "woken" /\ ~StopsWaiting /\ ~terminated
  /\ dyn' = [dyn EXCEPT ![d] = "asleep"]
  /\ UNCHANGED <<counters, taskVars, mNumDynamicThreads,
                 mNumIdleDynamicThreads, mStopWaiting, ended, terminated,
                 mainVars>>

WaitEnds(d) ==
  /\ ~terminated
  /\ \/ dyn[d] \in {"lock", "woken"} /\ StopsWaiting
     \/ dyn[d] = "timedOut"
  /\ mNumIdleDynamicThreads' = mNumIdleDynamicThreads
                                 - IF dyn[d] = "lock" THEN 0 ELSE 1

\* The predicate is evaluated once more after a timeout, so that a task that
\* was handed over in the meantime is found.
NextTask(d) ==
  /\ WaitEnds(d)
  /\ \E t \in mIdleTaskQueue : Place(t, "run", d)
  /\ dyn' = [dyn EXCEPT ![d] = "busy"]
  /\ UNCHANGED <<counters, by, counted, unseen, mNumDynamicThreads,
                 mStopWaiting, ended, terminated, mainVars>>

\* Mutant: the thread that ends does not notify.
ExitSilently(d) ==
  /\ WaitEnds(d) /\ mIdleTaskQueue = {}
  /\ dyn' = [dyn EXCEPT ![d] = "off"]
  /\ ended' = TRUE
  /\ mNumDynamicThreads' = mNumDynamicThreads - 1
  /\ UNCHANGED <<counters, taskVars, mStopWaiting, terminated, mainVars>>

Exit(d) ==
  /\ WaitEnds(d) /\ mIdleTaskQueue = {}
  /\ dyn' = [dyn EXCEPT ![d] = "off"]
  /\ ended' = TRUE
  /\ mNumDynamicThreads' = mNumDynamicThreads - 1
  /\ pc' = IF mStopWaiting /\ pc = "exitSleep" THEN "exitCheck" ELSE pc
  /\ UNCHANGED <<counters, taskVars, mStopWaiting, terminated, scan, quiesced,
                 straddling>>

(***************************************************************************)
(* Quiesce, called by Main.  Each of the fixed pools has its tasks stolen  *)
(* until none is found, and then all its workers have to block.  Steal     *)
(* looks at one queue after the other: it finds what is queued all the     *)
(* time, and may miss what is added behind its back.                       *)
(***************************************************************************)
Quiesce ==
  /\ CanAct(Main) /\ quiesced < MaxQuiesce
  /\ quiesced' = quiesced + 1
  /\ mNumQuiescing' = mNumQuiescing + 1
  /\ straddling' = {t \in Tasks : where[t] = "call"}
  /\ pc' = Stealing("nonBlocking")
  /\ scan' = In("queue", "nonBlocking")
  /\ UNCHANGED <<mNumPendingTasks, taskVars, dynVars, terminated>>

\* Main runs a task that it stole.
Steal(t) ==
  /\ where[t] = "queue" /\ on[t] \in Pools /\ ~terminated
  /\ pc = Stealing(on[t]) /\ NoneRuns(Main)
  /\ Place(t, "run", Main)
  /\ unseen' = unseen \ {t}
  /\ UNCHANGED <<counters, by, counted, dynVars, terminated, mainVars>>

StealNothing(p) ==
  /\ pc = Stealing(p) /\ NoneRuns(Main) /\ ~terminated
  /\ scan \cap In("queue", p) = {}
  /\ pc' = Waiting(p) /\ scan' = {}
  /\ UNCHANGED <<counters, taskVars, dynVars, terminated, quiesced,
                 straddling>>

PoolBlocked(p) ==
  /\ pc = Waiting(p) /\ AllBlocked(p) /\ ~terminated
  /\ IF p = "nonBlocking"
       THEN pc' = Stealing("blocking") /\ scan' = In("queue", "blocking")
       ELSE pc' = "stop" /\ UNCHANGED scan
  /\ UNCHANGED <<counters, taskVars, dynVars, terminated, quiesced,
                 straddling>>

\* Under mMutex: all dynamic threads have ended, or Main sleeps.
CheckExited ==
  IF mNumDynamicThreads = 0
    THEN mStopWaiting' = FALSE /\ pc' = "pending"
    ELSE mStopWaiting' = TRUE /\ pc' = "exitSleep"

\* BlockingWorkQueue::Quiesce wakes the idle threads and waits for their end.
StopWaiting ==
  /\ pc = "stop" /\ ~terminated
  /\ dyn' = [d \in Dynamic |-> IF dyn[d] = "asleep" THEN "woken" ELSE dyn[d]]
  /\ CheckExited
  /\ UNCHANGED <<counters, taskVars, mNumDynamicThreads,
                 mNumIdleDynamicThreads, ended, terminated, scan, quiesced,
                 straddling>>

ExitNoticed ==
  /\ pc = "exitCheck" /\ ~terminated
  /\ CheckExited
  /\ UNCHANGED <<counters, taskVars, mNumDynamicThreads,
                 mNumIdleDynamicThreads, dyn, ended, terminated, scan,
                 quiesced, straddling>>

SpuriousWakeup ==
  /\ pc = "exitSleep" /\ ~terminated
  /\ pc' = "exitCheck"
  /\ UNCHANGED <<counters, taskVars, dynVars, terminated, scan, quiesced,
                 straddling>>

\* Mutant: one pass over both pools.
HasPendingTasksNever == FALSE

HasPendingTasks == mNumPendingTasks # 0

QuiesceAgain ==
  /\ pc = "pending" /\ HasPendingTasks /\ ~terminated
  /\ pc' = Stealing("nonBlocking") /\ scan' = In("queue", "nonBlocking")
  /\ UNCHANGED <<counters, taskVars, dynVars, terminated, quiesced,
                 straddling>>

QuiesceReturns ==
  /\ pc = "pending" /\ ~HasPendingTasks /\ ~terminated
  /\ mNumQuiescing' = mNumQuiescing - 1
  /\ pc' = "idle"
  /\ straddling' = {}
  /\ UNCHANGED <<mNumPendingTasks, taskVars, dynVars, terminated, scan,
                 quiesced>>

RunBlockingTask(a, t) ==
  HandOver(a, t) \/ CleanUp(a, t) \/ StartThread(a, t) \/ ReturnTask(a, t)
Calls(a, t) == RunBlockingTask(a, t) \/ \E p \in Pools : Add(a, t, p)
TaskStep(t) ==
  CountTask(t) \/ Push(t) \/ PushFull(t) \/ WorkerTakes(t) \/ Finish(t)
DynamicStep(d) == Sleep(d) \/ SleepAgain(d) \/ NextTask(d) \/ Exit(d)
QuiesceStep ==
  \/ \E t \in Tasks : Steal(t)
  \/ \E p \in Pools : StealNothing(p) \/ PoolBlocked(p)
  \/ StopWaiting \/ ExitNoticed \/ QuiesceAgain \/ QuiesceReturns

\* Everything was added and has run, or the program was terminated.
Terminated ==
  /\ \/ terminated
     \/ pc = "idle" /\ \A t \in Tasks : where[t] \in {"done", "returned"}
  /\ UNCHANGED vars

Next ==
  \/ \E a \in Tasks \cup {Main}, t \in Tasks : Calls(a, t)
  \/ \E t \in Tasks : TaskStep(t)
  \/ \E d \in Dynamic :
       DynamicStep(d) \/ Wake(d, "woken") \/ Wake(d, "timedOut")
  \/ Quiesce \/ QuiesceStep \/ SpuriousWakeup \/ Terminated

(***************************************************************************)
(* Tasks return, and every thread that can run does so at some time.  No   *)
(* fairness for the timeout: a wait may be long.                           *)
(***************************************************************************)
Spec == Init /\ [][Next]_vars
FairSpec ==
  /\ Spec
  /\ \A t \in Tasks : WF_vars(TaskStep(t))
  /\ \A d \in Dynamic : WF_vars(DynamicStep(d))
  /\ WF_vars(QuiesceStep)
-------------------------------------------------------------------------------
(***************************************************************************)
(* Properties                                                              *)
(***************************************************************************)
Alive == {t \in Tasks : where[t] \in Adding \cup {"queue", "run"}}
Idle == {d \in Dynamic : dyn[d] \in {"asleep", "woken", "timedOut"}}

\* Every variable keeps its type.
TypeOK ==
  /\ mNumQuiescing \in 0 .. 1 /\ mNumPendingTasks \in 0 .. Cardinality(Tasks)
  /\ where \in [Tasks -> Adding \cup {"new", "queue", "run", "done",
                                    "returned"}]
  /\ on \in [Tasks -> Pools \cup {"dynamic", Main} \cup Dynamic]
  /\ by \in [Tasks -> Tasks \cup {Main}]
  /\ counted \in [Tasks -> BOOLEAN]
  /\ mNumDynamicThreads \in 0 .. Cardinality(Dynamic)
  /\ mNumIdleDynamicThreads \in 0 .. Cardinality(Dynamic)
  /\ dyn \in [Dynamic -> {"off", "busy", "lock", "asleep", "woken", "timedOut"}]
  /\ mStopWaiting \in BOOLEAN /\ ended \in BOOLEAN /\ terminated \in BOOLEAN
  /\ pc \in {"idle", "stop", "exitSleep", "exitCheck", "pending"}
            \cup {Stealing(p) : p \in Pools} \cup {Waiting(p) : p \in Pools}
  /\ scan \subseteq Tasks /\ unseen \subseteq Tasks
  /\ quiesced \in 0 .. MaxQuiesce /\ straddling \subseteq Tasks

\* blocking_work_queue.h:103: the transfer queue "does not keep more tasks than
\* there are idle threads", also when threads time out or wake up while tasks
\* are handed over; so no task is left in it when the last thread ends, as
\* Quiesce asserts.
TransferBounded ==
  /\ TypeOK
  /\ mNumIdleDynamicThreads = Cardinality(Idle)
  /\ Cardinality(mIdleTaskQueue) <= Cardinality(Idle)

\* When Quiesce returns, nothing is left of the tasks that were there when it
\* began and of all that they added, in whichever pool; excepted are tasks
\* whose AddTask had read IsQuiescing before Quiesce began and pushed later,
\* and what these are adding.
QuiescedMeansEmpty ==
  [][pc = "pending" /\ pc' = "idle" =>
       \A t \in Alive \ straddling :
         where[t] = "counting" /\ by[t] \in straddling]_vars

\* Quiesce returns, for no pending count is lost and no end of a thread goes
\* unnoticed, and every task that was accepted is run, even if no idle thread
\* ever times out.
CallsComplete ==
  /\ pc # "idle" ~> pc = "idle" \/ terminated
  /\ \A t \in Tasks : t \in Alive ~> t \notin Alive \/ terminated
===============================================================================
