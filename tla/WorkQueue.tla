------------------------------ MODULE WorkQueue -------------------------------
(***************************************************************************)
(* NonBlockingWorkQueue on top of WorkQueueBase: workers that run, steal,  *)
(* spin and park; tasks that submit tasks; a free-standing thread, Main,   *)
(* that submits tasks, quiesces, cancels and finally destroys the pool.    *)
(*                                                                         *)
(* The parts below are used by what they promise: each TaskDeque is a      *)
(* bounded number of tasks whose operations are atomic (TaskDeque.tla      *)
(* checks the claims this rests on), mEventCount is a WaitSet, which       *)
(* EventCount is shown to implement.  Every other shared access is a step: *)
(* a loop over the queues looks at one queue per step.  The random victim  *)
(* order is an arbitrary order.                                            *)
(***************************************************************************)
EXTENDS Integers, FiniteSets

CONSTANTS Workers, Main,
          kCapacity,                         \* of each worker's queue
          kMaxSpinningThreads,
          kMinActiveThreadsToStartSpinning,
          MaxTasks,                          \* bound: tasks submitted in all
          MaxQuiesce,                        \* bound: calls of Quiesce
          MayCancel                          \* Main may call Cancel

ASSUME PoolAssumption ==
  /\ IsFiniteSet(Workers) /\ Workers # {} /\ Main \notin Workers
  /\ kCapacity \in Nat \ {0}
  /\ kMaxSpinningThreads \in Nat
  /\ kMinActiveThreadsToStartSpinning \in Nat
  /\ MaxTasks \in Nat /\ MaxQuiesce \in Nat
  /\ MayCancel \in BOOLEAN

VARIABLES
  queue,           \* per worker: number of tasks in its deque
  mBlocked, mDone, mCancelled,
  mSpinningState,  \* [mNumSpinning, mNumNoNotification]
  status, signals, \* the state of mEventCount, see WaitSet
  pc,              \* per thread
  todo,            \* per thread: queues a scan has not looked at yet
  victim,          \* per thread: the queue the scan found or will push to
  hand,            \* per worker: it has stolen a task and not begun it
  skipNotify,      \* per worker: local of AddTask
  quiescing,       \* Main is inside Quiesce
  allBlockedSleep, \* Main sleeps on mAllBlockedCV
  submitted, executed, quiesced  \* bounds and history

vars == <<queue, mBlocked, mDone, mCancelled, mSpinningState, status, signals,
          pc, todo, victim, hand, skipNotify, quiescing, allBlockedSleep,
          submitted, executed, quiesced>>

flags    == <<mBlocked, mDone, mCancelled>>
eventVars == <<status, signals>>
locals   == <<todo, victim, hand, skipNotify>>
mainVars == <<quiescing, allBlockedSleep>>
counts   == <<submitted, executed, quiesced>>

mNumThreads == Cardinality(Workers)
Threads == Workers \cup {Main}
\* How many tasks the deques hold: a deque of n tasks fills its places 1 to n.
Queued == Cardinality({s \in Workers \X (1 .. kCapacity) : s[2] <= queue[s[1]]})

mEventCount == INSTANCE WaitSet WITH Waiters <- Workers

Init ==
  /\ queue = [w \in Workers |-> 0]
  /\ mBlocked = 0 /\ mDone = FALSE /\ mCancelled = FALSE
  /\ mSpinningState = [mNumSpinning |-> 0, mNumNoNotification |-> 0]
  /\ mEventCount!Init
  /\ pc = [t \in Threads |-> IF t = Main THEN "idle" ELSE "loop"]
  /\ todo = [t \in Threads |-> {}]
  /\ victim = [t \in Threads |-> t]
  /\ hand = [w \in Workers |-> FALSE]
  /\ skipNotify = [w \in Workers |-> FALSE]
  /\ quiescing = FALSE /\ allBlockedSleep = FALSE
  /\ submitted = 0 /\ executed = 0 /\ quiesced = 0

Goto(t, to) == pc' = [pc EXCEPT ![t] = to]
\* Start a scan over all queues.
Scan(t, to) == Goto(t, to) /\ todo' = [todo EXCEPT ![t] = Workers]
Found(t) == todo' = [todo EXCEPT ![t] = {}]
LookedAt(t, q) == todo' = [todo EXCEPT ![t] = @ \ {q}]
Take(q) == queue' = [queue EXCEPT ![q] = @ - 1]

(***************************************************************************)
(* WorkerLoop.                                                             *)
(***************************************************************************)
LoopHead(w) ==
  /\ pc[w] = "loop"
  /\ Goto(w, IF mCancelled THEN "exited" ELSE "next")
  /\ UNCHANGED <<queue, flags, mSpinningState, eventVars, locals,
                 mainVars, counts>>

NextTask(w) ==
  /\ pc[w] = "next"
  /\ \/ queue[w] > 0 /\ Take(w) /\ Goto(w, "run") /\ UNCHANGED todo
     \/ queue[w] = 0 /\ Scan(w, "steal") /\ UNCHANGED queue
  /\ UNCHANGED <<flags, mSpinningState, eventVars, victim, hand, skipNotify,
                 mainVars, counts>>

(***************************************************************************)
(* Steal: one PopBack per step.  A worker steals before it spins           *)
(* ("steal"), while it spins ("spin") and once more after it ("last").     *)
(***************************************************************************)
StealFrom(w) ==
  /\ pc[w] \in {"steal", "spin", "last"}
  /\ \E q \in todo[w] :
       \/ /\ queue[q] > 0
          /\ Take(q)
          /\ Found(w)
          /\ hand' = [hand EXCEPT ![w] = pc[w] = "spin"]
          /\ Goto(w, IF pc[w] = "spin" THEN "stopSpinning" ELSE "run")
       \/ /\ queue[q] = 0
          /\ LookedAt(w, q)
          /\ UNCHANGED <<queue, pc, hand>>
  /\ UNCHANGED <<flags, mSpinningState, eventVars, victim, skipNotify,
                 mainVars, counts>>

\* All queues were empty.
StealNothing(w) ==
  /\ todo[w] = {}
  /\ \/ pc[w] = "steal" /\ Goto(w, "startSpinning")
     \/ pc[w] = "spin" /\ Goto(w, "stopSpinning")
     \/ pc[w] = "last" /\ Goto(w, "prewait")
  /\ UNCHANGED <<queue, flags, mSpinningState, eventVars, locals, mainVars, counts>>

\* Another round of the spin loop, as long as spin_count allows.
SpinAgain(w) ==
  /\ pc[w] = "spin" /\ todo[w] = {}
  /\ Scan(w, "spin")
  /\ UNCHANGED <<queue, flags, mSpinningState, eventVars, victim, hand,
                 skipNotify, mainVars, counts>>

(***************************************************************************)
(* StartSpinning looks at the number of active threads, then its           *)
(* compare-exchange loop updates mSpinningState as a whole.                *)
(***************************************************************************)
NumActiveThreads == mNumThreads - mBlocked

StartSpinningCheck(w) ==
  /\ pc[w] = "startSpinning"
  /\ Goto(w, IF NumActiveThreads > kMinActiveThreadsToStartSpinning
             THEN "prewait" ELSE "startSpinningCas")
  /\ UNCHANGED <<queue, flags, mSpinningState, eventVars, locals,
                 mainVars, counts>>

MaySpin == mSpinningState.mNumSpinning - mSpinningState.mNumNoNotification
             < kMaxSpinningThreads

StartSpinning(w) ==
  /\ pc[w] = "startSpinningCas"
  /\ \/ /\ MaySpin
        /\ mSpinningState' = [mSpinningState EXCEPT !.mNumSpinning = @ + 1]
        /\ Scan(w, "spin")
     \/ /\ ~MaySpin
        /\ Goto(w, "prewait")
        /\ UNCHANGED <<mSpinningState, todo>>
  /\ UNCHANGED <<queue, flags, eventVars, victim, hand, skipNotify,
                 mainVars, counts>>

HasNoNotifyTask == mSpinningState.mNumNoNotification > 0
StoppedSpinning ==
  [mNumSpinning |-> mSpinningState.mNumSpinning - 1,
   mNumNoNotification |->
     mSpinningState.mNumNoNotification - (IF HasNoNotifyTask THEN 1 ELSE 0)]

StopSpinning(w) ==
  /\ pc[w] = "stopSpinning"
  /\ mSpinningState' = StoppedSpinning
  /\ hand' = [hand EXCEPT ![w] = FALSE]
  /\ \/ hand[w] /\ Goto(w, "run") /\ UNCHANGED todo
     \/ ~hand[w] /\ HasNoNotifyTask /\ Scan(w, "last")
     \/ ~hand[w] /\ ~HasNoNotifyTask /\ Goto(w, "prewait") /\ UNCHANGED todo
  /\ UNCHANGED <<queue, flags, eventVars, victim, skipNotify,
                 mainVars, counts>>

(***************************************************************************)
(* WaitForWork.                                                            *)
(***************************************************************************)
\* Mutant: the queues are not checked between Prewait and the wait.
PrewaitUnchecked(w) ==
  /\ pc[w] = "prewait"
  /\ mEventCount!Prewait(w)
  /\ Goto(w, "check")
  /\ UNCHANGED <<queue, flags, mSpinningState, locals, mainVars, counts>>

Prewait(w) ==
  /\ pc[w] = "prewait"
  /\ mEventCount!Prewait(w)
  /\ Scan(w, "check")
  /\ UNCHANGED <<queue, flags, mSpinningState, victim, hand, skipNotify,
                 mainVars, counts>>

\* NonEmptyQueueIndex, before the wait ("check") and before the exit ("recheck").
NonEmptyQueueIndex(w) ==
  /\ pc[w] \in {"check", "recheck"}
  /\ \E q \in todo[w] :
       \/ /\ queue[q] > 0
          /\ Found(w)
          /\ victim' = [victim EXCEPT ![w] = IF pc[w] = "check" THEN q ELSE w]
          /\ Goto(w, IF pc[w] = "check" THEN "cancelWait" ELSE "unblock")
       \/ /\ queue[q] = 0
          /\ LookedAt(w, q)
          /\ UNCHANGED <<victim, pc>>
  /\ UNCHANGED <<queue, flags, mSpinningState, eventVars, hand, skipNotify,
                 mainVars, counts>>

CancelWait(w) ==
  /\ pc[w] = "cancelWait"
  /\ mEventCount!CancelWait(w)
  /\ Goto(w, "checkCancelled")
  /\ UNCHANGED <<queue, flags, mSpinningState, locals, mainVars, counts>>

CheckCancelled(w) ==
  /\ pc[w] = "checkCancelled"
  /\ Goto(w, IF mCancelled THEN "exited" ELSE "stealVictim")
  /\ UNCHANGED <<queue, flags, mSpinningState, eventVars, locals, mainVars, counts>>

\* A victim that is empty by now yields no task; the worker goes round its loop.
StealVictim(w) ==
  /\ pc[w] = "stealVictim"
  /\ \/ queue[victim[w]] > 0 /\ Take(victim[w]) /\ Goto(w, "run")
     \/ queue[victim[w]] = 0 /\ Goto(w, "loop") /\ UNCHANGED queue
  /\ victim' = [victim EXCEPT ![w] = w]
  /\ UNCHANGED <<flags, mSpinningState, eventVars, todo, hand, skipNotify,
                 mainVars, counts>>

\* Nothing found: count this thread as blocked.
Block(w) ==
  /\ pc[w] = "check" /\ todo[w] = {}
  /\ mBlocked' = mBlocked + 1
  /\ Goto(w, "allBlocked")
  /\ UNCHANGED <<queue, mDone, mCancelled, mSpinningState, eventVars, locals,
                 mainVars, counts>>

AllBlocked == mBlocked = mNumThreads

CheckAllBlocked(w) ==
  /\ pc[w] = "allBlocked"
  /\ Goto(w, IF AllBlocked THEN "notifyAllBlocked" ELSE "checkDone")
  /\ UNCHANGED <<queue, flags, mSpinningState, eventVars, locals,
                 mainVars, counts>>

\* Mutant: the thread in Quiesce is not notified.
NotifyNobodyBlocked(w) ==
  /\ pc[w] = "notifyAllBlocked"
  /\ Goto(w, "checkDone")
  /\ UNCHANGED <<queue, flags, mSpinningState, eventVars, locals, mainVars, counts>>

NotifyAllBlocked(w) ==
  /\ pc[w] = "notifyAllBlocked"
  /\ allBlockedSleep' = FALSE
  /\ Goto(w, "checkDone")
  /\ UNCHANGED <<queue, flags, mSpinningState, eventVars, locals, quiescing, counts>>

CheckDone(w) ==
  /\ \/ pc[w] = "checkDone" /\ Goto(w, IF mDone THEN "checkLast" ELSE "commit")
     \/ pc[w] = "checkLast" /\ Goto(w, IF AllBlocked THEN "shutDown" ELSE "commit")
  /\ UNCHANGED <<queue, flags, mSpinningState, eventVars, locals,
                 mainVars, counts>>

\* Mutant: no re-check of the queues before the exit.
ShutDownUnchecked(w) ==
  /\ pc[w] = "shutDown"
  /\ mEventCount!CancelWait(w)
  /\ Goto(w, "recheck")
  /\ UNCHANGED <<queue, flags, mSpinningState, locals, mainVars, counts>>

\* The last worker to block during shutdown gives up its wait and re-checks.
ShutDown(w) ==
  /\ pc[w] = "shutDown"
  /\ mEventCount!CancelWait(w)
  /\ Scan(w, "recheck")
  /\ UNCHANGED <<queue, flags, mSpinningState, victim, hand, skipNotify,
                 mainVars, counts>>

\* "Reached stable termination state": wake the others and leave, still counted
\* as blocked.
Exit(w) ==
  /\ pc[w] = "recheck" /\ todo[w] = {}
  /\ mEventCount!NotifyAll
  /\ Goto(w, "exited")
  /\ UNCHANGED <<queue, flags, mSpinningState, locals, mainVars, counts>>

CommitWait(w) ==
  /\ pc[w] = "commit"
  /\ \/ mEventCount!CommitConsume(w) /\ Goto(w, "unblock")
     \/ mEventCount!CommitPark(w) /\ Goto(w, "parked")
  /\ UNCHANGED <<queue, flags, mSpinningState, locals, mainVars, counts>>

Wake(w) ==
  /\ pc[w] = "parked"
  /\ mEventCount!Return(w)
  /\ Goto(w, "unblock")
  /\ UNCHANGED <<queue, flags, mSpinningState, locals, mainVars, counts>>

\* Mutant: a worker goes back to work while it is counted as blocked.
UnblockUncounted(w) ==
  /\ pc[w] = "unblock"
  /\ Goto(w, "loop")
  /\ UNCHANGED <<queue, flags, mSpinningState, eventVars, locals, mainVars, counts>>

Unblock(w) ==
  /\ pc[w] = "unblock"
  /\ mBlocked' = mBlocked - 1
  /\ Goto(w, "loop")
  /\ UNCHANGED <<queue, mDone, mCancelled, mSpinningState, eventVars, locals,
                 mainVars, counts>>

(***************************************************************************)
(* A task that runs may submit tasks before it ends.                       *)
(***************************************************************************)
FinishTask(w) ==
  /\ pc[w] = "run"
  /\ executed' = executed + 1
  /\ Goto(w, "loop")
  /\ UNCHANGED <<queue, flags, mSpinningState, eventVars, locals, mainVars,
                 submitted, quiesced>>

(***************************************************************************)
(* AddTask.  A worker pushes to the front of its own queue and notes       *)
(* whether it was empty; Main pushes to the back of a random queue.  A     *)
(* task that finds the queue full runs in place: what it submits is        *)
(* submitted by the thread it runs on.                                     *)
(***************************************************************************)
AddTask(w) ==
  /\ pc[w] = "run"
  /\ submitted < MaxTasks
  /\ submitted' = submitted + 1
  /\ skipNotify' = [skipNotify EXCEPT ![w] = queue[w] = 0]
  /\ Goto(w, "push")
  /\ UNCHANGED <<queue, flags, mSpinningState, eventVars, todo, victim, hand,
                 mainVars, executed, quiesced>>

AddTaskFromOutside ==
  /\ pc[Main] \in {"idle", "quiesceRun"}
  /\ submitted < MaxTasks
  /\ submitted' = submitted + 1
  /\ \E q \in Workers : victim' = [victim EXCEPT ![Main] = q]
  /\ Goto(Main, "push")
  /\ UNCHANGED <<queue, flags, mSpinningState, eventVars, todo, hand, skipNotify,
                 mainVars, executed, quiesced>>

Caller(t) == IF t \in Workers THEN "run"
             ELSE IF quiescing THEN "quiesceRun" ELSE "idle"
SkipsNotify(t) == t \in Workers /\ skipNotify[t]

Push(t) ==
  LET q == victim[t] IN
  /\ pc[t] = "push"
  /\ \/ /\ queue[q] < kCapacity
        /\ queue' = [queue EXCEPT ![q] = @ + 1]
        /\ Goto(t, IF SkipsNotify(t) THEN Caller(t) ELSE "notifyRequired")
        /\ UNCHANGED executed
     \/ /\ queue[q] = kCapacity
        /\ executed' = executed + 1
        /\ Goto(t, Caller(t))
        /\ UNCHANGED queue
  /\ victim' = [victim EXCEPT ![t] = t]
  /\ skipNotify' = [w \in Workers |-> skipNotify[w] /\ w # t]
  /\ UNCHANGED <<flags, mSpinningState, eventVars, todo, hand, mainVars,
                 submitted, quiesced>>

NotifyRequired ==
  mSpinningState.mNumNoNotification = mSpinningState.mNumSpinning

IsNotifyParkedThreadRequired(t) ==
  /\ pc[t] = "notifyRequired"
  /\ \/ NotifyRequired /\ Goto(t, "notify") /\ UNCHANGED mSpinningState
     \/ /\ ~NotifyRequired
        /\ mSpinningState' = [mSpinningState EXCEPT !.mNumNoNotification = @ + 1]
        /\ Goto(t, Caller(t))
  /\ UNCHANGED <<queue, flags, eventVars, locals, mainVars, counts>>

Notify(t) ==
  /\ pc[t] = "notify"
  /\ mEventCount!NotifyOne
  /\ Goto(t, Caller(t))
  /\ UNCHANGED <<queue, flags, mSpinningState, locals, mainVars, counts>>

(***************************************************************************)
(* Quiesce: Main runs what it can steal, then waits until all workers are  *)
(* blocked.                                                                *)
(***************************************************************************)
Quiesce ==
  /\ pc[Main] = "idle" /\ quiesced < MaxQuiesce
  /\ quiesced' = quiesced + 1
  /\ quiescing' = TRUE
  /\ Scan(Main, "quiesceSteal")
  /\ UNCHANGED <<queue, flags, mSpinningState, eventVars, victim, hand,
                 skipNotify, allBlockedSleep, submitted, executed>>

QuiesceSteal ==
  /\ pc[Main] = "quiesceSteal"
  /\ \E q \in todo[Main] :
       \/ queue[q] > 0 /\ Take(q) /\ Found(Main) /\ Goto(Main, "quiesceRun")
       \/ queue[q] = 0 /\ LookedAt(Main, q) /\ UNCHANGED <<queue, pc>>
  /\ UNCHANGED <<flags, mSpinningState, eventVars, victim, hand, skipNotify,
                 mainVars, counts>>

QuiesceFinishTask ==
  /\ pc[Main] = "quiesceRun"
  /\ executed' = executed + 1
  /\ Scan(Main, "quiesceSteal")
  /\ UNCHANGED <<queue, flags, mSpinningState, eventVars, victim, hand,
                 skipNotify, mainVars, submitted, quiesced>>

\* AllBlocked is read without the lock, and then in the predicate of the wait.
QuiesceWait ==
  /\ \/ pc[Main] = "quiesceSteal" /\ todo[Main] = {}
     \/ pc[Main] = "quiesceWait" /\ ~allBlockedSleep
  /\ \/ AllBlocked /\ Goto(Main, "idle") /\ quiescing' = FALSE
        /\ UNCHANGED allBlockedSleep
     \/ /\ ~AllBlocked /\ Goto(Main, "quiesceWait")
        /\ allBlockedSleep' = (pc[Main] = "quiesceWait")
        /\ UNCHANGED quiescing
  /\ UNCHANGED <<queue, flags, mSpinningState, eventVars, locals, counts>>

SpuriousWakeup ==
  /\ allBlockedSleep
  /\ allBlockedSleep' = FALSE
  /\ UNCHANGED <<queue, flags, mSpinningState, eventVars, pc, locals, quiescing,
                 counts>>

(***************************************************************************)
(* Cancel, and the destructor: a cancelled pool has its queues flushed one *)
(* after the other, any other pool has its workers woken; then all workers *)
(* are joined.                                                             *)
(***************************************************************************)
Cancel ==
  /\ MayCancel
  /\ \/ /\ pc[Main] = "idle" /\ ~mCancelled
        /\ mCancelled' = TRUE
        /\ Goto(Main, "cancel")
        /\ UNCHANGED <<mDone, eventVars>>
     \/ /\ pc[Main] = "cancel"
        /\ mDone' = TRUE
        /\ Goto(Main, "cancelNotify")
        /\ UNCHANGED <<mCancelled, eventVars>>
     \/ /\ pc[Main] = "cancelNotify"
        /\ mEventCount!NotifyAll
        /\ Goto(Main, "idle")
        /\ UNCHANGED <<mCancelled, mDone>>
  /\ UNCHANGED <<queue, mBlocked, mSpinningState, locals, mainVars, counts>>

Destruct ==
  /\ pc[Main] = "idle"
  /\ mDone' = TRUE
  /\ Scan(Main, IF mCancelled THEN "flush" ELSE "destructNotify")
  /\ UNCHANGED <<queue, mBlocked, mCancelled, mSpinningState, eventVars, victim,
                 hand, skipNotify, mainVars, counts>>

DestructNotify ==
  /\ pc[Main] = "destructNotify"
  /\ mEventCount!NotifyAll
  /\ Found(Main)
  /\ Goto(Main, "join")
  /\ UNCHANGED <<queue, flags, mSpinningState, victim, hand, skipNotify,
                 mainVars, counts>>

Flush ==
  /\ pc[Main] = "flush"
  /\ \/ \E q \in todo[Main] :
          /\ queue' = [queue EXCEPT ![q] = 0]
          /\ LookedAt(Main, q)
          /\ UNCHANGED pc
     \/ todo[Main] = {} /\ Goto(Main, "join") /\ UNCHANGED <<queue, todo>>
  /\ UNCHANGED <<flags, mSpinningState, eventVars, victim, hand, skipNotify,
                 mainVars, counts>>

Join ==
  /\ pc[Main] = "join"
  /\ \A w \in Workers : pc[w] = "exited"
  /\ Goto(Main, "destroyed")
  /\ UNCHANGED <<queue, flags, mSpinningState, eventVars, locals, mainVars, counts>>

WaitForWork(w) ==
  \/ Prewait(w) \/ NonEmptyQueueIndex(w) \/ CancelWait(w) \/ CheckCancelled(w)
  \/ StealVictim(w) \/ Block(w) \/ CheckAllBlocked(w) \/ NotifyAllBlocked(w)
  \/ CheckDone(w) \/ ShutDown(w) \/ Exit(w) \/ CommitWait(w) \/ Wake(w)
  \/ Unblock(w)
Submit(t) == Push(t) \/ IsNotifyParkedThreadRequired(t) \/ Notify(t)
WorkerStep(w) ==
  \/ LoopHead(w) \/ NextTask(w) \/ StealFrom(w) \/ StealNothing(w)
  \/ StartSpinningCheck(w) \/ StartSpinning(w) \/ StopSpinning(w)
  \/ WaitForWork(w) \/ FinishTask(w) \/ Submit(w)
MainStep ==
  \/ Submit(Main) \/ QuiesceSteal \/ QuiesceFinishTask \/ QuiesceWait
  \/ DestructNotify \/ Flush \/ Join
Terminated == pc[Main] = "destroyed" /\ UNCHANGED vars

Next ==
  \/ \E w \in Workers : WorkerStep(w) \/ SpinAgain(w) \/ AddTask(w)
  \/ MainStep \/ AddTaskFromOutside \/ Quiesce \/ SpuriousWakeup
  \/ Cancel \/ Destruct \/ Terminated

(***************************************************************************)
(* Threads are scheduled, tasks end, and the spin loop is bounded.  Main   *)
(* completes the calls it makes, but need not make any.                    *)
(***************************************************************************)
Fairness ==
  /\ \A w \in Workers : /\ WF_vars(WorkerStep(w))
                        /\ SF_vars(pc[w] = "spin" /\ StealNothing(w))
  /\ WF_vars(MainStep)
  /\ WF_vars(pc[Main] # "idle" /\ Cancel)

Spec == Init /\ [][Next]_vars
FairSpec == Spec /\ Fairness
-------------------------------------------------------------------------------
(***************************************************************************)
(* Properties                                                              *)
(***************************************************************************)

Spinning == {w \in Workers : pc[w] \in {"spin", "stopSpinning"}}

\* Every variable keeps its type.
TypeOK ==
  /\ queue \in [Workers -> 0 .. kCapacity]
  /\ mBlocked \in 0 .. mNumThreads
  /\ mDone \in BOOLEAN /\ mCancelled \in BOOLEAN
  /\ mSpinningState.mNumSpinning \in 0 .. mNumThreads
  /\ signals \in 0 .. mNumThreads
  /\ status \in [Workers -> {"out", "pre", "parked", "woken"}]
  /\ todo \in [Threads -> SUBSET Workers]
  /\ hand \in [Workers -> BOOLEAN]
  /\ executed \in 0 .. MaxTasks

\* The two counters that decide whether anybody is woken say what the workers do,
\* in whichever order they spin, block, wake and exit: SpinningState::Decode
\* asserts mNumNoNotification <= mNumSpinning of every word, the low half counts
\* exactly the threads in the spin loop, and AllBlocked, the condition of Quiesce
\* and of the shutdown, is never true while a worker runs or holds a task.
CountersMatchWorkers ==
  /\ TypeOK
  /\ mSpinningState.mNumNoNotification \in 0 .. mSpinningState.mNumSpinning
  /\ mSpinningState.mNumSpinning = Cardinality(Spinning)
  /\ AllBlocked => \A w \in Workers :
       pc[w] \notin {"run", "push", "notifyRequired", "notify"} /\ ~hand[w]

\* Shutdown leaves nothing behind.  When the destructor has joined the workers,
\* nobody waits on the event count, as ~EventCount asserts, however the workers
\* left their loops; and if the pool was not cancelled, every task that was
\* submitted has been executed (the re-check in WaitForWork).
DrainedWhenDestroyed ==
  pc[Main] = "destroyed" =>
    /\ signals = 0 /\ \A w \in Workers : status[w] = "out"
    /\ mCancelled \/ (Queued = 0 /\ executed = submitted)

\* No task is left behind with every worker asleep, also when AddTask skipped
\* the notification: when no AddTask is under way and a task is queued, some
\* worker is awake, or has been woken.
NoSleepOverWork ==
  (/\ Queued > 0 /\ ~mCancelled
   /\ pc[Main] \notin {"notifyRequired", "notify"}) =>
    \E w \in Workers : pc[w] \notin {"parked", "exited"} \/ status[w] = "woken"

\* The calls of a pool that was not cancelled return: Quiesce does not miss the
\* wake-up from the last worker to block, and all workers notice the shutdown
\* and exit, so that the destructor can join them.
CallsReturn ==
  pc[Main] \notin {"idle", "destroyed"} /\ ~mCancelled
    ~> pc[Main] \in {"idle", "destroyed"}
===============================================================================
