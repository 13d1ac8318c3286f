------------------------------- MODULE SyncWait -------------------------------
(***************************************************************************)
(* SyncWait(WhenAll(tasks)) over a CoroutineThreadPool: the coroutine      *)
(* library put together.  Main blocks on a CoroutineNotifier until the     *)
(* root coroutine (a WaitableTask) is through; the root awaits WhenAll;    *)
(* child i is a WhenAllTask that awaits a Task; the body of that Task may  *)
(* move to the pool with co_await Schedule(), as ScheduleOn does, any      *)
(* number of times up to MaxSchedules.                                     *)
(*                                                                         *)
(* A thread that runs child c is somewhere in c's Task or WhenAllTask, or, *)
(* when c was the last one, in the root that c resumes on top of it.       *)
(***************************************************************************)
EXTENDS CoroutineThreadPool, FiniteSetsExt

CONSTANTS MaxTasks,      \* bound: children of WhenAll
          MaxSchedules   \* bound: times one Task moves to the pool

ASSUME ChildrenAssumption ==
  /\ MaxTasks \in Nat /\ MaxSchedules \in Nat
  /\ Coroutines = 1 .. MaxTasks

VARIABLES
  size,                \* number of tasks handed to WhenAll
  started,             \* how many of them the root has started
  m_count,             \* WhenAllCounter::m_count
  mAwaitingCoroutine,  \* WhenAllCounter: the root is registered
  schedules,           \* per child: times its Task was scheduled
  mResultType,         \* per child: TaskPromise::mResultType
  promise,             \* per child: result or exception of the WhenAllTask
  rootResult,          \* WaitableTaskPromise: mData or mException
  mIsSet, mMutex,      \* CoroutineNotifier
  event, frames,       \* the notifier and the coroutine frames are alive
  got                  \* what SyncWait returned or threw

taskVars  == <<schedules, mResultType, promise>>
countVars == <<started, m_count, mAwaitingCoroutine>>
eventVars == <<mIsSet, mMutex>>
lifeVars  == <<event, frames>>
vars == <<poolVars, size, countVars, taskVars, rootResult, eventVars, lifeVars, got>>

Children == 1 .. size

\* A result of the root: nothing yet, the values of all children, or (any
\* positive number) the exception of that child.
NoResult == -1
AllValues == 0

\* Mutant: the counter is not started with one more for the awaiting coroutine.
InitialCountOwn(count) == count
\* WhenAllCounter(count).
InitialCount(count) == count + 1

Init ==
  /\ PoolInit
  /\ at = [t \in Threads |-> IF t = Main THEN "start" ELSE "head"]
  /\ run = [t \in Threads |-> NULL]
  /\ size \in 0 .. MaxTasks
  /\ started = 0
  /\ m_count = InitialCount(size)
  /\ mAwaitingCoroutine = FALSE
  /\ schedules = [c \in Coroutines |-> 0]
  /\ mResultType = [c \in Coroutines |-> "kEmpty"]
  /\ promise = [c \in Coroutines |-> "none"]
  /\ rootResult = NoResult
  /\ mIsSet = FALSE
  /\ mMutex = NULL
  /\ event = TRUE
  /\ frames = TRUE
  /\ got = NoResult

\* What a thread does when the coroutine it resumed suspends for good: a worker
\* is back in its loop, Main in the loop of try_await or, behind it, in SyncWait.
ReturnTo(t) ==
  CASE t \in Workers -> "head"
    [] t = Main /\ ~mAwaitingCoroutine -> "start"
    [] t = Main /\ mAwaitingCoroutine -> "wait"
Leave(t) == Goto(t, ReturnTo(t)) /\ run' = [run EXCEPT ![t] = NULL]

(***************************************************************************)
(* Main: WaitableTask::Start resumes the root, whose co_await of           *)
(* WhenAllReadyAwaitable finds is_ready() false and calls try_await: every *)
(* task is started, each on Main's stack until it first suspends, and only *)
(* then is the root registered and its own share of the count given up.    *)
(***************************************************************************)
CountDown == m_count' = m_count - 1

start_tasks ==
  /\ at[Main] = "start"
  /\ started < size
  /\ started' = started + 1
  /\ run' = [run EXCEPT ![Main] = started']
  /\ Goto(Main, "body")
  /\ UNCHANGED <<queue, mCancelled, left, size, m_count, mAwaitingCoroutine,
                 taskVars, rootResult, eventVars, lifeVars, got>>

try_await ==
  /\ at[Main] = "start"
  /\ started = size
  /\ mAwaitingCoroutine' = TRUE
  /\ CountDown
  /\ Goto(Main, IF m_count > 1 THEN "wait" ELSE "collect")
  /\ UNCHANGED <<queue, mCancelled, run, left, size, started, taskVars,
                 rootResult, eventVars, lifeVars, got>>

(***************************************************************************)
(* A child.  Its Task body may move to the pool, and ends with a value or  *)
(* an exception; final_suspend then transfers to the WhenAllTask, whose    *)
(* await_resume takes the one or rethrows the other.                       *)
(***************************************************************************)
Schedule(t) ==
  /\ at[t] = "body"
  /\ schedules[run[t]] < MaxSchedules
  /\ schedules' = [schedules EXCEPT ![run[t]] = @ + 1]
  /\ AddTask(t, run[t], ReturnTo(t))
  /\ UNCHANGED <<size, countVars, mResultType, promise, rootResult, eventVars,
                 lifeVars, got>>

TaskReturn(t) ==
  /\ at[t] = "body"
  /\ \E r \in {"kAvaliable", "kException"} :
       mResultType' = [mResultType EXCEPT ![run[t]] = r]
  /\ Goto(t, "final")
  /\ UNCHANGED <<queue, mCancelled, run, left, size, countVars, schedules,
                 promise, rootResult, eventVars, lifeVars, got>>

\* Mutant: await_resume returns without asking for the exception.
TaskGetNoThrow(c) == "result"
TaskGet(c) == IF mResultType[c] = "kException" THEN "exception" ELSE "result"

TaskContinue(t) ==
  /\ at[t] = "final"
  /\ promise' = [promise EXCEPT ![run[t]] = TaskGet(run[t])]
  /\ Goto(t, "notify")
  /\ UNCHANGED <<queue, mCancelled, run, left, size, countVars, schedules,
                 mResultType, rootResult, eventVars, lifeVars, got>>

\* final_suspend of the WhenAllTask: whoever takes the count to zero resumes
\* the root, the others touch no frame after their fetch_sub.
notify_awaitable_completed(t) ==
  /\ at[t] = "notify"
  /\ CountDown
  /\ IF m_count = 1 THEN Goto(t, "collect") /\ UNCHANGED run ELSE Leave(t)
  /\ UNCHANGED <<queue, mCancelled, left, size, started, mAwaitingCoroutine,
                 taskVars, rootResult, eventVars, lifeVars, got>>

(***************************************************************************)
(* The root goes on: the function WhenAll hands to fmap asks the tasks for *)
(* their results in order, the first exception ends it; the root stores    *)
(* the outcome and its final_suspend sets the notifier, under its mutex.   *)
(***************************************************************************)
Failed == {c \in Children : promise[c] = "exception"}
WhenAll == IF Failed = {} THEN AllValues ELSE Min(Failed)

\* yield_value or unhandled_exception of the root.
StoreResult(t, r) == rootResult' = r /\ Goto(t, "set")

FmapResume(t) ==
  /\ at[t] = "collect"
  /\ StoreResult(t, WhenAll)
  /\ UNCHANGED <<queue, mCancelled, run, left, size, countVars, taskVars,
                 eventVars, lifeVars, got>>

\* Mutant: the flag is set without the mutex, which Set then never holds.
SetLockNone(t) == UNCHANGED mMutex
SetLock(t) == mMutex = NULL /\ mMutex' = t

SetNotify(t) ==
  /\ at[t] = "set"
  /\ SetLock(t)
  /\ mIsSet' = TRUE
  /\ at' = [at EXCEPT ![t] = "unset",
                      ![Main] = IF @ = "blocked" THEN "wait" ELSE @]
  /\ UNCHANGED <<queue, mCancelled, run, left, size, countVars, taskVars,
                 rootResult, lifeVars, got>>

SetUnlock(t) ==
  /\ at[t] = "unset"
  /\ mMutex' = NULL
  /\ Leave(t)
  /\ UNCHANGED <<queue, mCancelled, left, size, countVars, taskVars,
                 rootResult, mIsSet, lifeVars, got>>

(***************************************************************************)
(* Main in SyncWait: Wait() sleeps until the flag is set, seen under the   *)
(* mutex; get() returns or rethrows; ~CoroutineNotifier and ~WaitableTask  *)
(* follow, the latter destroying the root's frame and, with its awaitable, *)
(* the frames of all children.  Main then destroys the pool.               *)
(***************************************************************************)
Wait ==
  /\ at[Main] = "wait"
  /\ mMutex = NULL
  /\ Goto(Main, IF mIsSet THEN "get" ELSE "blocked")
  /\ UNCHANGED <<queue, mCancelled, run, left, size, countVars, taskVars,
                 rootResult, eventVars, lifeVars, got>>

SpuriousWakeup ==
  /\ at[Main] = "blocked"
  /\ Goto(Main, "wait")
  /\ UNCHANGED <<queue, mCancelled, run, left, size, countVars, taskVars,
                 rootResult, eventVars, lifeVars, got>>

get ==
  /\ at[Main] = "get"
  /\ got' = rootResult
  /\ event' = FALSE
  /\ Goto(Main, "destruct")
  /\ UNCHANGED <<queue, mCancelled, run, left, size, countVars, taskVars,
                 rootResult, eventVars, frames>>

Destruct ==
  /\ at[Main] = "destruct"
  /\ frames' = FALSE
  /\ Goto(Main, "cancel")
  /\ UNCHANGED <<queue, mCancelled, run, left, size, countVars, taskVars,
                 rootResult, eventVars, event, got>>

PoolStep(A) ==
  A /\ UNCHANGED <<size, countVars, taskVars, rootResult, eventVars, lifeVars, got>>

CoroutineStep(t) ==
  \/ Schedule(t) \/ TaskReturn(t) \/ TaskContinue(t)
  \/ notify_awaitable_completed(t) \/ FmapResume(t) \/ SetNotify(t) \/ SetUnlock(t)
MainStep ==
  \/ start_tasks \/ try_await \/ CoroutineStep(Main)
  \/ Wait \/ get \/ Destruct \/ PoolStep(Cancel) \/ PoolStep(Join)
WorkerStep(w) == PoolStep(WorkerLoop(w)) \/ CoroutineStep(w)

Terminated == at[Main] = "done" /\ UNCHANGED vars

Next ==
  \/ MainStep
  \/ SpuriousWakeup
  \/ \E w \in Workers : WorkerStep(w)
  \/ Terminated

\* Main and the workers are threads of the operating system, which runs each of
\* them again and again; a wakeup need not be spurious.
Fairness == WF_vars(MainStep) /\ \A w \in Workers : WF_vars(WorkerStep(w))

Spec == Init /\ [][Next]_vars
FairSpec == Spec /\ Fairness
-------------------------------------------------------------------------------
(***************************************************************************)
(* Properties                                                              *)
(***************************************************************************)
InFrame == {"body", "final", "notify", "collect", "set"}

\* Every variable stays within its type; the one type invariant.
TypeOK ==
  /\ PoolTypeOK
  /\ at \in [Threads -> InFrame \cup WorkerPC \cup
              {"unset", "start", "wait", "blocked", "get", "destruct", "cancel",
               "join", "done"}]
  /\ size \in 0 .. MaxTasks
  /\ started \in 0 .. size
  /\ m_count \in 0 .. size + 1
  /\ mAwaitingCoroutine \in BOOLEAN
  /\ schedules \in [Coroutines -> 0 .. MaxSchedules]
  /\ mResultType \in [Coroutines -> {"kEmpty", "kAvaliable", "kException"}]
  /\ promise \in [Coroutines -> {"none", "result", "exception"}]
  /\ rootResult \in NoResult .. MaxTasks
  /\ mIsSet \in BOOLEAN
  /\ mMutex \in Threads \cup {NULL}
  /\ event \in BOOLEAN /\ frames \in BOOLEAN
  /\ got \in NoResult .. MaxTasks

\* The coroutine frames hold the tasks, the counter, the ScheduleOperations and
\* the result, the notifier sits on Main's stack, and Main destroys all of it as
\* soon as it has seen the flag, while the worker that set it is still below the
\* frames it destroys.  No thread touches a frame or the notifier any more by
\* then, no operation of a dead coroutine is left on a queue ("assert(Size() ==
\* 0)" of ~CoroutineTaskDeque), and a child is run by one thread at a time.
NoUseAfterFree ==
  /\ TypeOK
  /\ ~frames => /\ \A t \in Threads : at[t] \notin InFrame
                /\ \A w \in Workers : queue[w] = <<>>
  /\ ~event => mMutex = NULL /\ \A t \in Threads : at[t] \notin {"set", "unset"}
  /\ \A t, u \in Threads : t # u /\ run[t] # NULL => run[t] # run[u]

\* The root is resumed once, registered by then, and after every child has ended;
\* SyncWait returns the values of all children exactly if none of them threw, and
\* otherwise throws the exception of the first one in the order of the arguments,
\* whichever of them ended first.
ResultOfAll ==
  /\ \A t \in Threads : at[t] = "collect" =>
       /\ mAwaitingCoroutine
       /\ rootResult = NoResult
       /\ \A c \in Children : promise[c] # "none"
  /\ got = AllValues => \A c \in Children : mResultType[c] = "kAvaliable"
  /\ got > 0 => /\ mResultType[got] = "kException"
                /\ \A c \in 1 .. got - 1 : mResultType[c] = "kAvaliable"
  /\ at[Main] = "done" => got # NoResult

\* SyncWait returns and the pool can be destroyed: no operation is lost on a full
\* queue, no completion between try_await and the last notification, no wakeup.
Terminates == <>(at[Main] = "done")
===============================================================================
