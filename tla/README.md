# TLA+ specifications of async_lib

async_lib is a C++ runtime for asynchronous computation: reference-counted
*async values* that threads wait for, *work queues* that run tasks on pools of
threads, *graph executors* that run kernels when their inputs are ready, and a
library of *coroutine tasks* with a pool of its own.
Almost all of it is lock-free or lock-based concurrency whose errors are rare
interleavings. This directory holds TLA+ models of those parts, translated from
the code under `src/async/`, TLC configurations that check them on small
instances, and TLAPS proofs for arbitrary instances.

`PROJECT.json` lists the components, the runs, the lines each definition models,
the hazards the properties are aimed at, the findings and the theorems.

## 1. The system

| Component | Source | State it keeps | Operations | Uses |
|---|---|---|---|---|
| AsyncValue | `context/async_value.{h,cpp}` | one word: waiter list and state; a reference count; payload or error | `AndThen`, `emplace`, `SetStateConcrete`, `SetError`, `AddRef`, `DropRef`, `ForwardTo` | host allocator |
| EventCount | `concurrent/event_count.h` | one 64-bit word: stack of parked threads, threads in pre-wait, signals, ABA counter | `Prewait`, `CommitWait`, `CancelWait`, `Notify` | one mutex and condition variable per waiter |
| TaskDeque | `concurrent/task_deque.h` | ring of slots with a state each, front and back index with modification counters | `PushFront`, `PopFront` (owner), `PushBack`, `PopBack`, `PopBackHalf` (others), `Empty` | a mutex for the back |
| TaskQueue | `concurrent/task_queue.h` | ring of elements with tickets, front and back counters | `PushFront`, `PopBack`, `Size` | - |
| WorkQueueBase, NonBlockingWorkQueue | `concurrent/work_queue_base.h`, `non_blocking_work_queue.h` | per worker a TaskDeque; blocked count, spinning word, done and cancelled flags | worker loop, `AddTask`, `Steal`, `Quiesce`, `Cancel`, destructor | EventCount, TaskDeque |
| BlockingWorkQueue | `concurrent/blocking_work_queue.h` | static workers with a TaskQueue; dynamic threads and a transfer queue | `EnqueueBlockingTask`, `RunBlockingTask`, `Quiesce` | WorkQueueBase, TaskQueue |
| MultiThreadedWorkQueue, SingleThreadedWorkQueue | `context/*_work_queue.cpp` | the two pools and a count of pending tasks; one list of tasks | `AddTask`, `AddBlockingTask`, `Quiesce`, `Await` | both pools, AsyncValue, latch |
| HostContext | `context/host_context.{h,cpp}` | work queue, allocator, cancel value | `EnqueueWork`, `EnqueueBlockingWork`, `RunWhenReady`, `Await`, `Quiesce`, destructor; `CancelExecution`, `Restart` | work queue, AsyncValue, latch |
| TaskGraph | `runtime/task_graph.{h,cpp}` | per node a count of open dependencies, total count, finish chain, reference counts | `RunTaskGraph`, `Await` | HostContext, AsyncValue |
| AsyncGraph | `runtime/graph.{h,cpp}` | list of nodes; kernel and value tables, users per value; registry of kernel functions | `emplace`, `BuildGraph`, `SubGraph`, `Reset`, `Dump`, `Load` and the protobuf forms | - |
| GraphExecutor | `runtime/graph.{h,cpp}` | per kernel a count of unready arguments, per value a register, reference counts | `Execute`, `RunAsyncGraph` | AsyncGraph, HostContext, AsyncValue with indirect values |
| Batch scheduler | `runtime/batch_task.h` | open batch, closed flag | `Schedule`, `Close`, `WaitUntilClosed` | HostContext |
| SharedTask | `coroutine/shared_task.h` | one word: not started, ready, or the list of awaiters; a reference count; result or exception | copy, move, drop, `co_await`, `when_ready` | - |
| Task, WhenAll, SyncWait | `coroutine/task.h`, `when_all*.h`, `sync_wait.h`, `awaiter.h`, `coroutine_notifier.h`, ... | counter of running children, result of each, notifier | `co_await`, `Fmap`, `ScheduleOn`, `WhenAll`, `SyncWait` | coroutine pool |
| Coroutine pool | `coroutine/coroutine_thread_pool.{h,cpp}` | a deque per worker, cancelled flag | `Schedule`, `AddTask`, worker loop, `Steal`, destructor | a copy of TaskDeque |
| Support | `support/` | latch, thread-local slots, concurrent vector | `count_down`, `wait`, `Local`, `emplace_back` | - |

Interactions: a kernel or task runs on a worker of a work queue; it produces async
values; closures on these values run on whichever thread resolves them and may
submit more tasks. Workers find tasks in their own deque, steal from the others,
spin, and park on the event count. `Await` and `Quiesce` block outside threads
until values resolve or all workers are blocked.

What is hard, and what makes each part correct:

* **AsyncValue**: `AndThen` races the thread that resolves the value on one word.
  No closure may be lost or run twice; the value must be destroyed once, after its
  last use.
* **EventCount**: a notification between "I am going to wait" and "I am parked"
  must not be lost; the lock-free stack is exposed to ABA.
* **TaskDeque, TaskQueue**: two ends, or two threads at one end, meet at the last
  task or the last free slot. No task is lost or taken twice; `Empty` may not
  claim emptiness that never was, because workers park on the answer.
* **Work queue**: no worker may sleep while a task waits; the last worker to block
  wakes `Quiesce` and, in the destructor, everybody else; nothing is left behind.
* **HostContext**: `RunWhenReady` counts down in closures that may run while it is
  still registering others, and frees the counter in the last of them; `Await`
  keeps a latch (or a counter of its own) on its stack that closures touch on other
  threads. The callee must run once, after the last value; nothing on the stack
  may be touched after `Await` has returned; `Await` and the destructor return.
* **AsyncGraph**: the executor trusts the tables of `BuildGraph`. They must be those
  of the graph the user wrote, however it was stored, cut down or reset before.
* **SharedTask**: the first awaiters race to start the coroutine, later ones put
  themselves on a list that the end of the coroutine takes away, and the last owner
  destroys a frame that another thread may just have finished.
* **WhenAll, SyncWait**: the last child to finish resumes the parent on its own
  stack, the parent tells a thread that then destroys all of their frames.
* **Graph executors**: several threads count down the inputs of one node. It must
  run once, after the last; errors skip kernels; every value, the executor and the
  graph are freed exactly when their last user is done.

## 2. Modules

| Module | Models | Kind |
|---|---|---|
| `Future` | what an async value promises: resolved once, each closure called once, afterwards | abstract specification |
| `AsyncValue` | the waiter list, state word, payload, reference count of one value | detailed, implements `Future` |
| `AsyncValueProofs` | theorems about `AsyncValue` | proofs |
| `WaitSet` | what an event count promises: its four operations are atomic | abstract specification |
| `EventCount` | the packed word, the stack of nodes, park and unpark | detailed, implements `WaitSet` |
| `EventCountProofs` | theorems about `EventCount` | proofs |
| `TaskDeque` | the worker's deque | component |
| `TaskQueue` | the blocking worker's queue, with wrapping counters | component |
| `RunQueueProofs` | theorems about `TaskDeque` and `TaskQueue` | proofs |
| `WorkQueue` | worker loop, spinning, parking, `AddTask`, `Quiesce`, `Cancel`, destructor | composition over `WaitSet` and atomic deques |
| `WorkQueueProofs` | theorems about `WorkQueue` | proofs |
| `MultiThreadedWorkQueue` | both pools, the dynamic threads of `BlockingWorkQueue`, the pending-task counter, `Quiesce` | composition over pools that run what was pushed |
| `MultiThreadedWorkQueueProofs` | theorems about `MultiThreadedWorkQueue` | proofs |
| `TaskGraph` | `TaskGraphExecutor` | composition over `Future` and a queue that runs its items |
| `TaskGraphProofs` | theorems about `TaskGraph` | proofs |
| `GraphExecutor` | `GraphExecutor`, registers, indirect values, errors | composition, likewise |
| `AsyncGraph` | construction, storage and reduction of a graph, the kernel registry, `BuildGraph` | component; `GraphExecutor` continues from its tables |
| `AsyncValues` | several async values and the threads that run their closures | component over `Future` |
| `SingleThreadedWorkQueue` | the queue whose tasks run inside `Await` and `Quiesce` | component |
| `HostContext` | `EnqueueWork`, `RunWhenReady`, `Await` with its latch, destructor, over either queue | composition over the two above |
| `SharedTask` | the awaiter list, start, completion and owners of one shared coroutine | detailed, implements `Future` |
| `SharedTaskProofs` | theorems about `SharedTask` | proofs |
| `CoroutineThreadPool` | the coroutine pool | component |
| `SyncWait` | `SyncWait` over `WhenAll` over `Task`s that move to the pool | composition over `CoroutineThreadPool` |
| `SyncWaitProofs` | theorems about `SyncWait` | proofs |
| `MC*` | constants for TLC | model checking |

Variables carry the names of the members they model (`mWaitersAndState`,
`mState`, `mArgumentsNotReady`, ...); locals of a call are functions from threads
to values, and `pc` says where in the call a thread is. An action is one access
to shared memory, with the local computation around it; where several accesses
are one step, the head of the module says so and why nothing is lost. The few
variables marked *history* (`ran`, `popped`, `finished`, ...) record what happened
and are read by properties only.

**Memory model.** Atomic accesses are sequentially consistent in the models. The
code uses acquire/release and relaxed orders in places; what a weaker order could
additionally do is not covered. The one place where the code pays for a full
fence, the pair of `Prewait`/`Notify`, is where the models need the order too.

**How the layers fit.** `WorkQueue` uses the event count as a `WaitSet`, which the
run `event_count` shows `EventCount` to implement (safety and liveness; the safety
part is proved too), and treats
a deque as a number of tasks that change atomically. For the latter the run
`task_deque` checks, and `RunQueueProofs` proves, what it rests on: tasks are conserved,
a deque reported empty was empty at some moment of the call (section 4 says within which
bound), and between calls the deque is one contiguous run of slots. `TaskGraph` and `GraphExecutor` use an async value as a `Future`
(`AndThen` and resolution are single steps, and the closure runs as a strand of its
own) and a work queue that runs every item, which `work_queue` shows. `HostContext`
makes the same two assumptions: `AsyncValues` keeps of a value what `Future`
promises, and a worker of the multi-threaded queue takes any queued task.
`SyncWait` extends `CoroutineThreadPool`, whose deques are atomic for the reason
given above: their code is that of `TaskDeque` line for line.
`MultiThreadedWorkQueue` keeps of a pool what `WorkQueue` shows of it: a pushed task
is run, and all workers are blocked only while none runs a task. A queue may hold a
task at that moment, but only one that was pushed after the last worker had
looked; these are the tasks in `unseen`.

### Correspondence by module

* `AsyncValue`: `AddRef`, `AndThen`, `EnqueueWaiter` (three outcomes of one
  compare-exchange), `Emplace`, `SetStateConcrete`, `SetError`, `NotifyAvailable`,
  `RunWaiters` (call the notification, read `mNext`, destruct the node: three steps
  per node) and `DropRef` (load of the count, decrement) are actions. Closures that own a reference, as `ForwardTo`
  builds them, are the callers in `Capturing`.
* `EventCount`: waiters behave as in `WaitForWork`, notifiers as in `AddTask`.
  `mState` is a record of its four fields; the ABA counter counts modulo `EpochMod`.
* `TaskDeque`: `Advance` and `Retreat` are the masked additions on `mFront`,
  `mBack`; `SizeOrNotEmpty` reads back, front and front again, one step each.
* `TaskQueue`: counters modulo `IndexMod`; tickets compared as plain integers, as
  the cast to `int64_t` in the code does.
* `WorkQueue`: loops over the queues look at one queue per step, in any order (the
  code starts at a random queue). `mSpinningState` is a record of its two halves.
* `MultiThreadedWorkQueue`: the threads of control are the tasks, because tasks add
  tasks; `on` says which thread a task runs on. Adding is two or three steps (read
  `IsQuiescing`, count, push), so that `Quiesce` can begin in between. Everything a
  dynamic thread or its caller does under `mMutex` is one step; its wait may end by a
  notification, spuriously, or by the timeout. The transfer queue is a set: the
  order in which idle threads take tasks is left open. One thread calls `Quiesce`.
* `TaskGraph`: a strand is one run of `ProcessReadyNodeIndexs`. The `DropRef` that finds
  the last reference goes on through `Destroy`: the destructor, which gives up the graph
  (`Destructor`), and the read of the context from the graph (`Deallocate`). Edges are a set: a
  dependency that is added twice is counted twice on both sides in the code, and
  so changes nothing.
* `GraphExecutor`: objects are `<<"value", v>>` and `<<"indirect", v>>` with a state
  and a reference count each, so aliasing by error propagation is visible. A kernel
  returns, for each output, a value, an error, or a promise that some other thread
  resolves later. The graph is first made by the actions of `AsyncGraph` (`Build`);
  `RunAsyncGraph` starts from the tables that `BuildGraph` left in `graph`.
* `AsyncGraph`: one action per operation of the user, on the graph as a sequence of
  nodes. A node's function is known by its name, which is what a file keeps of it;
  loading looks the name up in the registry. The two file formats differ in layout
  only, and reader and writer agree on the mode. `Travel` is the breadth-first search of
  `SubGraph`: its queue of names, the nodes it has visited, the nodes it has emplaced.
* `AsyncValues`: an available value passes its closures to the thread that resolved
  it (`todo`); a thread runs them before it goes on with its program.
* `SingleThreadedWorkQueue`: a critical section of `mMu` is one step, the notification
  after it another. `Await`'s closures, its batch of tasks and the index into it are
  the locals of the code.
* `HostContext`: the client makes each of its calls at most once and in any order, a
  second thread outside the pool adds work and resolves values, workers run tasks.
  A full pool runs the task in the thread that adds it.
  The client's values come into being with their tasks, those of the second thread
  beforehand, so `Await` may find the queue empty and have to sleep.
  The latch is a record of its count, the waiter's announcement, the notification,
  the holder of its mutex and whether it still exists.
  `RunWhenReady` has its fast paths for zero and one unavailable value.
* `SharedTask`: every access to `mWaiters`, to `mRefCount` and to an awaiter's node is
  a step. The body of the coroutine runs on the stack of the awaiter that started it
  until it first suspends, and may be resumed by any thread later.
* `CoroutineThreadPool`: worker loop, `Steal` with one victim per step, `AddTask` with
  the fallback of running the operation inline when the queue is full, and the
  destructor.
* `SyncWait`: `Start` of each child, `notify_awaitable_completed`, `try_await`, the
  notifier with its mutex, `Set` and `Wait`, and the destruction of the frames by the
  thread that waits are separate steps.

## 3. Runs

All passing runs fire every action of their specification.

| Run | Instance | What it shows |
|---|---|---|
| `async_value` | 3 callers, one with an owning closure, 1 resolver | closures are neither lost nor called twice, no freed node is followed, the payload fits the state, the count reaches zero once and after the last use; the value implements `Future` with its liveness |
| `event_count` | 2 waiters, 2 notifiers, 2 notifications, ABA counter modulo 3 | the counters are exact, a parked thread is on the stack or in the hands of exactly one `Unpark`, every announced item is taken, `WaitSet` is implemented |
| `task_deque` | owner and 2 thieves, 4 slots, 3 tasks, all operations | tasks are conserved, `Empty` is right, the deque is contiguous when quiet |
| `task_queue` | 2 threads, 4 slots, counters modulo 8 starting at 5 | tasks leave in the order they entered across the wrap, `Size` is never too small |
| `work_queue` | 2 workers, 2 tasks, queues of 2, one `Quiesce`, optional `Cancel` | the spinning word and the blocked count are exact and all-blocked means idle (`CountersMatchWorkers`), nobody sleeps over work, shutdown leaves nothing, calls return |
| `multi_threaded` | 3 tasks that add one another, 2 dynamic threads, queues of 1, one `Quiesce` | the transfer queue never holds more tasks than there are idle threads, `Quiesce` leaves nothing but tasks that straddle its start, accepted tasks run and `Quiesce` returns even if no idle thread ever times out |
| `task_graph` | all acyclic graphs of 4 nodes, with and without waiting | each node runs once after its dependencies, the chain resolves after the last node, the executor outlives its strands and the graph the executor's destructor, the run ends |
| `graph_executor` | 3 graphs of up to 4 kernels, stored and loaded or not, cut down by `SubGraph` or not, built before or after a `Reset`; all combinations of values, errors and promises | the tables are those of the graph as written, kernels run once on available, error-free arguments, references balance to zero and nothing is used after it is freed (`LifetimesExact`), all results resolve |
| `shared_task` | 3 awaiters, one with `when_ready`, a body that suspends up to once, ends or throws | the frame is destroyed once, after its last use; the task implements `Future` (safety), and every awaiter is resumed |
| `sync_wait` | up to 3 tasks that move to a pool of 2 workers up to twice, queues of 1 | the root is resumed once and after all children, the first exception in order wins, no frame is destroyed under a thread, `SyncWait` returns and the pool ends |
| `host_context` | client, outside thread, 2 workers, 4 values of which 2 are awaited and 3 given to `RunWhenReady`; either work queue | the callee runs once and after all values, closures do not touch a latch or counter that is gone, a batch keeps the order of its tasks, calls return |

The bounds are the smallest at which the cases in question occur: three callers
give a list with a middle node while a fourth thread resolves; two waiters and two
notifiers with two calls allow a pop with a stale `next` (with the counter left out
of the word, `ParkedAreReachable` fails); three tasks in four slots with two thieves
bring owner and thief to the same last task, and two thieves to the mutex; two
workers and two tasks give a worker that submits while the other one parks; three
tasks and two dynamic threads give a hand-over that races a timeout while a third
task adds or `Quiesce` begins; four
nodes contain the diamond and every join of three; the three graphs of
`graph_executor` contain a fork, a join, a shared value, two outputs and two
arguments, and `SubGraph` leaves all of one and part of another; three awaiters give
a starter, one in the middle of the list and one that arrives when the task is ready;
three children with queues of one slot on two workers give a child that runs inline,
one that is stolen and a last one that races `try_await`; four values give
`RunWhenReady` a closure that runs during registration, and `Await` one value that a
task and one that another thread resolves. Deadlock checking is off where threads may stop for good in a correct
system (no more notifications, a pool that is never destroyed).

Every property has a mutant in `PROJECT.json`, a plausible slip in one modelled
definition that makes it fail; the mutated definitions stand in the modules,
marked `Mutant`.

**Fairness.** A thread that is inside a call keeps taking steps (weak fairness per
thread: the scheduler runs every thread). Tasks and kernels return. Nobody is
obliged to start a call, to notify or to drop a reference. One strong-fairness
assumption is made, in `WorkQueue`: a spinning worker eventually finds nothing to
steal *and stops*, because its loop is bounded by a counter that the model leaves
out. Compare-exchange retries need no assumption: a retry means that another
thread made progress, and the number of calls is bounded. In `HostContext` the
outside thread does the work and resolves the values the client waits for; a client
that has called `Await` could not expect less. In `SharedTask` and `SyncWait` the body
of a coroutine goes on after it has suspended, and a worker of the coroutine pool
keeps spinning over the queues.

### Runs that refute a statement of the repository

| Run | What the code does |
|---|---|
| `single_threaded_await` | `host_context.h:146` promises to "block until the specified values are available". `Await` of the single-threaded queue clears its batch after running it (`single_threaded_work_queue.cpp:86`); when another thread then resolves the last value, it leaves the loop (line 92) before the index is reset (line 95), and line 100 inserts the range from `begin() + N` to `end()` of an empty vector |

`host_context` stays outside of this case: over the single-threaded queue its `Foreign`
is empty, so every value is computed by a task that the client itself runs. In
`WorkQueue` the properties that a cancelled pool does not have are stated for pools
that were not cancelled; `QuiescedMeansEmpty` excepts the tasks in `straddling`;
`FirstStates` of `GraphExecutor` has only available states, as in all callers in the
repository, and `MayReleaseEarly` is FALSE (the user drops a result after `Await`).
`AliveWhileUsed` of `TaskGraph` asks for a live graph in the last step of
`TaskGraphExecutor::Destroy` only while the user keeps a reference to it. The user may let
go of the graph at any moment after `RunTaskGraph` has returned; up to and including the
executor's destructor that does no harm, and after it it does, as the observation on
`task_graph.cpp:113` below says. None of these cases contradicts a
statement of the repository, which is why they are conditions of properties and
not runs.

Other observations, met while modelling; those marked (TLC) were seen as
counterexamples with other constants or a dropped exception:

* Once the 32-bit indices of `TaskQueue` have wrapped around, `PopBack` on an empty
  queue and `PushFront` on a full one loop for ever, because tickets are compared
  after widening to `int64_t` (TLC).
* A task of the blocking pool that read `IsQuiescing` before `Quiesce` began may push a
  non-blocking task, uncounted, after that pool was found idle; `Quiesce` returns
  while it is queued (TLC: `QuiescedMeansEmpty` without `straddling`).
* `GraphExecutor` counts down the users of its first argument although it may not be
  available (TLC: `FirstStates`), and a result dropped by the user before its kernel has
  returned frees the indirect value that the executor will still forward (TLC:
  `MayReleaseEarly`).
* `async_value.h:340` describes the invariant of the word the other way round; what
  holds is "available implies no waiters".
* `work_queue_base.h:488` says the workers exit "at the same time"; they exit one
  by one, and each looks at the queues again.
* `Cancel` (no caller) notifies once: a worker on its way to `Prewait` misses it and
  parks for ever, and the destructor of a cancelled pool notifies nobody before it
  joins. That destructor also empties the queues before it joins the workers, so a
  running task may fill them again and `~TaskDeque` asserts.
* `Quiesce` on a cancelled pool may never return, since exited workers are not
  counted as blocked.
* `PopBackHalf` (no caller) moves `mBack` once at the end, so a size computed
  meanwhile can exceed the bound asserted in `CalculateSize`.
* `TaskGraphExecutor::Destroy` reads `mGraph->mpContext` (`task_graph.cpp:113`) after
  its destructor (line 112) gave up the executor's reference to the graph. If the user's
  was the only other one and is gone, the graph is freed before it is read (TLC:
  `AliveWhileUsed` without its condition on the caller; two start nodes, `sync` FALSE, and
  the user lets go of the graph before a worker drops the last reference to the
  executor). A user who keeps the graph until the host is quiesced is safe;
  `GraphExecutor::Destroy` (`graph.cpp:411`) reads the context first. `TaskGraph::Destroy`
  (line 33) reads a member of its own object after its destructor.
* A graph without nodes makes `RunTaskGraph(graph, true)` wait for ever
  (`GraphAssumption`: there are nodes).
* In an AsyncGraph, a kernel that names one value twice never runs (TLC), a kernel
  without outputs runs after its first argument, and an argument that nobody uses
  is handed out as a result with a reference that was never added
  (`PlanAssumption` of `AsyncGraph` excludes the three). A `SubGraph` that cuts off all
  users of an argument produces that last case from a legal graph (TLC).
* `BuildGraph` twice without `Reset` lists the outputs twice; a node emplaced without
  a name cannot be stored and loaded.
* The comment on `RunWhenReady` says it also runs when any value "is already an
  error"; the code waits for all of them.
* `shared_task.h:258` speaks of a count "initialised to 2"; the code starts at 1.
* `~HostContext` never drops `mCancelValue`, and `GetCancelAsyncValue` (no caller) hands
  out a bare pointer that `Restart` may free.
* The closures of the single-threaded `Await` notify after they have released the
  mutex, so a thread that resolves an awaited value must not outlive the host.
* A coroutine pool that is destroyed with operations in its queues drops them.
* The constructor of `TaskPriorityLockDeque` does not initialise its indices.
* `BlockingWorkQueue::RunBlockingTask` (no caller) destroys `std::thread` objects of
  ended threads without joining them, which terminates the program (`CleanUp`).
* Two threads in `BlockingWorkQueue::Quiesce` at once: the last dynamic thread to end
  notifies one of them, and the first to leave resets `mStopWaiting`.

## 4. Proofs

`AsyncValueProofs` proves, for any set of callers and any subset of owning closures:

| Theorem | Statement |
|---|---|
| `TypeCorrect` | `Spec => []TypeOK` |
| `CalledOnce` | `Spec => []CalledOnceWhenAvailable` |
| `NoneLost` | `Spec => []NoWaiterLost` |
| `CursorIsLive` | `Spec => []NoFreedNode` |
| `AvailableFinal` | the word never changes again once the value is available |
| `Refinement` | `Spec => F!Spec`: the lock-free list implements `Future` (safety) |
| `LifetimeIsExact` | `Spec => []LifetimeExact`: no use after `Destroy`, no leak |

The only assumption is `ThreadAssumption`: the callers are finitely many, and the
resolver and NULL are not among them.
None of the invariants is inductive as it stands; even the type of the cursor
depends on the list not running into a freed node. The inductive invariant `IInv`
has four parts:

* `TypeOK`;
* `CallerInv`, what the control point of a caller says about its closure and node;
* `ResolverInv`: the word is available exactly when the resolver has passed
  `NotifyAvailable`, and then its pointer is null;
* `ChainInv`: the nodes linked and not yet freed form one chain with depths
  n, ..., 2, 1 from `First`, which is the word's pointer before resolution and the
  resolver's cursor afterwards (the node it has called, until it has read the next one).
  `depth` is a history variable, set when a node is
  linked, that turns "is a list" into a first-order statement.

There is one lemma per action (`AddRefStep`, ..., `DropRefStep`), and `IInvStep`
combines them. A closure cannot be lost because a successful link puts it on
top of the chain and the exchange in `NotifyAvailable` hands the entire chain to
the resolver's cursor, which moves down one node at a time; when it is null the
chain is empty, so every node was freed, and a freed node's closure has run.

For `LifetimeIsExact` a second invariant ties the reference count to the set of those who
hold a reference (`Holders`): callers in the middle of a call, closures on the list that
own one, and the resolver. The reference of a closure moves from the caller to the node
and from there to the thread that destructs the node.

`TaskGraphProofs` proves, for every finite set of nodes and every set of edges over
it (cyclic ones too, since these are safety statements):

| Theorem | Statement |
|---|---|
| `CountersExact` | `Spec => []IInv`: each counter is the size of the set it stands for |
| `TypeCorrect` | `Spec => []TypeOK`: no counter falls below zero |
| `NodesRunOnceInOrder` | `Spec => []RunsOnceInOrder` |
| `FinishAfterLast` | `Spec => []FinishMeansAllRan` |
| `OutlivesStrands` | `Spec => []AliveWhileUsed`, with the condition on the user's reference stated in section 3 |

The assumption is `GraphAssumption`: finitely many nodes, edges between nodes, and a
caller that is not a node. The inductive invariant ties the three counters of the
code to sets. `mNodeCountInfo[n]` is the size of `Open(n)`, the dependencies of n that
have not returned or whose strand has still to count n down; `mTotalTaskCount` is
the number of nodes that have not returned; `mRefCounted` is the number of active
strands. `StrandInv` and `NodeInv` say where a node can be: ready in one strand,
running in one strand, or returned. Exactly one strand makes a node ready because
`CountDown` removes one element of `Open(n)`, the strand's own node, and the strand
that finds a count of one empties it; exactly one strand sees a total of one
because `FinishNode` removes its node from the unfinished ones in the same step.
`GraphInv` says that the references to the graph are the user's, until it is released, and
the executor's, until the one strand that is in `Destroy` has run the destructor.
`CountedSetsFinite` and `SizeOfRemoved` are the facts about sizes, and there is one
lemma per action.

`EventCountProofs` proves, for any number of waiters and notifiers:

| Theorem | Statement |
|---|---|
| `FieldsAreExact` | `Spec => []WordInv`: the waiters field counts the threads in pre-wait, and there are never more signals than those |
| `EventCountInvariant` | `NoWrap => (Spec => []IInv)` |
| `WordIsExact` | `NoWrap => (Spec => []CheckState)` |
| `NoParkedThreadLost` | `NoWrap => (Spec => []ParkedAreReachable)` |
| `Refinement` | `NoWrap => (Spec => WS!Spec)`: the word, the stack and the mutexes implement `WaitSet` (safety) |

`NoWrap == MaxCalls < EpochMod` says that the ABA counter does not come round during
the calls of `Notify`. It is a hypothesis of the theorems and not an assumption of the
module because `FieldsAreExact` does without it, and because it is needed: a notifier
that sleeps between its load and its compare-exchange while the counter comes round
finds the old word and stores a link that is no longer right. In the code the
counter has 22 bits (`kEpochBits`, which a `static_assert` calls enough "to prevent ABA
problem"), so the hypothesis is the code's own.
The run has `MaxCalls` one below `EpochMod`.

The invariant has three parts. `WordInv` is inductive on its own. `ListInv` describes the
stack and the lists in the hands of `Unpark` by their links alone: nobody points to a
head, no two nodes point to the same one, and every set of parked waiters is entered
from outside, which excludes cycles without a depth or an order. `EpochInv` is about
the ABA counter: a node on the stack carries the last value its waiter wrote (`TagInv`);
a waiter pushes itself once more only after a call of `Notify` has taken it, so that
its counter is bounded by the calls (`PushBound`); hence what a notifier read of a node
is still true if the word has not changed in between (`CopyInv`).

`WorkQueueProofs` proves, for any number of workers, of slots and of tasks:

| Theorem | Statement |
|---|---|
| `PoolInvariant` | `Spec => []IInv` |
| `CountersAreExact` | `Spec => []CountersMatchWorkers` |
| `NobodySleepsOverWork` | `Spec => []NoSleepOverWork` |
| `DestructorDrains` | `Spec => []DrainedWhenDestroyed` |

The counters are sizes of sets of workers (`SpinInv`, `BlockInv`). What is not obvious is
that no task is left behind: `AddTask` skips the notification when it pushes into its
own empty queue or when somebody spins, and a worker that is about to park looks at
the queues one after the other. `AttentionInv` says of each queue with a task, and not of
the pool as a whole, that somebody is *attentive* to it: a worker that will look at
this queue again before it parks or exits, a signal, or a wake-up on its way. A worker
turns away from a queue only when it has just seen it empty, and it is in pre-wait by
then, so that whoever pushes into the queue afterwards has somebody to signal.

`MultiThreadedWorkQueueProofs` proves, for any finite sets of tasks and dynamic threads:

| Theorem | Statement |
|---|---|
| `CountersExact` | `Spec => []IInv`: the counters of pending tasks, dynamic threads and idle threads are sizes of sets |
| `TransferQueueBounded` | `Spec => []TransferBounded` |
| `QuiesceLeavesNothing` | `Spec => QuiescedMeansEmpty` (an action property) |

`QuiesceInv` says of every task that is accepted and not counted how far `Quiesce` can have
come: not past the pool the task is in. A task that adds a task is running, and so is
in this sense itself in the way.

`SharedTaskProofs` proves, for any finite set of awaiters:

| Theorem | Statement |
|---|---|
| `SharedTaskInvariant` | `Spec => []IInv` |
| `FrameOutlivesUsers` | `Spec => []NoUseAfterFree` |
| `NobodyLeftSuspended` | when `FinalAwaiter` is through, no awaiter is suspended |
| `Refinement` | `Spec => ImplementsFuture` |

The list is described as in `EventCountProofs`. The body owns no reference; it is kept
alive because `host` or somebody suspended owns one, which is what `RefInv` and `BodyInv`
say together.

`SyncWaitProofs` proves, for any number of tasks, of workers and of slots in a queue:

| Theorem | Statement |
|---|---|
| `SyncWaitInvariant` | `Spec => []IInv` |
| `FramesOutliveThreads` | `Spec => []NoUseAfterFree` |
| `ResultIsOfAll` | `Spec => []ResultOfAll` |

`m_count` is the size of `Uncounted`, the children that have not ended or are about to
count themselves down, and one more until the root is registered (`CountInv`). A child
is on one thread or in one slot of one queue (`PlaceInv`, `QueueInv`), so each is counted
down once, and whoever takes the count to zero is alone in the root (`RootInv`). The
flag is set under the mutex by that thread only, and Main sees it under the mutex: by
then all queues are empty and the last thread has no use for a frame any more.

`RunQueueProofs` is about the two rings tasks wait in. It extends `TaskDeque` and
instantiates `TaskQueue` as `Q`, with parameters and variables of its own (prefixed with q).

| Theorem | Statement |
|---|---|
| `DequeInvariant` | `Spec => []IInv` |
| `DequeIsIntact` | `Spec => []DequeIntact` |
| `CopiesAreCurrent` | `Spec => [](IInv /\ Copies)` |
| `EmptyCallIsHonest` | from any such state with a thread outside a call: while fewer than m tasks are pushed, its answer "empty" means that the deque was empty at some moment of the call |
| `QueueInvariant` | `Q!Spec => []QInv`, with `FewerThanIndices` |
| `QueueIsFirstInFirstOut` | `Q!Spec => [](Q!FirstInFirstOut /\ Q!SizeNeverSmaller)`, with `FewerThanIndices` |

Both proofs give a task a position, an integer that never wraps; the words of the code
are remainders of positions, and the first section of the module says when two equal
remainders come from the same position.

*The deque*, for every capacity above 2, every counter range, set of thieves and number of
pushes. `IInv` says that there are lo and hi, at most `kCapacity` apart, such that the
index bits of `mFront` and `mBack`, and of the copies in locals, agree with hi and lo or
with the neighbour an unfinished operation is about to leave (`FrontWords`, `BackWords`);
the slots of lo .. hi - 1 are ready except for the one the owner has claimed at the
front and the one, or the run of `PopBackHalf`, that the holder of the mutex has
claimed at the back (`Ring`); and every task offered is in one hand, in one slot, or
handed out (`OnePlace`). Neither end checks the other's index: an operation goes on only
if the slot is in the right state, and because claimed slots are busy, a push that
would overtake the back, or two pops of the last task, meet a slot in the wrong state.
There is one lemma per action.

*Empty* compares the two reads of the whole word `mFront`. For a call, `CallInv` says that
since its last read the front has gone forward a times and back r times and the
counter has ticked between a and 2a times. If the words are equal the ticks are a multiple
of the counter range, hence a = 0 while few tasks are pushed, and then r is a multiple of
2 `kCapacity`, hence 0 unless `kCapacity` tasks or more were pushed at the back for the
owner to pop. So the theorem needs m <= `kCapacity` and 2m < `CounterMod` (1024 and 2^21 in
the code), and a capacity of at least 4, which the `static_assert`s on the
capacity ask for. The bound is not an artefact. `PopFront` and `PushBack` step an index back
without changing the counter (`task_deque.h:67` and `:85`): an observer that is suspended
between its two reads while the owner pops 2 `kCapacity` tasks, `kCapacity` or more of them
just pushed at the back, reads the same word twice, with a `mBack` from another moment in
between, and can take the deque for empty. The run offers 3 tasks, within the bound.

*The queue*, for every finite set of threads, every capacity above 2, every first index and
every number of pushes below `IndexMod` (`FewerThanIndices`; the indices are 32-bit). `QInv`
describes the last `kCapacity` positions, one per element: a position from Lo up is to be
filled, with the ticket of its turn, or ready with its task; a position below Lo is being
cleared or has the ticket of the next round. A thread's index is the turn of some earlier
position; if the exchange succeeds it is the present one, since fewer than `IndexMod`
claims lie between, and what it read of the ticket is still true, since only the winner
of the exchange stores to that element. That is why the number of pushes is bounded: a
thread that slept while the index came round would win the exchange with a ticket read a
round of the index ago. For `Size`, the two equal reads of `mFront` are the same
position, and the smallest number of tasks since can only have fallen. The run has
`MaxPush` one below `IndexMod`.

The assumptions are those of the models: finite sets of threads, distinct names for
threads and NULL, capacities and bounds that are numbers. No theorem bounds the number
of threads; tasks and calls are bounded only where a counter of the code comes round
(`NoWrap`, `FewerThanIndices`, and `EmptyCallIsHonest`).

Only model-checked:

* all liveness, which is out of the prover's reach;
* `NoFalseEmpty` over a whole run; `EmptyCallIsHonest` proves it call by call;
* `HostContext` (`RunWhenReadyOnce`, `AwaitOutlivesClosures`, `ItemsInOrder`): nothing
  prevents a proof, none is written;
* `AsyncGraph` and `GraphExecutor`, which extends it: the search `Travel` is a RECURSIVE
  operator, which the prover cannot take.

## 5. Plan

Done: the synchronisation core (`AsyncValue`, `EventCount`, `TaskDeque`,
`TaskQueue`), the pools above it, `HostContext` over either work queue, both graph
executors with the construction of their graphs, and the coroutine library with its
pool; proofs for `AsyncValue`, `EventCount`, `TaskDeque`, `TaskQueue`, `WorkQueue`,
`MultiThreadedWorkQueue`, `TaskGraph`, `SharedTask` and `SyncWait`. To come, in this order:

1. Proofs: `HostContext`'s `RunWhenReadyOnce` and `AwaitOutlivesClosures`.
2. `CancelExecution` and `Restart` of `HostContext`, once they have callers.
3. `ConcurrentVector`.

## 6. Not modelled

* `IndirectAsyncValue` outside the graph executor and `SetError` on it.
* `CancelExecution`, `Restart` and `GetOrCreateSharedContext` of `HostContext`, `try_wait`
  of the latch: no caller in the repository.
* `ConcurrentVector`: holds the table of payload types of `AsyncValue`; the model has
  one type. `ThreadLocal` and `CoroutineTaskQueue`: unused.
* Move construction of the task types, the tuple form of `WhenAll`, the type
  computations of `coroutine_traits.h`: no state beyond what the vector form has.
* The allocators, host buffers, `unique_function`, spans and string helpers:
  sequential code with unit tests and no protocol.
* Tracing: writes timestamps that nothing reads back.
* The byte layout of graph files; what is kept of a graph in them is modelled.
* The priority deques: `TaskDeque` once per priority, used by a unit test only.
* `StreamBatchScheduler`: a template that does not compile when instantiated; `Batch`
  has no other user.
* `src/tools` and the integration tests: programs that use the library.
