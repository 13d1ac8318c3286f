------------------------------ MODULE HostContext ------------------------------
(***************************************************************************)
(* HostContext (context/host_context.{h,cpp}) as its clients use it:       *)
(* EnqueueWork and EnqueueBlockingWork, RunWhenReady, Await and the        *)
(* destructor, over either of its work queues.  With the single-threaded   *)
(* queue the client runs the work itself; with the multi-threaded one the  *)
(* workers do (how they find it is the subject of WorkQueue), and Await    *)
(* blocks on a latch (support/latch.h) on the client's stack.              *)
(*                                                                         *)
(* Next to the client there is a thread outside the host, which also adds  *)
(* work and which makes the values in Foreign available by itself.         *)
(***************************************************************************)
EXTENDS SingleThreadedWorkQueue

CONSTANTS Workers, Outside,
          ClientItems,   \* values the client computes by EnqueueWork
          OutsideItems,  \* values the outside thread computes by EnqueueWork
          Blocking,      \* those of either that go through EnqueueBlockingWork
          Foreign,       \* per kind of queue: values made available directly
          Depends,       \* the values given to RunWhenReady, as a sequence
          Kinds,         \* work queues to look at
          NULL

ASSUME HostAssumption ==
  /\ Threads = Workers \cup {Client, Outside}
  /\ Client \notin Workers \cup {Outside} /\ Outside \notin Workers
  /\ Kinds \subseteq {"single", "multi"}
  /\ \A k \in Kinds : ClientItems \cup OutsideItems \cup Foreign[k] = Values
  /\ Awaited \in Seq(Values) /\ Depends \in Seq(Values)

VARIABLES
  kind,         \* which work queue the host has
  held,         \* per worker: the task it is about to run
  did,          \* the calls the client has made
  unavailable,  \* RunWhenReady: unavailable_values
  counter,      \* RunWhenReady: CounterAndCallee::counter
  data,         \* ... and whether that object lives
  ran,          \* history: how often the callee was called
  latch,        \* Await: the latch, while it lives
  enqueued,     \* history: tasks in the order they were queued
  executed,     \* history: tasks in the order they were called
  refused       \* blocking tasks the queue did not take

rwrVars == <<unavailable, counter, data, ran>>
history == <<enqueued, executed, refused>>
vars == <<valueVars, queueVars, pc, idx, kind, held, did, rwrVars, latch, history>>

NoLatch == [count |-> 0, waiting |-> FALSE, notified |-> FALSE, mu |-> NULL,
            alive |-> FALSE]

Init ==
  /\ ValuesInit
  /\ QueueInit
  /\ pc = "idle" /\ idx = 1
  /\ kind \in Kinds
  /\ held = [w \in Workers |-> NULL]
  /\ did = {}
  /\ unavailable = <<>> /\ counter = 0 /\ data = "none" /\ ran = 0
  /\ latch = NoLatch
  /\ enqueued = <<>> /\ executed = <<>> /\ refused = {}

Items(t) == (IF t = Client THEN ClientItems ELSE OutsideItems) \ Foreign[kind]
Queued == {enqueued[i] : i \in 1 .. Len(enqueued)}
Fresh(t) == {v \in Items(t) : v \notin Queued \cup refused}
Free(t) == IF t = Client THEN At("idle") ELSE Idle(t)

(***************************************************************************)
(* EnqueueWork: the task goes to the queue; its result is a value that is  *)
(* not available yet.  A multi-threaded queue that is full runs the task   *)
(* in the calling thread instead.  EnqueueBlockingWork may be refused by   *)
(* it, because its static blocking queue is bounded; the result then is an *)
(* error.                                                                  *)
(***************************************************************************)
Enqueue(t, v) ==
  /\ enqueued' = Append(enqueued, v)
  /\ \/ kind = "single" /\ AddTask(t, v)
     \/ /\ kind = "multi"
        /\ mWorkItems' = Append(mWorkItems, v)
        /\ UNCHANGED <<valueVars, values_remaining, local_work_items,
                       next_work_item_index>>
  /\ UNCHANGED refused

EnqueueWork(t) ==
  /\ Free(t)
  /\ \E v \in Fresh(t) \ Blocking :
       \/ Enqueue(t, v) /\ UNCHANGED executed
       \/ /\ kind = "multi"
          /\ enqueued' = Append(enqueued, v)
          /\ executed' = Append(executed, v)
          /\ Resolve(t, v)
          /\ UNCHANGED <<queueVars, refused>>
  /\ UNCHANGED <<pc, idx, kind, held, did, rwrVars, latch>>

EnqueueBlockingWork(t) ==
  /\ Free(t)
  /\ \E v \in Fresh(t) \cap Blocking :
       \/ Enqueue(t, v)
       \/ /\ kind = "multi"
          /\ refused' = refused \cup {v}
          /\ Resolve(t, v)
          /\ UNCHANGED <<queueVars, enqueued>>
  /\ UNCHANGED <<pc, idx, kind, held, did, rwrVars, latch, executed>>

\* The outside thread makes a value available by itself.
ForeignResolve ==
  /\ Idle(Outside)
  /\ \E v \in Foreign[kind] : Resolve(Outside, v)
  /\ UNCHANGED <<queueVars, pc, idx, kind, held, did, rwrVars, latch, history>>

(***************************************************************************)
(* The workers of a multi-threaded queue.                                  *)
(***************************************************************************)
TakeItem(w) ==
  /\ kind = "multi"
  /\ Idle(w) /\ held[w] = NULL
  /\ mWorkItems # <<>>
  /\ held' = [held EXCEPT ![w] = Head(mWorkItems)]
  /\ mWorkItems' = Tail(mWorkItems)
  /\ UNCHANGED <<valueVars, values_remaining, local_work_items,
                 next_work_item_index, pc, idx, kind, did, rwrVars, latch, history>>

RunTask(w) ==
  /\ Idle(w) /\ held[w] # NULL
  /\ Resolve(w, held[w])
  /\ executed' = Append(executed, held[w])
  /\ held' = [held EXCEPT ![w] = NULL]
  /\ UNCHANGED <<queueVars, pc, idx, kind, did, rwrVars, latch, enqueued, refused>>

(***************************************************************************)
(* RunWhenReady: look at the values one after the other; with none         *)
(* unavailable call the callee, with one hand it to AndThen, with more     *)
(* count them down in an object the last closure deletes.                  *)
(***************************************************************************)
\* A value the client computes exists once its task was added.  One the outside
\* thread computes is made beforehand, and its task, which the client may have to
\* wait for, only refers to it.
Created(values) == Fresh(Client) \cap {values[i] : i \in 1 .. Len(values)} = {}

RunWhenReady ==
  /\ At("idle") /\ Created(Depends) /\ "RunWhenReady" \notin did
  /\ did' = did \cup {"RunWhenReady"}
  /\ pc' = "scan" /\ idx' = 1
  /\ UNCHANGED <<valueVars, queueVars, kind, held, rwrVars, latch, history>>

Scan ==
  /\ At("scan") /\ idx <= Len(Depends)
  /\ unavailable' = IF Depends[idx] \in avail THEN unavailable
                    ELSE Append(unavailable, Depends[idx])
  /\ idx' = idx + 1
  /\ UNCHANGED <<valueVars, queueVars, pc, kind, held, did, counter, data, ran,
                 latch, history>>

\* Mutant: the counter does not count the value the loop starts with.
InitialCounterShort == Len(unavailable) - 1
InitialCounter == Len(unavailable)

Dispatch ==
  /\ At("scan") /\ idx = Len(Depends) + 1
  /\ CASE unavailable = <<>> ->
            pc' = "idle" /\ ran' = ran + 1 /\ UNCHANGED <<valueVars, counter, data>>
       [] Len(unavailable) = 1 ->
            /\ AndThen(Client, unavailable[1], "callee")
            /\ pc' = "idle"
            /\ UNCHANGED <<counter, data, ran>>
       [] OTHER ->
            /\ counter' = InitialCounter
            /\ data' = "live"
            /\ pc' = "register"
            /\ UNCHANGED <<valueVars, ran>>
  /\ idx' = 1
  /\ UNCHANGED <<queueVars, kind, held, did, unavailable, latch, history>>

Register ==
  /\ At("register")
  /\ AndThen(Client, unavailable[idx], "count")
  /\ idx' = idx + 1
  /\ pc' = IF idx = Len(unavailable) THEN "idle" ELSE "register"
  /\ UNCHANGED <<queueVars, kind, held, did, rwrVars, latch, history>>

\* A closure of RunWhenReady: the last one goes on to the callee.
CountDown(t) ==
  /\ \E k \in todo[t] :
       \/ /\ k[1] = "count"
          /\ Call(t, k, IF counter = 1 THEN "callee" ELSE "none")
          /\ counter' = counter - 1
       \/ k[1] = "callee" /\ Call(t, k, "callee") /\ UNCHANGED counter
  /\ UNCHANGED <<queueVars, pc, idx, kind, held, did, unavailable, data, ran,
                 latch, history>>

CallCallee(t) ==
  /\ cur[t] = "callee"
  /\ ran' = ran + 1
  /\ data' = IF data = "live" THEN "deleted" ELSE data
  /\ Enter(t, "none")
  /\ UNCHANGED <<avail, waiters, todo, queueVars, pc, idx, kind, held, did,
                 unavailable, counter, latch, history>>

(***************************************************************************)
(* Await registers one closure per value, with a latch or, in a            *)
(* single-threaded queue, values_remaining, on the client's stack.         *)
(***************************************************************************)
Await ==
  /\ At("idle") /\ Created(Awaited) /\ "Await" \notin did
  /\ did' = did \cup {"Await"}
  /\ pc' = "await" /\ idx' = 1
  /\ IF kind = "single"
     THEN AwaitBegin /\ UNCHANGED latch
     ELSE /\ latch' = [NoLatch EXCEPT !.count = Len(Awaited), !.alive = TRUE]
          /\ UNCHANGED queueVars
  /\ UNCHANGED <<valueVars, kind, held, rwrVars, history>>

AwaitRegister ==
  /\ At("await")
  /\ IF idx <= Len(Awaited)
     THEN AndThen(Client, Awaited[idx], "await") /\ idx' = idx + 1 /\ UNCHANGED pc
     ELSE /\ pc' = IF kind = "single" THEN "has" ELSE "wait"
          /\ UNCHANGED <<valueVars, idx>>
  /\ UNCHANGED <<queueVars, kind, held, did, rwrVars, latch, history>>

\* Mutant: the last one down notifies without looking whether anybody waits.
LastAndAwaitedAlways == latch.count = 1
LastAndAwaited == latch.count = 1 /\ latch.waiting

\* latch::count_down: only the last one down, and only if the client has said
\* that it waits, goes on to the mutex.
count_down(t) ==
  /\ kind = "multi"
  /\ \E k \in todo[t] :
       /\ k[1] = "await"
       /\ Call(t, k, IF LastAndAwaited THEN "notified" ELSE "none")
  /\ latch' = [latch EXCEPT !.count = @ - 1]
  /\ UNCHANGED <<queueVars, pc, idx, kind, held, did, rwrVars, history>>

count_downNotify(t) ==
  /\ cur[t] = "notified" /\ latch.mu = NULL
  /\ latch' = [latch EXCEPT !.notified = TRUE, !.mu = t]
  /\ pc' = IF pc = "latchSleep" THEN "latchWait" ELSE pc
  /\ Enter(t, "unlock")
  /\ UNCHANGED <<avail, waiters, todo, queueVars, idx, kind, held, did, rwrVars, history>>

count_downUnlock(t) ==
  /\ cur[t] = "unlock"
  /\ latch' = [latch EXCEPT !.mu = NULL]
  /\ Enter(t, "none")
  /\ UNCHANGED <<avail, waiters, todo, queueVars, pc, idx, kind, held, did, rwrVars, history>>

\* Mutant: the waiter does not announce itself.
AnnounceNot == latch
Announce == [latch EXCEPT !.waiting = TRUE]

\* latch::wait: announce oneself; a count of zero needs no mutex.
wait ==
  /\ \/ /\ At("wait")
        /\ latch' = Announce
        /\ pc' = IF latch.count = 0 THEN "awaited" ELSE "latchWait"
     \/ /\ At("latchWait") /\ latch.mu = NULL
        /\ pc' = IF latch.notified THEN "awaited" ELSE "latchSleep"
        /\ UNCHANGED latch
  /\ UNCHANGED <<valueVars, queueVars, idx, kind, held, did, rwrVars, history>>

LatchSpuriousWakeup ==
  /\ At("latchSleep")
  /\ pc' = "latchWait"
  /\ UNCHANGED <<valueVars, queueVars, idx, kind, held, did, rwrVars, latch, history>>

\* Await returns and its locals are gone.
AwaitReturn ==
  /\ At("awaited")
  /\ pc' = "idle" /\ idx' = 1
  /\ latch' = NoLatch
  /\ local_work_items' = <<>> /\ next_work_item_index' = 0
  /\ UNCHANGED <<valueVars, mWorkItems, values_remaining, kind, held, did, rwrVars, history>>

(***************************************************************************)
(* ~HostContext: Quiesce, then the queue goes.  The client has seen the    *)
(* outside thread through its calls before it destroys the host.           *)
(***************************************************************************)
OutsideDone == Fresh(Outside) = {} /\ Foreign[kind] \subseteq avail /\ Idle(Outside)

Quiesce ==
  /\ At("idle") /\ Fresh(Client) = {} /\ OutsideDone
  /\ pc' = "quiesce"
  /\ UNCHANGED <<valueVars, queueVars, idx, kind, held, did, rwrVars, latch, history>>

\* A multi-threaded queue is quiesced when no task waits or runs.
QuiesceMulti ==
  /\ At("quiesce") /\ kind = "multi"
  /\ mWorkItems = <<>> /\ \A w \in Workers : Idle(w) /\ held[w] = NULL
  /\ pc' = "quiesced"
  /\ UNCHANGED <<valueVars, queueVars, idx, kind, held, did, rwrVars, latch, history>>

Destroy ==
  /\ At("quiesced")
  /\ pc' = "destroyed"
  /\ UNCHANGED <<valueVars, queueVars, idx, kind, held, did, rwrVars, latch, history>>

SingleStep(A) ==
  kind = "single" /\ A /\ UNCHANGED <<kind, held, did, rwrVars, latch, history>>

RunItemHere ==
  /\ kind = "single" /\ RunItem
  /\ executed' = Append(executed, local_work_items[next_work_item_index + 1])
  /\ UNCHANGED <<kind, held, did, rwrVars, latch, enqueued, refused>>

Closures(t) ==
  \/ CountDown(t) \/ CallCallee(t)
  \/ count_down(t) \/ count_downNotify(t) \/ count_downUnlock(t)
  \/ SingleStep(AwaitClosure(t)) \/ SingleStep(NotifyAll(t))

\* What the client does inside a call, and what it does of its own accord.
InCall ==
  \/ Scan \/ Dispatch \/ Register
  \/ AwaitRegister \/ wait \/ AwaitReturn
  \/ SingleStep(AwaitHasValues) \/ SingleStep(AwaitFetch) \/ SingleStep(AwaitPutBack)
  \/ SingleStep(QuiesceFetch) \/ SingleStep(QuiesceBatchDone) \/ RunItemHere
  \/ QuiesceMulti \/ Destroy
  \/ Closures(Client)
Calls == EnqueueWork(Client) \/ EnqueueBlockingWork(Client)
         \/ RunWhenReady \/ Await \/ Quiesce
OutsideStep == EnqueueWork(Outside) \/ EnqueueBlockingWork(Outside) \/ ForeignResolve \/ Closures(Outside)
WorkerStep(w) == TakeItem(w) \/ RunTask(w) \/ Closures(w)
Wakeup == SingleStep(SpuriousWakeup) \/ LatchSpuriousWakeup

Terminated == pc = "destroyed" /\ UNCHANGED vars

Next ==
  \/ InCall \/ Calls \/ Wakeup \/ OutsideStep
  \/ \E w \in Workers : WorkerStep(w)
  \/ Terminated

\* A call the client is in goes on, the workers run, and the outside thread does
\* its part; the client is not obliged to call anything.
Fairness ==
  /\ WF_vars(InCall) /\ WF_vars(OutsideStep)
  /\ \A w \in Workers : WF_vars(WorkerStep(w))

Spec == Init /\ [][Next]_vars
FairSpec == Spec /\ Fairness
-------------------------------------------------------------------------------
(***************************************************************************)
(* Properties                                                              *)
(***************************************************************************)

\* Every variable stays within its type; the one type invariant.
TypeOK ==
  /\ avail \subseteq Values
  /\ \A v \in Values : waiters[v] \subseteq {"count", "callee", "await"} \X {v}
  /\ \A t \in Threads :
       /\ todo[t] \subseteq {"count", "callee", "await"} \X Values
       /\ cur[t] \in {"none", "notify", "callee", "notified", "unlock"}
  /\ mWorkItems \in Seq(Values) /\ local_work_items \in Seq(Values)
  /\ values_remaining \in 0 .. Len(Awaited)
  /\ next_work_item_index \in Nat
  /\ kind \in Kinds
  /\ held \in [Workers -> Values \cup {NULL}]
  /\ counter \in 0 .. Len(Depends)
  /\ data \in {"none", "live", "deleted"}
  /\ latch.count \in 0 .. Len(Awaited)
  /\ refused \subseteq Blocking

\* The callee runs at most once, only when every value is available, although the
\* closures count down while others are still being registered; the object they
\* count in is deleted by the last of them and touched by nobody afterwards; and
\* no call of RunWhenReady is forgotten by the time the host is destroyed.
RunWhenReadyOnce ==
  /\ ran <= 1
  /\ ran = 1 => \A i \in 1 .. Len(Depends) : Depends[i] \in avail
  /\ data = "deleted" => Pending("count") = {} /\ pc # "register"
  /\ pc = "destroyed" => ran = IF "RunWhenReady" \in did THEN 1 ELSE 0

\* Await returns only when all its values are available, and not while a closure
\* still has to come to the latch or to values_remaining on its stack, or is
\* inside the latch: the thread that counts down last leaves the mutex before the
\* waiter can return and destroy it.
AwaitOutlivesClosures ==
  /\ TypeOK
  /\ pc = "awaited" => \A i \in 1 .. Len(Awaited) : Awaited[i] \in avail
  /\ (Pending("await") # {} \/ \E t \in Threads : cur[t] \in {"notified", "unlock"}) =>
       pc \in {"await", "wait", "latchWait", "latchSleep", "has", "fetch",
               "sleep", "item"}

\* A single-threaded queue calls the tasks in the order in which they were added,
\* also when Await stops in the middle of a batch and puts the rest back while
\* another thread adds more; and no queue drops or repeats a task.
ItemsInOrder ==
  /\ kind = "single" => SubSeq(enqueued, 1, Len(executed)) = executed
  /\ \A i, j \in 1 .. Len(executed) : i # j => executed[i] # executed[j]
  /\ pc = "destroyed" => Len(executed) = Len(enqueued)

\* "Block until the specified values are available (either with a value or an
\* error result)" (HostContext::Await): Await ends by returning, and then they are.
AwaitBlocksUntilAvailable ==
  /\ pc # "undefined"
  /\ pc = "awaited" => \A i \in 1 .. Len(Awaited) : Awaited[i] \in avail

\* Every call of the client returns, whichever thread wakes it.
CallsReturn == pc # "idle" ~> pc \in {"idle", "destroyed"}
===============================================================================
