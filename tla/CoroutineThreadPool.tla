-------------------------- MODULE CoroutineThreadPool --------------------------
(***************************************************************************)
(* CoroutineThreadPool (coroutine/coroutine_thread_pool.{h,cpp}): workers  *)
(* that spin over their own queue and steal from the others, and           *)
(* Schedule(), whose awaiter puts the awaiting coroutine on a queue.       *)
(*                                                                         *)
(* A ScheduleOperation is named after the coroutine it resumes.  The       *)
(* queues are CoroutineTaskDeques, the same algorithm line for line as     *)
(* TaskDeque, whose interleavings that module examines; here an operation  *)
(* on a queue is one step on a sequence (front first).  One that fails on  *)
(* a slot another thread is busy with looks as if that thread's operation  *)
(* had not ended (a full queue) or not begun (an empty one).               *)
(*                                                                         *)
(* A thread runs at most one coroutine at a time (run); what the coroutine *)
(* does there is up to the module that extends this one.                   *)
(***************************************************************************)
EXTENDS Integers, Sequences, FiniteSets

CONSTANTS Workers,
          Main,        \* the thread that owns the pool; not one of its workers
          Coroutines,  \* coroutines that co_await Schedule()
          kCapacity,   \* slots of one queue
          NULL         \* the thread runs no coroutine

ASSUME PoolAssumption ==
  /\ IsFiniteSet(Workers) /\ Workers # {} /\ Main \notin Workers
  /\ kCapacity \in Nat \ {0}
  /\ NULL \notin Coroutines \cup Workers \cup {Main}

VARIABLES
  queue,       \* mThreadData[w].queue
  mCancelled,
  at,          \* where each thread stands
  run,         \* the coroutine it runs, or NULL
  left         \* per worker: victims the current Steal() has not tried yet

poolVars == <<queue, mCancelled, at, run, left>>

Threads == Workers \cup {Main}
WorkerPC == {"head", "next", "steal", "joined"}

PoolInit ==
  /\ queue = [w \in Workers |-> <<>>]
  /\ mCancelled = FALSE
  /\ left = [w \in Workers |-> {}]

Goto(t, to) == at' = [at EXCEPT ![t] = to]

\* CoroutineTaskDeque::PushFront, PushBack, PopFront and PopBack.  A push into
\* a full queue hands the operation back.
Full(w) == Len(queue[w]) = kCapacity
PushFront(w, c) == queue' = [queue EXCEPT ![w] = <<c>> \o @]
PushBack(w, c)  == queue' = [queue EXCEPT ![w] = Append(@, c)]
Front(w) == Head(queue[w])
Back(w)  == queue[w][Len(queue[w])]
PopFront(w) == queue' = [queue EXCEPT ![w] = Tail(@)]
PopBack(w)  == queue' = [queue EXCEPT ![w] = SubSeq(@, 1, Len(@) - 1)]

\* Mutant: an operation that finds its queue full is dropped.
AddTaskDropped(t, c, afterwards) ==
  /\ \E w \in Workers :
       /\ t \in Workers => w = t
       /\ IF Full(w) THEN UNCHANGED queue
          ELSE IF t \in Workers THEN PushFront(w, c) ELSE PushBack(w, c)
  /\ Goto(t, afterwards)
  /\ run' = [run EXCEPT ![t] = NULL]
  /\ UNCHANGED <<mCancelled, left>>

\* ScheduleOperation::await_suspend, ScheduleImpl and AddTask: a worker of the
\* pool pushes to the front of its own queue, any other thread to the back of a
\* random one; if that queue is full the coroutine goes on at once, where it is.
\* Once the operation is on a queue the thread touches neither it nor the
\* coroutine again and goes on afterwards.
AddTask(t, c, afterwards) ==
  /\ \E w \in Workers :
       /\ t \in Workers => w = t
       /\ IF Full(w)
          THEN /\ Goto(t, "body")
               /\ UNCHANGED <<queue, run>>
          ELSE /\ IF t \in Workers THEN PushFront(w, c) ELSE PushBack(w, c)
               /\ Goto(t, afterwards)
               /\ run' = [run EXCEPT ![t] = NULL]
  /\ UNCHANGED <<mCancelled, left>>

\* The worker resumes a coroutine, which goes on in its body.
Resume(w, c) == Goto(w, "body") /\ run' = [run EXCEPT ![w] = c]

(***************************************************************************)
(* WorkerLoop: look at mCancelled, pop the own queue, else try every       *)
(* victim once (the coprime walk visits them in some order).               *)
(***************************************************************************)
WorkerHead(w) ==
  /\ at[w] = "head"
  /\ Goto(w, IF mCancelled THEN "joined" ELSE "next")
  /\ UNCHANGED <<queue, mCancelled, run, left>>

NextTask(w) ==
  /\ at[w] = "next"
  /\ \/ /\ queue[w] # <<>>
        /\ PopFront(w)
        /\ Resume(w, Front(w))
        /\ UNCHANGED left
     \/ /\ queue[w] = <<>>
        /\ left' = [left EXCEPT ![w] = Workers]
        /\ Goto(w, "steal")
        /\ UNCHANGED <<queue, run>>
  /\ UNCHANGED mCancelled

Steal(w) ==
  /\ at[w] = "steal"
  /\ \/ \E v \in left[w] :
          \/ /\ queue[v] # <<>>
             /\ PopBack(v)
             /\ Resume(w, Back(v))
             /\ left' = [left EXCEPT ![w] = {}]
          \/ /\ queue[v] = <<>>
             /\ left' = [left EXCEPT ![w] = @ \ {v}]
             /\ UNCHANGED <<queue, at, run>>
     \/ /\ left[w] = {}
        /\ Goto(w, "head")
        /\ UNCHANGED <<queue, run, left>>
  /\ UNCHANGED mCancelled

WorkerLoop(w) == WorkerHead(w) \/ NextTask(w) \/ Steal(w)

(***************************************************************************)
(* ~CoroutineThreadPool: set mCancelled, then join the workers.            *)
(***************************************************************************)
Cancel ==
  /\ at[Main] = "cancel"
  /\ mCancelled' = TRUE
  /\ Goto(Main, "join")
  /\ UNCHANGED <<queue, run, left>>

Join ==
  /\ at[Main] = "join"
  /\ \A w \in Workers : at[w] = "joined"
  /\ Goto(Main, "done")
  /\ UNCHANGED <<queue, mCancelled, run, left>>

PoolTypeOK ==
  /\ queue \in [Workers -> Seq(Coroutines)]
  /\ \A w \in Workers : Len(queue[w]) <= kCapacity
  /\ mCancelled \in BOOLEAN
  /\ run \in [Threads -> Coroutines \cup {NULL}]
  /\ left \in [Workers -> SUBSET Workers]
===============================================================================
