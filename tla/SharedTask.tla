------------------------------ MODULE SharedTask ------------------------------
(***************************************************************************)
(* One SharedTask coroutine (coroutine/shared_task.h) awaited by several   *)
(* coroutines, each on a thread of its own and each owning a copy of the   *)
(* task while it awaits.  Every access to the atomic word mWaiters, to     *)
(* mRefCount and to a SharedTaskWaiter is a step of its own.               *)
(*                                                                         *)
(* The awaiter a, its copy of the SharedTask and its SharedTaskWaiter are  *)
(* all named a.  The body of the coroutine runs on the stack of whoever    *)
(* resumed it (host): the awaiter that started it, until it suspends for   *)
(* the first time, and afterwards some other thread.                       *)
(***************************************************************************)
EXTENDS Integers, FiniteSets

CONSTANTS Awaiters,
          WhenReady,        \* awaiters that use when_ready() and not co_await
          MaxSuspends,      \* bound: how often the body suspends
          notStartedValue, valueReadyValue, NULL   \* sentinels of mWaiters

ASSUME SharedTaskAssumption ==
  /\ IsFiniteSet(Awaiters)
  /\ WhenReady \subseteq Awaiters
  /\ MaxSuspends \in Nat
  /\ {notStartedValue, valueReadyValue, NULL} \cap Awaiters = {}
  /\ notStartedValue # valueReadyValue
  /\ NULL \notin {notStartedValue, valueReadyValue}

VARIABLES
  mWaiters,    \* a sentinel or the head of the list of waiters
  mRefCount,
  mException,  \* the body ended with an exception
  value,       \* mValueStorage holds an object
  freed,       \* the coroutine frame, promise included, was destroyed
  body,        \* where the coroutine stands
  suspends,    \* how often it has suspended
  host,        \* the awaiter whose stack the body runs on, or NULL
  waiter,      \* local of FinalAwaiter::await_suspend
  next,        \* local of its loop
  pc,          \* where each awaiter stands
  oldWaiters,  \* local of TryAwait
  mNext,       \* SharedTaskWaiter::mNext
  resumed,     \* history: how often each awaiter went on past its co_await
  got          \* history: what its await_resume delivered

promiseVars == <<mWaiters, mRefCount, mException, value, freed>>
bodyVars    == <<body, suspends, host, waiter, next>>
vars == <<promiseVars, bodyVars, pc, oldWaiters, mNext, resumed, got>>

Word == Awaiters \cup {notStartedValue, valueReadyValue, NULL}
InTryAwait == {"load", "start", "started", "reload", "enqueue"}
Awaiting == InTryAwait \cup {"suspended"}

Goto(a, to) == pc' = [pc EXCEPT ![a] = to]
Continue(a) == resumed' = [resumed EXCEPT ![a] = @ + 1]

is_ready == mWaiters = valueReadyValue

\* The call of a coroutine with return type SharedTask: its promise is built
\* with one reference, get_return_object hands it to the first owner, and
\* initial_suspend leaves the body suspended.
Init ==
  /\ mWaiters = notStartedValue
  /\ mRefCount = 1
  /\ mException = FALSE
  /\ value = FALSE
  /\ freed = FALSE
  /\ body = "initial"
  /\ suspends = 0
  /\ host = NULL
  /\ waiter = NULL
  /\ next = NULL
  /\ \E first \in Awaiters :
       pc = [a \in Awaiters |-> IF a = first THEN "hold" ELSE "idle"]
  /\ oldWaiters = [a \in Awaiters |-> NULL]
  /\ mNext = [a \in Awaiters |-> NULL]
  /\ resumed = [a \in Awaiters |-> 0]
  /\ got = [a \in Awaiters |-> "nothing"]

(***************************************************************************)
(* Copies and moves of the SharedTask.  The assignment operators are a     *)
(* Detach of the old coroutine followed by one of these.                   *)
(***************************************************************************)
\* Mutant: the copy constructor forgets AddRef.
CopyUncounted(t, a) ==
  /\ pc[t] = "hold" /\ pc[a] = "idle"
  /\ Goto(a, "hold")
  /\ UNCHANGED <<promiseVars, bodyVars, oldWaiters, mNext, resumed, got>>

Copy(t, a) ==
  /\ pc[t] = "hold" /\ pc[a] = "idle"
  /\ mRefCount' = mRefCount + 1
  /\ Goto(a, "hold")
  /\ UNCHANGED <<mWaiters, mException, value, freed, bodyVars,
                 oldWaiters, mNext, resumed, got>>

Move(t, a) ==
  /\ pc[t] = "hold" /\ pc[a] = "idle"
  /\ pc' = [pc EXCEPT ![t] = "idle", ![a] = "hold"]
  /\ UNCHANGED <<promiseVars, bodyVars, oldWaiters, mNext, resumed, got>>

\* An owner may let go of its copy without ever awaiting it.
Abandon(a) ==
  /\ pc[a] = "hold"
  /\ Goto(a, "detach")
  /\ UNCHANGED <<promiseVars, bodyVars, oldWaiters, mNext, resumed, got>>

(***************************************************************************)
(* co_await: await_ready looks whether the value is there already.         *)
(***************************************************************************)
await_ready(a) ==
  /\ pc[a] = "hold"
  /\ \/ is_ready /\ Continue(a) /\ Goto(a, "resume")
     \/ ~is_ready /\ Goto(a, "load") /\ UNCHANGED resumed
  /\ UNCHANGED <<promiseVars, bodyVars, oldWaiters, mNext, got>>

(***************************************************************************)
(* TryAwait.  The awaiter that moves the word away from notStartedValue    *)
(* resumes the body on its own stack and only then looks at the list.      *)
(***************************************************************************)
TryAwaitLoad(a) ==
  /\ pc[a] \in {"load", "reload"}
  /\ oldWaiters' = [oldWaiters EXCEPT ![a] = mWaiters]
  /\ Goto(a, IF pc[a] = "load" /\ mWaiters = notStartedValue
             THEN "start" ELSE "enqueue")
  /\ UNCHANGED <<promiseVars, bodyVars, mNext, resumed, got>>

TryAwaitStart(a) ==
  /\ pc[a] = "start"
  /\ \/ /\ mWaiters = notStartedValue
        /\ mWaiters' = NULL
        /\ body' = "running"
        /\ host' = a
        /\ Goto(a, "started")
        /\ UNCHANGED oldWaiters
     \/ /\ mWaiters # notStartedValue
        /\ oldWaiters' = [oldWaiters EXCEPT ![a] = mWaiters]
        /\ Goto(a, "enqueue")
        /\ UNCHANGED <<mWaiters, body, host>>
  /\ UNCHANGED <<mRefCount, mException, value, freed, suspends, waiter, next,
                 mNext, resumed, got>>

\* Mutant: the loop links the waiter without looking for valueReadyValue.
TryAwaitEnqueueBlind(a) ==
  /\ pc[a] = "enqueue"
  /\ mNext' = [mNext EXCEPT ![a] = oldWaiters[a]]
  /\ mWaiters' = a
  /\ Goto(a, "suspended")
  /\ UNCHANGED <<mRefCount, mException, value, freed, bodyVars, oldWaiters,
                 resumed, got>>

\* One turn of the do loop: return false on a ready value, otherwise write
\* mNext, private until the compare-exchange publishes the waiter.  A spurious
\* failure of the weak compare-exchange changes nothing.
TryAwaitEnqueue(a) ==
  /\ pc[a] = "enqueue"
  /\ \/ /\ oldWaiters[a] = valueReadyValue
        /\ Continue(a)
        /\ Goto(a, "resume")
        /\ UNCHANGED <<mWaiters, oldWaiters, mNext>>
     \/ /\ oldWaiters[a] # valueReadyValue
        /\ mNext' = [mNext EXCEPT ![a] = oldWaiters[a]]
        /\ IF mWaiters = oldWaiters[a]
           THEN /\ mWaiters' = a
                /\ Goto(a, "suspended")
                /\ UNCHANGED oldWaiters
           ELSE /\ oldWaiters' = [oldWaiters EXCEPT ![a] = mWaiters]
                /\ UNCHANGED <<mWaiters, pc>>
        /\ UNCHANGED resumed
  /\ UNCHANGED <<mRefCount, mException, value, freed, bodyVars, got>>

TryAwait(a) == TryAwaitLoad(a) \/ TryAwaitStart(a) \/ TryAwaitEnqueue(a)

\* result() rethrows the exception of the body or refers to the value.
result == IF mException THEN "exception" ELSE IF value THEN "value" ELSE "garbage"

\* await_resume: co_await asks the promise for its result, when_ready asks for
\* nothing.  The full expression ends here, and with it the life of the awaiter's
\* SharedTaskWaiter.
await_resume(a) ==
  /\ pc[a] = "resume"
  /\ got' = [got EXCEPT ![a] = IF a \in WhenReady THEN "nothing" ELSE result]
  /\ Goto(a, "detach")
  /\ UNCHANGED <<promiseVars, bodyVars, oldWaiters, mNext, resumed>>

(***************************************************************************)
(* destroy(): TryDetach gives up the reference, and the last owner         *)
(* destroys the frame; ~SharedTaskPromise destructs the value it holds.    *)
(***************************************************************************)
TryDetach(a) ==
  /\ pc[a] = "detach"
  /\ mRefCount' = mRefCount - 1
  /\ Goto(a, IF mRefCount # 1 THEN "done" ELSE "destroy")
  /\ UNCHANGED <<mWaiters, mException, value, freed, bodyVars, oldWaiters,
                 mNext, resumed, got>>

DestructPromise == value' = (value /\ ~(is_ready /\ ~mException))

destroy(a) ==
  /\ pc[a] = "destroy"
  /\ DestructPromise
  /\ freed' = TRUE
  /\ Goto(a, "done")
  /\ UNCHANGED <<mWaiters, mRefCount, mException, bodyVars, oldWaiters, mNext,
                 resumed, got>>

(***************************************************************************)
(* The body.  When it suspends or comes to its end, the resume() of its    *)
(* host returns, and an awaiter that was the host is back in TryAwait.     *)
(***************************************************************************)
HostReturns(p) == [a \in Awaiters |-> IF a = host THEN "reload" ELSE p[a]]

BodySuspend ==
  /\ body = "running"
  /\ suspends < MaxSuspends
  /\ suspends' = suspends + 1
  /\ body' = "suspended"
  /\ pc' = HostReturns(pc)
  /\ host' = NULL
  /\ UNCHANGED <<promiseVars, waiter, next, oldWaiters, mNext, resumed, got>>

BodyResume ==
  /\ body = "suspended"
  /\ body' = "running"
  /\ UNCHANGED <<promiseVars, suspends, host, waiter, next, pc, oldWaiters,
                 mNext, resumed, got>>

\* co_return constructs the value, an escaping exception is kept instead.
BodyReturn ==
  /\ body = "running"
  /\ \/ value' = TRUE /\ UNCHANGED mException
     \/ mException' = TRUE /\ UNCHANGED value
  /\ body' = "final"
  /\ UNCHANGED <<mWaiters, mRefCount, freed, suspends, host, waiter, next, pc,
                 oldWaiters, mNext, resumed, got>>

(***************************************************************************)
(* FinalAwaiter::await_suspend publishes the value, takes the whole list   *)
(* and resumes it; mNext is read before the resume that may destroy it.    *)
(***************************************************************************)
FinalExchange ==
  /\ body = "final"
  /\ waiter' = mWaiters
  /\ mWaiters' = valueReadyValue
  /\ IF mWaiters = NULL
     THEN body' = "done" /\ pc' = HostReturns(pc) /\ host' = NULL
     ELSE body' = "walk" /\ UNCHANGED <<pc, host>>
  /\ UNCHANGED <<mRefCount, mException, value, freed, suspends, next,
                 oldWaiters, mNext, resumed, got>>

FinalReadNext ==
  /\ body = "walk"
  /\ next' = mNext[waiter]
  /\ body' = "call"
  /\ UNCHANGED <<promiseVars, suspends, host, waiter, pc, oldWaiters, mNext,
                 resumed, got>>

\* Mutant: the waiter left when the loop ends is not resumed.
FinalCallNoTail ==
  /\ body = "call"
  /\ IF next = NULL
     THEN /\ body' = "done" /\ pc' = HostReturns(pc) /\ host' = NULL
          /\ UNCHANGED resumed
     ELSE /\ body' = "walk" /\ Goto(waiter, "resume") /\ Continue(waiter)
          /\ UNCHANGED host
  /\ waiter' = next
  /\ UNCHANGED <<promiseVars, suspends, next, oldWaiters, mNext, got>>

FinalCall ==
  /\ body = "call"
  /\ Continue(waiter)
  /\ IF next = NULL
     THEN /\ body' = "done"
          /\ pc' = HostReturns([pc EXCEPT ![waiter] = "resume"])
          /\ host' = NULL
     ELSE /\ body' = "walk"
          /\ Goto(waiter, "resume")
          /\ UNCHANGED host
  /\ waiter' = next
  /\ UNCHANGED <<promiseVars, suspends, next, oldWaiters, mNext, got>>

FinalAwaiter == FinalExchange \/ FinalReadNext \/ FinalCall

BodyStep == BodySuspend \/ BodyResume \/ BodyReturn \/ FinalAwaiter
CallStep(a) == TryAwait(a) \/ await_resume(a) \/ TryDetach(a) \/ destroy(a)

\* The end of the run: nobody owns the task any more.
Terminated ==
  /\ \A a \in Awaiters : pc[a] \in {"idle", "done"}
  /\ UNCHANGED vars

Next ==
  \/ \E t, a \in Awaiters : Copy(t, a) \/ Move(t, a)
  \/ \E a \in Awaiters : Abandon(a) \/ await_ready(a) \/ CallStep(a)
  \/ BodyStep
  \/ Terminated

(***************************************************************************)
(* A thread that is inside a call keeps running, and so does the body:     *)
(* what it awaits itself completes.  Nobody is obliged to await the task.  *)
(***************************************************************************)
Fairness == WF_vars(BodyStep) /\ \A a \in Awaiters : WF_vars(CallStep(a))

Spec == Init /\ [][Next]_vars
FairSpec == Spec /\ Fairness
-------------------------------------------------------------------------------
(***************************************************************************)
(* Properties                                                              *)
(***************************************************************************)

\* Every variable stays within its type; the one type invariant.
TypeOK ==
  /\ mWaiters \in Word
  /\ mRefCount \in Int
  /\ mException \in BOOLEAN
  /\ value \in BOOLEAN
  /\ freed \in BOOLEAN
  /\ body \in {"initial", "running", "suspended", "final", "walk", "call", "done"}
  /\ suspends \in 0..MaxSuspends
  /\ host \in Awaiters \cup {NULL}
  /\ waiter \in Awaiters \cup {NULL}
  /\ next \in Awaiters \cup {NULL}
  /\ pc \in [Awaiters -> Awaiting \cup {"idle", "hold", "resume", "detach",
                                        "destroy", "done"}]
  /\ oldWaiters \in [Awaiters -> Word]
  /\ mNext \in [Awaiters -> Awaiters \cup {NULL}]
  /\ resumed \in [Awaiters -> Nat]
  /\ got \in [Awaiters -> {"nothing", "value", "exception"}]

\* The promise holds one reference per owner and none for the running body,
\* yet the last owner destroys the frame only when the body cannot touch it any
\* more and nobody is left with an access to it; the value is then destructed
\* exactly if it was constructed.  FinalAwaiter, which runs on after the frame
\* may be gone, only follows SharedTaskWaiters whose awaiter is still suspended
\* in the co_await they live in.
NoUseAfterFree ==
  /\ TypeOK
  /\ mRefCount = Cardinality({a \in Awaiters : pc[a] \notin {"idle", "destroy", "done"}})
  /\ freed => /\ \A a \in Awaiters : pc[a] \in {"idle", "done"}
              /\ body \notin {"running", "suspended", "final"}
              /\ ~value
  /\ body \in {"walk", "call"} => pc[waiter] = "suspended"
  /\ body = "call" /\ next # NULL => pc[next] = "suspended"

\* The task keeps the promise of a Future to the coroutines that await it: it is
\* resolved once, when the body has ended, and an awaiter goes on exactly once,
\* after that, whether it found the value, started the body itself, or lost the
\* race for the word to another awaiter or to FinalAwaiter.
F == INSTANCE Future WITH
       Closures   <- Awaiters,
       resolution <- IF is_ready THEN (IF mException THEN "kError" ELSE "kConcrete")
                                 ELSE "pending",
       registered <- {a \in Awaiters : pc[a] \in Awaiting \/ resumed[a] > 0},
       called     <- {a \in Awaiters : resumed[a] > 0}
ImplementsFuture == F!Spec /\ [][\A a \in Awaiters : resumed'[a] <= 1]_resumed

\* Whoever awaits the task goes on some day, although only one awaiter starts the
\* body and the others may link themselves before, while or after it ends.
EveryAwaiterResumes ==
  \A a \in Awaiters : pc[a] \in Awaiting ~> resumed[a] > 0
===============================================================================
