------------------------------ MODULE AsyncValue ------------------------------
(***************************************************************************)
(* One ConcreteAsyncValue (context/async_value.{h,cpp}) shared by several  *)
(* threads: a resolver that emplaces the payload or sets an error, and     *)
(* callers that each register one closure with AndThen.  Each access to    *)
(* the atomic word mWaitersAndState, to mRefCount and to a list node is a  *)
(* step of its own.                                                        *)
(*                                                                         *)
(* The closure of caller c and its NotifierListNode are both named c.  A   *)
(* closure in Capturing owns the caller's reference (as the one that       *)
(* ForwardTo builds does) and gives it up when its node is destructed;     *)
(* any other caller drops its own reference when AndThen has returned.     *)
(***************************************************************************)
EXTENDS Integers, FiniteSets

CONSTANTS Callers,    \* threads that call AndThen, each with one closure
          Capturing,  \* callers whose closure owns the reference
          Resolver,   \* the thread that makes the value available
          NULL

ASSUME ThreadAssumption ==
  /\ IsFiniteSet(Callers)
  /\ Capturing \subseteq Callers
  /\ Resolver \notin Callers
  /\ NULL \notin Callers

VARIABLES
  mWaitersAndState,  \* [ptr: head of the waiter list, state]
  payload,           \* what the union {mError, mData} holds
  mRefCount,
  destroyed,         \* Destroy() has run
  pc,                \* where each thread stands
  oldValue,          \* local of AndThen/EnqueueWaiter, per caller
  mNext,             \* NotifierListNode::mNext
  list, node,        \* locals of RunWaiters, per thread
  ran,               \* history: how often each closure was called
  freed,             \* nodes given back by host->Destruct
  depth              \* history: length of the list when the node was linked

valueVars == <<mWaitersAndState, payload, mRefCount, destroyed>>
listVars  == <<oldValue, mNext, list, node, ran, freed, depth>>
vars == <<mWaitersAndState, payload, mRefCount, destroyed, pc,
          oldValue, mNext, list, node, ran, freed, depth>>

Threads  == Callers \cup {Resolver}
NodePtr  == Callers \cup {NULL}
StateEnum == {"kUnconstructed", "kConstructed", "kConcrete", "kError"}
Available == {"kConcrete", "kError"}
Word == [ptr : NodePtr, state : StateEnum]

CallerPC == {"idle", "hold", "enqueue", "host", "loop", "next", "destruct",
             "dropNode", "subNode", "dropOwn", "subOwn", "done"}
ResolverPC == (CallerPC \ {"idle", "enqueue"}) \cup {"toConcrete", "toError"}

state == mWaitersAndState.state
IsAvailable == state \in Available

Init ==
  /\ \/ /\ mWaitersAndState = [ptr |-> NULL, state |-> "kUnconstructed"]
        /\ payload = "none"
     \/ /\ mWaitersAndState = [ptr |-> NULL, state |-> "kConstructed"]
        /\ payload = "data"
  /\ mRefCount = 1
  /\ destroyed = FALSE
  /\ pc = [t \in Threads |-> IF t = Resolver THEN "hold" ELSE "idle"]
  /\ oldValue = [c \in Callers |-> [ptr |-> NULL, state |-> "kUnconstructed"]]
  /\ mNext = [c \in Callers |-> NULL]
  /\ list = [t \in Threads |-> NULL]
  /\ node = [t \in Threads |-> NULL]
  /\ ran = [c \in Callers |-> 0]
  /\ freed = {}
  /\ depth = [c \in Callers |-> 0]

Goto(t, to) == pc' = [pc EXCEPT ![t] = to]

(***************************************************************************)
(* A thread that holds a reference forms another one for caller c.         *)
(***************************************************************************)
\* Mutant: the reference is handed on without being counted.
AddRefUncounted(t, c) ==
  /\ pc[t] = "hold" /\ pc[c] = "idle"
  /\ Goto(c, "hold")
  /\ UNCHANGED <<valueVars, listVars>>

AddRef(t, c) ==
  /\ pc[t] = "hold" /\ pc[c] = "idle"
  /\ mRefCount' = mRefCount + 1
  /\ Goto(c, "hold")
  /\ UNCHANGED <<mWaitersAndState, payload, destroyed, listVars>>

(***************************************************************************)
(* Where a caller goes once its AndThen has returned.                      *)
(***************************************************************************)
AfterAndThen(c) == IF c \in Capturing THEN "done" ELSE "dropOwn"

(***************************************************************************)
(* AndThen: one acquire load; an available value calls the closure at      *)
(* once (the closure, and the reference it may own, dies with the call),   *)
(* otherwise EnqueueWaiter builds the node on top of the list it saw.      *)
(***************************************************************************)
\* Mutant: AndThen calls the closure without looking at the state.
AndThenEager(c) ==
  /\ pc[c] = "hold"
  /\ ran' = [ran EXCEPT ![c] = @ + 1]
  /\ Goto(c, "dropOwn")
  /\ UNCHANGED <<valueVars, oldValue, mNext, list, node, freed, depth>>

AndThen(c) ==
  /\ pc[c] = "hold"
  /\ \/ /\ IsAvailable
        /\ ran' = [ran EXCEPT ![c] = @ + 1]
        /\ Goto(c, "dropOwn")
        /\ UNCHANGED <<oldValue, mNext>>
     \/ /\ ~IsAvailable
        /\ oldValue' = [oldValue EXCEPT ![c] = mWaitersAndState]
        /\ mNext' = [mNext EXCEPT ![c] = mWaitersAndState.ptr]
        /\ Goto(c, "enqueue")
        /\ UNCHANGED ran
  /\ UNCHANGED <<valueVars, list, node, freed, depth>>

(***************************************************************************)
(* The compare_exchange_weak loop of EnqueueWaiter.  A spurious failure    *)
(* re-reads the same word and is a stuttering step.                        *)
(***************************************************************************)
\* Mutant: a store where the code has a compare-exchange.
EnqueueLinkBlind(c) ==
  /\ pc[c] = "enqueue"
  /\ mWaitersAndState' = [ptr |-> c, state |-> oldValue[c].state]
  /\ depth' = [depth EXCEPT ![c] = 1]
  /\ Goto(c, AfterAndThen(c))
  /\ UNCHANGED <<payload, mRefCount, destroyed,
                 oldValue, mNext, list, node, ran, freed>>

EnqueueLink(c) ==
  /\ pc[c] = "enqueue"
  /\ mWaitersAndState = oldValue[c]
  /\ mWaitersAndState' = [ptr |-> c, state |-> oldValue[c].state]
  /\ depth' = [depth EXCEPT ![c] =
                 IF mWaitersAndState.ptr = NULL THEN 1
                 ELSE depth[mWaitersAndState.ptr] + 1]
  /\ Goto(c, AfterAndThen(c))
  /\ UNCHANGED <<payload, mRefCount, destroyed,
                 oldValue, mNext, list, node, ran, freed>>

\* Mutant: the whole word, tag bits included, goes into mNext.
EnqueueRetryTagged(c) ==
  /\ pc[c] = "enqueue"
  /\ mWaitersAndState # oldValue[c]
  /\ ~IsAvailable
  /\ oldValue' = [oldValue EXCEPT ![c] = mWaitersAndState]
  /\ mNext' = [mNext EXCEPT ![c] = mWaitersAndState]
  /\ UNCHANGED <<valueVars, pc, list, node, ran, freed, depth>>

EnqueueRetry(c) ==
  /\ pc[c] = "enqueue"
  /\ mWaitersAndState # oldValue[c]
  /\ ~IsAvailable
  /\ oldValue' = [oldValue EXCEPT ![c] = mWaitersAndState]
  /\ mNext' = [mNext EXCEPT ![c] = mWaitersAndState.ptr]
  /\ UNCHANGED <<valueVars, pc, list, node, ran, freed, depth>>

\* Mutant: the node keeps the stale mNext of its last attempt.
EnqueueTooLateStale(c) ==
  /\ pc[c] = "enqueue"
  /\ mWaitersAndState # oldValue[c]
  /\ IsAvailable
  /\ list' = [list EXCEPT ![c] = c]
  /\ Goto(c, "host")
  /\ UNCHANGED <<valueVars, oldValue, mNext, node, ran, freed, depth>>

EnqueueTooLate(c) ==
  /\ pc[c] = "enqueue"
  /\ mWaitersAndState # oldValue[c]
  /\ IsAvailable
  /\ oldValue' = [oldValue EXCEPT ![c] = mWaitersAndState]
  /\ mNext' = [mNext EXCEPT ![c] = NULL]
  /\ list' = [list EXCEPT ![c] = c]
  /\ Goto(c, "host")
  /\ UNCHANGED <<valueVars, node, ran, freed, depth>>

EnqueueWaiter(c) == EnqueueLink(c) \/ EnqueueRetry(c) \/ EnqueueTooLate(c)

(***************************************************************************)
(* The resolver fills the payload before it publishes the new state:       *)
(* emplace constructs the data of an unconstructed value, SetStateConcrete *)
(* finds it constructed, SetError replaces whatever is there.              *)
(***************************************************************************)
Emplace ==
  /\ pc[Resolver] = "hold"
  /\ state = "kUnconstructed"
  /\ payload' = "data"
  /\ Goto(Resolver, "toConcrete")
  /\ UNCHANGED <<mWaitersAndState, mRefCount, destroyed, listVars>>

SetStateConcrete ==
  /\ pc[Resolver] = "hold"
  /\ state = "kConstructed"
  /\ Goto(Resolver, "toConcrete")
  /\ UNCHANGED <<valueVars, listVars>>

SetError ==
  /\ pc[Resolver] = "hold"
  /\ state \in {"kUnconstructed", "kConstructed"}
  /\ payload' = "error"
  /\ Goto(Resolver, "toError")
  /\ UNCHANGED <<mWaitersAndState, mRefCount, destroyed, listVars>>

(***************************************************************************)
(* NotifyAvailable exchanges the word for (nullptr, available) and takes   *)
(* the list it replaced to RunWaiters.                                     *)
(***************************************************************************)
NotifyAvailable ==
  /\ pc[Resolver] \in {"toConcrete", "toError"}
  /\ mWaitersAndState' =
       [ptr |-> NULL,
        state |-> IF pc[Resolver] = "toConcrete" THEN "kConcrete" ELSE "kError"]
  /\ list' = [list EXCEPT ![Resolver] = mWaitersAndState.ptr]
  /\ Goto(Resolver, "host")
  /\ UNCHANGED <<payload, mRefCount, destroyed,
                 oldValue, mNext, node, ran, freed, depth>>

(***************************************************************************)
(* RunWaiters: read mHostContext of the value, then per node call the      *)
(* closure, read mNext and destruct the node.                              *)
(***************************************************************************)
RunWaitersStart(t) ==
  /\ pc[t] = "host"
  /\ Goto(t, "loop")
  /\ UNCHANGED <<valueVars, listVars>>

AfterRunWaiters(t) == IF t = Resolver THEN "dropOwn" ELSE AfterAndThen(t)

\* Mutant: the node is destructed before mNext is read.
RunWaitersCallDestruct(t) ==
  /\ pc[t] = "loop"
  /\ \/ /\ list[t] = NULL
        /\ Goto(t, AfterRunWaiters(t))
        /\ UNCHANGED <<node, ran, freed>>
     \/ /\ list[t] # NULL
        /\ node' = [node EXCEPT ![t] = list[t]]
        /\ ran' = [ran EXCEPT ![list[t]] = @ + 1]
        /\ freed' = freed \cup {list[t]}
        /\ Goto(t, "next")
  /\ UNCHANGED <<valueVars, oldValue, mNext, list, depth>>

RunWaitersCall(t) ==
  /\ pc[t] = "loop"
  /\ \/ /\ list[t] = NULL
        /\ Goto(t, AfterRunWaiters(t))
        /\ UNCHANGED <<node, ran>>
     \/ /\ list[t] # NULL
        /\ node' = [node EXCEPT ![t] = list[t]]
        /\ ran' = [ran EXCEPT ![list[t]] = @ + 1]
        /\ Goto(t, "next")
  /\ UNCHANGED <<valueVars, oldValue, mNext, list, freed, depth>>

RunWaitersNext(t) ==
  /\ pc[t] = "next"
  /\ list' = [list EXCEPT ![t] = mNext[node[t]]]
  /\ Goto(t, "destruct")
  /\ UNCHANGED <<valueVars, oldValue, mNext, node, ran, freed, depth>>

RunWaitersDestruct(t) ==
  /\ pc[t] = "destruct"
  /\ freed' = freed \cup {node[t]}
  /\ Goto(t, IF node[t] \in Capturing THEN "dropNode" ELSE "loop")
  /\ UNCHANGED <<valueVars, oldValue, mNext, list, node, ran, depth>>

RunWaiters(t) ==
  \/ RunWaitersStart(t) \/ RunWaitersCall(t)
  \/ RunWaitersNext(t) \/ RunWaitersDestruct(t)

(***************************************************************************)
(* DropRef(1): the last reference is recognised by a load, without a       *)
(* decrement; otherwise fetch_sub decides.  Destroy runs the destructor    *)
(* for what the state says the union holds.                                *)
(***************************************************************************)
Destroy ==
  /\ destroyed' = TRUE
  /\ payload' = IF state = "kUnconstructed" THEN payload ELSE "none"

AfterDrop(t) == IF pc[t] \in {"dropNode", "subNode"} THEN "loop" ELSE "done"

DropRefLoad(t) ==
  /\ pc[t] \in {"dropNode", "dropOwn"}
  /\ \/ /\ mRefCount = 1
        /\ Destroy
        /\ Goto(t, AfterDrop(t))
     \/ /\ mRefCount # 1
        /\ Goto(t, IF pc[t] = "dropNode" THEN "subNode" ELSE "subOwn")
        /\ UNCHANGED <<destroyed, payload>>
  /\ UNCHANGED <<mWaitersAndState, mRefCount, listVars>>

DropRefSub(t) ==
  /\ pc[t] \in {"subNode", "subOwn"}
  /\ mRefCount' = mRefCount - 1
  /\ \/ mRefCount = 1 /\ Destroy
     \/ mRefCount # 1 /\ UNCHANGED <<destroyed, payload>>
  /\ Goto(t, AfterDrop(t))
  /\ UNCHANGED <<mWaitersAndState, listVars>>

DropRef(t) == DropRefLoad(t) \/ DropRefSub(t)

CallerStep(c) == AndThen(c) \/ EnqueueWaiter(c) \/ RunWaiters(c) \/ DropRef(c)
ResolverStep ==
  \/ Emplace \/ SetStateConcrete \/ SetError
  \/ NotifyAvailable \/ RunWaiters(Resolver) \/ DropRef(Resolver)

Terminated ==
  /\ pc[Resolver] = "done"
  /\ \A c \in Callers : pc[c] \in {"idle", "done"}
  /\ UNCHANGED vars

Next ==
  \/ \E t \in Threads, c \in Callers : AddRef(t, c)
  \/ \E c \in Callers : CallerStep(c)
  \/ ResolverStep
  \/ Terminated

(***************************************************************************)
(* Every thread that is inside a call keeps running; the resolver resolves *)
(* the value.  Nobody is obliged to share the value or to call AndThen.    *)
(***************************************************************************)
Fairness ==
  /\ WF_vars(ResolverStep)
  /\ \A c \in Callers : WF_vars(pc[c] # "hold" /\ CallerStep(c))

Spec == Init /\ [][Next]_vars
FairSpec == Spec /\ Fairness
-------------------------------------------------------------------------------
(***************************************************************************)
(* Properties                                                              *)
(***************************************************************************)

\* Every variable stays within its type; the one type invariant.
TypeOK ==
  /\ mWaitersAndState \in Word
  /\ payload \in {"none", "data", "error"}
  /\ mRefCount \in Int
  /\ destroyed \in BOOLEAN
  /\ pc \in [Threads -> CallerPC \cup ResolverPC]
  /\ \A c \in Callers : pc[c] \in CallerPC
  /\ pc[Resolver] \in ResolverPC
  /\ oldValue \in [Callers -> Word]
  /\ mNext \in [Callers -> NodePtr]
  /\ list \in [Threads -> NodePtr]
  /\ node \in [Threads -> NodePtr]
  /\ ran \in [Callers -> Nat]
  /\ freed \subseteq Callers
  /\ depth \in [Callers -> Nat]

\* A closure is called at most once, whichever of AndThen, EnqueueWaiter and
\* NotifyAvailable gets to call it, and never before the value is available.
CalledOnceWhenAvailable ==
  \A c \in Callers : ran[c] <= 1 /\ (ran[c] > 0 => IsAvailable)

\* No closure is lost in the race of EnqueueWaiter with NotifyAvailable: when
\* the resolver is back from RunWaiters, every AndThen that returned has had
\* its closure called.
NoWaiterLost ==
  pc[Resolver] \in {"dropOwn", "subOwn", "done"} =>
    \A c \in Callers :
      pc[c] \in {"dropOwn", "subOwn", "done"} => ran[c] = 1

\* "An async value with waiters should never have refcount of zero"
\* (~AsyncValue), and no thread still has an access to the value before it
\* when Destroy runs: not the closure loop, which must have read the host
\* context first, and not a second DropRef.
NoUseAfterDestroy ==
  destroyed => /\ mWaitersAndState.ptr = NULL
               /\ \A t \in Threads :
                    pc[t] \notin {"hold", "enqueue", "toConcrete", "toError",
                                  "host", "dropNode", "subNode",
                                  "dropOwn", "subOwn"}

\* While the value lives, an available state describes the union: a closure
\* that calls get() or GetError() finds the member it asks for.  Destroy frees
\* exactly that member, so nothing is left in the union afterwards.
PayloadMatchesState ==
  /\ ~destroyed /\ state = "kConcrete" => payload = "data"
  /\ ~destroyed /\ state = "kError" => payload = "error"
  /\ destroyed => payload = "none"

\* RunWaiters never touches a node that host->Destruct has freed: not to call its
\* closure, not to read mNext, not to destruct it again, and not with the rest of
\* the list that it goes on with.
NoFreedNode ==
  \A t \in Threads :
    /\ pc[t] \in {"loop", "destruct"} => list[t] \notin freed
    /\ pc[t] \in {"next", "destruct"} => node[t] \notin freed

\* An available state is final: no step changes the word again.
AvailableIsFinal == [][~IsAvailable]_mWaitersAndState

\* References balance: when every thread is through, the value is destroyed,
\* neither leaked by a count that never reaches the last reference nor kept by
\* a closure that was never destructed.
NoLeak ==
  (/\ pc[Resolver] = "done"
   /\ \A c \in Callers : pc[c] \in {"idle", "done"}) => destroyed

\* The life of the value, from emplace to Destroy: the union holds what the state
\* announces, the last DropRef destroys it, and nobody has an access left then.
LifetimeExact == NoUseAfterDestroy /\ PayloadMatchesState /\ NoLeak

\* The value keeps the promise of a Future: its waiter list, compare-exchange
\* loop and closure loop implement "resolved once, every closure called exactly
\* once afterwards", fairness included.
F == INSTANCE Future WITH
       Closures   <- Callers,
       resolution <- IF IsAvailable THEN state ELSE "pending",
       registered <- {c \in Callers : pc[c] \notin {"idle", "hold"}},
       called     <- {c \in Callers : ran[c] > 0}
ImplementsFuture == F!FairSpec

===============================================================================
