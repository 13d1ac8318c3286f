---------------------------- MODULE GraphExecutor -----------------------------
(***************************************************************************)
(* AsyncGraph and GraphExecutor (runtime/graph.h, graph.cpp): run kernels  *)
(* that exchange AsyncValues, each when its arguments are available.       *)
(*                                                                         *)
(* The graph is bipartite: kernels take and produce named values.  Every   *)
(* name has a register, an AsyncValueInfo, that is set once to the value   *)
(* its kernel returned; a result that is asked for before that is stood in *)
(* for by an IndirectAsyncValue.  A value is an object here: <<"value", v>>*)
(* is the one made for the name v, <<"indirect", v>> its stand-in.  An     *)
(* error travels as itself, so a register may hold the object of another   *)
(* name.                                                                   *)
(*                                                                         *)
(* A strand is one run of ProcessReadyKernels: that of the caller, a work  *)
(* item (named after its kernel) or a closure on a value (named after it). *)
(* AndThen is atomic, as Future promises, and the work queue runs what it  *)
(* is given, as WorkQueue shows.                                           *)
(***************************************************************************)
EXTENDS AsyncGraph

CONSTANTS Caller,
          FirstStates,      \* states the first argument may have
          MayReleaseEarly   \* the user need not wait for a result to drop it

ASSUME GraphAssumption ==
  /\ IsFiniteSet(Kernels) /\ IsFiniteSet(Values)
  /\ Kernels \cap Values = {} /\ Caller \notin Kernels \cup Values
  /\ MayReleaseEarly \in BOOLEAN

VARIABLES
  mArgumentsNotReady,  \* per kernel
  mValue,              \* per name: the object in its register, or NULL
  state, refs,         \* per object
  mForward,            \* per name: what its indirect value forwards to, or NULL
  waiting,             \* names with a closure registered on their value
  result,              \* per name: what the kernel returned for it
  mRefCounted,         \* references to the executor
  graphRefs,           \* references to the graph: the user's and the executor's
  pc, ready, todo, users, kernel,  \* per strand: readyKernelIdx, names and users
                                   \* still to process, the kernel being run
  held, collecting,    \* results the user holds; the register read as empty
  ran, called          \* history: runs of each kernel, kernels really called

values == <<mValue, state, refs, mForward, waiting>>
strandVars == <<pc, ready, todo, users, kernel>>
refVars == <<mRefCounted, graphRefs>>
history == <<ran, called>>
vars == <<buildVars, mArgumentsNotReady, values, result, refVars, strandVars,
          held, collecting, history>>

Strands == {Caller} \cup Kernels \cup Values
Objects == {"value", "indirect"} \X Values
Value(v) == <<"value", v>>
Indirect(v) == <<"indirect", v>>
AvailableStates == {"kConcrete", "kError"}
IsAvailable(o) == state[o] \in AvailableStates

Goto(s, to) == pc' = [pc EXCEPT ![s] = to]
Done(s, v) == todo' = [todo EXCEPT ![s] = @ \ {v}]

(***************************************************************************)
(* What the executor reads of the graph.                                   *)
(***************************************************************************)
Users(v) == graph.usedBy[v]
mUserCount(v) == graph.mUserCount[v]
ResultRegs == {v \in DOMAIN graph.mUserCount : mUserCount(v) = 0}

InitialCount(k) == Max({1, graph.notReady[k]})

Init ==
  /\ BuildInit
  /\ mArgumentsNotReady = [k \in Kernels |-> 0]
  /\ mValue = [v \in Values |-> NULL]
  /\ state = [o \in Objects |-> "none"] /\ refs = [o \in Objects |-> 0]
  /\ mForward = [v \in Values |-> NULL]
  /\ waiting = {}
  /\ result = [v \in Values |-> NULL]
  /\ mRefCounted = 0 /\ graphRefs = 1
  /\ pc = [s \in Strands |-> "off"]
  /\ ready = [s \in Strands |-> {}]
  /\ todo = [s \in Strands |-> {}]
  /\ users = [s \in Strands |-> {}]
  /\ kernel = [s \in Strands |-> NULL]
  /\ held = {} /\ collecting = NULL
  /\ ran = [k \in Kernels |-> 0] /\ called = {}

\* The construction of the graph, by the thread that will be the caller.
Build ==
  /\ pc[Caller] = "off"
  /\ BuildNext
  /\ UNCHANGED <<mArgumentsNotReady, values, result, refVars, strandVars, held,
                 collecting, history>>

(***************************************************************************)
(* RunAsyncGraph makes an executor.  Reset copies the counts and           *)
(* InitializeArgumentRegisters takes one reference to an argument per use, *)
(* besides the user's own.  An object that is not available has a producer *)
(* that holds a reference until it has resolved it.                        *)
(***************************************************************************)
ArgumentRefs(v) == 1 + mUserCount(v)

RunAsyncGraph ==
  /\ pc[Caller] = "off" /\ mIsConstructed /\ file = NULL
  /\ mArgumentsNotReady' = [k \in Kernels |-> InitialCount(k)]
  /\ mValue' = [v \in Values |-> IF v \in graph.arguments THEN Value(v) ELSE NULL]
  /\ \E st \in [graph.arguments -> {"kUnconstructed"} \cup AvailableStates] :
       /\ st[graph.first] \in FirstStates
       /\ state' = [o \in Objects |->
                      IF o[1] = "value" /\ o[2] \in graph.arguments THEN st[o[2]] ELSE "none"]
       /\ refs' = [o \in Objects |->
                     IF o[1] = "indirect" \/ o[2] \notin graph.arguments THEN 0
                     ELSE ArgumentRefs(o[2]) + IF st[o[2]] \in AvailableStates THEN 0 ELSE 1]
  /\ mRefCounted' = 1 /\ graphRefs' = graphRefs + 1
  /\ Goto(Caller, "process")
  /\ todo' = [todo EXCEPT ![Caller] = {v \in graph.arguments : v = graph.first \/ mUserCount(v) # 0}]
  /\ plan' = <<>> /\ wanted' = NULL
  /\ UNCHANGED <<mFuncLibs, mAsyncNodes, mNameAndAsyncIdPair, graph, mOutputNames,
                 mIsConstructed, file, mForward, waiting, result, ready, users, kernel,
                 held, collecting, history>>

(***************************************************************************)
(* ProcessArgumentsAsPseudoKernel.  The users of the first argument are    *)
(* counted down whether or not it is available; of any other argument,     *)
(* when it is, or by a closure that holds a reference to the executor.     *)
(***************************************************************************)
ProcessArgument(v) ==
  /\ pc[Caller] = "process" /\ users[Caller] = {}
  /\ v \in todo[Caller] \cap graph.arguments
  /\ v = graph.first \/ graph.first \notin todo[Caller]
  /\ Done(Caller, v)
  /\ \/ /\ v = graph.first \/ IsAvailable(Value(v))
        /\ users' = [users EXCEPT ![Caller] = Users(v)]
        /\ UNCHANGED <<waiting, mRefCounted>>
     \/ /\ v # graph.first /\ ~IsAvailable(Value(v))
        /\ mRefCounted' = mRefCounted + 1
        /\ waiting' = waiting \cup {v}
        /\ UNCHANGED users
  /\ UNCHANGED <<buildVars, mArgumentsNotReady, mValue, state, refs, mForward, result,
                 graphRefs, pc, ready, kernel, held, collecting, history>>

\* DecreaseReadyCountAndPush, one user at a time.
CountDown(s, k) ==
  /\ pc[s] = "process" /\ k \in users[s]
  /\ users' = [users EXCEPT ![s] = @ \ {k}]
  /\ mArgumentsNotReady' = [mArgumentsNotReady EXCEPT ![k] = @ - 1]
  /\ ready' = [ready EXCEPT ![s] = IF mArgumentsNotReady[k] = 1 THEN @ \cup {k} ELSE @]
  /\ UNCHANGED <<buildVars, values, result, refVars, pc, todo, kernel, held, collecting,
                 history>>

\* ProcessReadyKernels: all ready kernels but one go to the work queue ...
AtLoopHead(s) == pc[s] = "process" /\ users[s] = {} /\ todo[s] = {}

EnqueueWork(s, k) ==
  /\ AtLoopHead(s)
  /\ k \in ready[s] /\ ready[s] # {k}
  /\ mRefCounted' = mRefCounted + 1
  /\ ready' = [ready EXCEPT ![s] = @ \ {k}, ![k] = {k}]
  /\ Goto(k, "process")
  /\ UNCHANGED <<buildVars, mArgumentsNotReady, values, result, graphRefs, todo, users,
                 kernel, held, collecting, history>>

\* Mutant: an error among the arguments does not keep the kernel from running.
ErrorArgumentsIgnored(k) == {}

ErrorArguments(k) == {mValue[v] : v \in {w \in graph.inputs[k] : state[mValue[w]] = "kError"}}

\* ... and one runs here; with an error among its arguments it is not called.
RunKernel(s, k) ==
  /\ AtLoopHead(s)
  /\ ready[s] = {k}
  /\ ready' = [ready EXCEPT ![s] = {}]
  /\ kernel' = [kernel EXCEPT ![s] = k]
  /\ ran' = [ran EXCEPT ![k] = @ + 1]
  /\ called' = IF ErrorArguments(k) = {} THEN called \cup {k} ELSE called
  /\ Goto(s, "kernel")
  /\ UNCHANGED <<buildVars, mArgumentsNotReady, values, result, refVars, todo, users,
                 held, collecting>>

\* The kernel is done with its arguments: one reference per argument.
ArgumentsDropped(r, k) ==
  [o \in Objects |-> r[o] - Cardinality({v \in graph.inputs[k] : mValue[v] = o})]

KernelReturns(s) ==
  LET k == kernel[s]
      out == graph.outputs[k]
  IN /\ pc[s] = "kernel"
     /\ \/ /\ k \in called
           /\ \E st \in [out -> {"kUnconstructed"} \cup AvailableStates] :
                /\ state' = [o \in Objects |->
                               IF o[1] = "value" /\ o[2] \in out THEN st[o[2]] ELSE state[o]]
                /\ refs' = ArgumentsDropped(
                             [o \in Objects |->
                                IF o[1] = "indirect" \/ o[2] \notin out THEN refs[o]
                                ELSE IF st[o[2]] \in AvailableStates THEN 1 ELSE 2], k)
                /\ result' = [v \in Values |-> IF v \in out THEN Value(v) ELSE result[v]]
        \/ /\ k \notin called
           /\ \E e \in ErrorArguments(k) :
                /\ refs' = ArgumentsDropped([refs EXCEPT ![e] = @ + Cardinality(out)], k)
                /\ result' = [v \in Values |-> IF v \in out THEN e ELSE result[v]]
           /\ UNCHANGED state
     /\ todo' = [todo EXCEPT ![s] = out]
     /\ Goto(s, "process")
     /\ UNCHANGED <<buildVars, mArgumentsNotReady, mValue, mForward, waiting, refVars,
                    ready, users, kernel, held, collecting, history>>

(***************************************************************************)
(* IndirectAsyncValue::ForwardTo gives the indirect value the reference to *)
(* its target, now or in a closure on the target that keeps both alive.    *)
(***************************************************************************)
ForwardTo(v, o) ==
  \/ /\ IsAvailable(o)
     /\ state' = [state EXCEPT ![Indirect(v)] = state[o]]
     /\ mForward' = [mForward EXCEPT ![v] = o]
     /\ UNCHANGED <<mValue, refs, waiting>>
  \/ /\ ~IsAvailable(o)
     /\ refs' = [refs EXCEPT ![Indirect(v)] = @ + 1]
     /\ waiting' = waiting \cup {v}
     /\ UNCHANGED <<mValue, state, mForward>>

\* Mutant: the register keeps the one reference, whatever the number of users.
RefAddValueNone(v) == 0

\* The value comes with one reference; the other users need one more each.
RefAddValue(v) == IF mUserCount(v) = 0 THEN 0 ELSE mUserCount(v) - 1

SetAsyncValuePtr(v) ==
  \/ /\ mValue[v] = NULL
     /\ mValue' = [mValue EXCEPT ![v] = result[v]]
     /\ refs' = [refs EXCEPT ![result[v]] = @ + RefAddValue(v)]
     /\ UNCHANGED <<state, mForward, waiting>>
  \/ /\ mValue[v] # NULL
     /\ ForwardTo(v, result[v])

\* ProcessUsedByAndSetAsyncValueInfo: the register is set and the users are
\* counted down, here or in a closure once the value is available.
ProcessResult(s, v) ==
  /\ pc[s] = "process" /\ users[s] = {}
  /\ v \in todo[s] \ graph.arguments
  /\ Done(s, v)
  /\ \/ /\ Users(v) = {} \/ IsAvailable(result[v])
        /\ SetAsyncValuePtr(v)
        /\ users' = [users EXCEPT ![s] = Users(v)]
        /\ UNCHANGED mRefCounted
     \/ /\ Users(v) # {} /\ ~IsAvailable(result[v])
        /\ mRefCounted' = mRefCounted + 1
        /\ waiting' = waiting \cup {v}
        /\ UNCHANGED <<users, mValue, state, refs, mForward>>
  /\ UNCHANGED <<buildVars, mArgumentsNotReady, result, graphRefs, pc, ready, kernel,
                 held, collecting, history>>

(***************************************************************************)
(* The producer of a value, on whatever thread, makes it available, drops  *)
(* its reference and runs the closure.                                     *)
(***************************************************************************)
Resolve(v, st) ==
  /\ state[Value(v)] = "kUnconstructed"
  /\ state' = [state EXCEPT ![Value(v)] = st]
  /\ refs' = [refs EXCEPT ![Value(v)] = @ - 1]
  /\ pc' = [pc EXCEPT ![v] = IF v \in waiting THEN "closure" ELSE @]
  /\ waiting' = waiting \ {v}
  /\ UNCHANGED <<buildVars, mArgumentsNotReady, mValue, mForward, result, refVars, ready,
                 todo, users, kernel, held, collecting, history>>

\* The closures of ProcessPseudoKernelUsedBys and of
\* ProcessUsedByAndSetAsyncValueInfo.
UsersClosure(v) ==
  /\ pc[v] = "closure" /\ Users(v) # {}
  /\ IF v \in graph.arguments THEN UNCHANGED values ELSE SetAsyncValuePtr(v)
  /\ users' = [users EXCEPT ![v] = Users(v)]
  /\ Goto(v, "process")
  /\ UNCHANGED <<buildVars, mArgumentsNotReady, result, refVars, ready, todo, kernel,
                 held, collecting, history>>

\* A reference to an object is dropped; the destructor of an indirect value
\* drops the one it holds.
Dropped(r, o, target) ==
  [p \in Objects |->
     IF p = o \/ (r[o] = 1 /\ o[1] = "indirect" /\ p = target) THEN r[p] - 1 ELSE r[p]]

\* The closure of ForwardTo holds a reference to the indirect value.
ForwardClosure(v) ==
  /\ pc[v] = "closure" /\ Users(v) = {}
  /\ state' = [state EXCEPT ![Indirect(v)] = state[result[v]]]
  /\ mForward' = [mForward EXCEPT ![v] = result[v]]
  /\ refs' = Dropped(refs, Indirect(v), result[v])
  /\ Goto(v, "done")
  /\ UNCHANGED <<buildVars, mArgumentsNotReady, mValue, waiting, result, refVars, ready,
                 todo, users, kernel, held, collecting, history>>

\* Mutant: work items and closures end without DropRef.
EndOfStrandKeepsRef(s) ==
  /\ AtLoopHead(s) /\ ready[s] = {}
  /\ Goto(s, IF s = Caller THEN "collect" ELSE "done")
  /\ todo' = [todo EXCEPT ![s] = IF s = Caller THEN ResultRegs ELSE {}]
  /\ UNCHANGED <<buildVars, mArgumentsNotReady, values, result, refVars, ready, users,
                 kernel, held, collecting, history>>

\* Nothing is ready: the strand is at its end; the caller has results to collect.
EndOfStrand(s) ==
  /\ AtLoopHead(s) /\ ready[s] = {}
  /\ Goto(s, IF s = Caller THEN "collect" ELSE "drop")
  /\ todo' = [todo EXCEPT ![s] = IF s = Caller THEN ResultRegs ELSE {}]
  /\ UNCHANGED <<buildVars, mArgumentsNotReady, values, result, refVars, ready, users,
                 kernel, held, collecting, history>>

(***************************************************************************)
(* Execute hands out the results.  GetOrCreateAsyncValuePtr: the register  *)
(* is read and, when it was empty, compared with nullptr and exchanged for *)
(* a new indirect value.                                                   *)
(***************************************************************************)
LoadResult(v) ==
  /\ pc[Caller] = "collect" /\ v \in todo[Caller] /\ collecting = NULL
  /\ \/ /\ mValue[v] # NULL
        /\ held' = held \cup {v}
        /\ Done(Caller, v)
        /\ UNCHANGED collecting
     \/ /\ mValue[v] = NULL
        /\ collecting' = v
        /\ UNCHANGED <<held, todo>>
  /\ UNCHANGED <<buildVars, mArgumentsNotReady, values, result, refVars, pc, ready,
                 users, kernel, history>>

CreateIndirect ==
  /\ collecting # NULL
  /\ \/ /\ mValue[collecting] = NULL
        /\ mValue' = [mValue EXCEPT ![collecting] = Indirect(collecting)]
        /\ state' = [state EXCEPT ![Indirect(collecting)] = "kUnconstructed"]
        /\ refs' = [refs EXCEPT ![Indirect(collecting)] = 1 + mUserCount(collecting)]
     \/ /\ mValue[collecting] # NULL
        /\ UNCHANGED <<mValue, state, refs>>
  /\ held' = held \cup {collecting}
  /\ Done(Caller, collecting)
  /\ collecting' = NULL
  /\ UNCHANGED <<buildVars, mArgumentsNotReady, mForward, waiting, result, refVars, pc,
                 ready, users, kernel, history>>

EndOfCollect ==
  /\ pc[Caller] = "collect" /\ todo[Caller] = {}
  /\ Goto(Caller, "drop")
  /\ UNCHANGED <<buildVars, mArgumentsNotReady, values, result, refVars, ready, todo,
                 users, kernel, held, collecting, history>>

\* DropRef, with the destructor, which gives back the graph.
DropRef(s) ==
  /\ pc[s] = "drop"
  /\ mRefCounted' = mRefCounted - 1
  /\ graphRefs' = IF mRefCounted = 1 THEN graphRefs - 1 ELSE graphRefs
  /\ Goto(s, "done")
  /\ UNCHANGED <<buildVars, mArgumentsNotReady, values, result, ready, todo, users,
                 kernel, held, collecting, history>>

(***************************************************************************)
(* The user, once Execute has returned: drops the arguments and the graph, *)
(* and each result, after Await unless MayReleaseEarly.                    *)
(***************************************************************************)
ReleaseInputs ==
  /\ pc[Caller] = "done"
  /\ refs' = [o \in Objects |->
                IF o[1] = "value" /\ o[2] \in graph.arguments THEN refs[o] - 1 ELSE refs[o]]
  /\ graphRefs' = graphRefs - 1
  /\ Goto(Caller, "released")
  /\ UNCHANGED <<buildVars, mArgumentsNotReady, mValue, state, mForward, waiting, result,
                 mRefCounted, ready, todo, users, kernel, held, collecting, history>>

ReleaseResult(v) ==
  /\ pc[Caller] \in {"done", "released"} /\ v \in held
  /\ MayReleaseEarly \/ IsAvailable(mValue[v])
  /\ refs' = Dropped(refs, mValue[v], mForward[v])
  /\ held' = held \ {v}
  /\ UNCHANGED <<buildVars, mArgumentsNotReady, mValue, state, mForward, waiting, result,
                 refVars, strandVars, collecting, history>>
-------------------------------------------------------------------------------
StrandStep(s) ==
  \/ \E k \in Kernels : CountDown(s, k) \/ EnqueueWork(s, k) \/ RunKernel(s, k)
  \/ \E v \in Values : ProcessResult(s, v)
  \/ KernelReturns(s) \/ EndOfStrand(s) \/ DropRef(s)

CallerStep ==
  \/ \E v \in Values : ProcessArgument(v) \/ LoadResult(v)
  \/ CreateIndirect \/ EndOfCollect

ClosureStep(v) == UsersClosure(v) \/ ForwardClosure(v)

\* Everything has run and the user has dropped what it held.
AllReleased ==
  /\ \A s \in Strands : pc[s] \in {"off", "done", "released"}
  /\ pc[Caller] = "released" /\ held = {}
  /\ \A v \in Values : state[Value(v)] # "kUnconstructed"

Terminated == AllReleased /\ UNCHANGED vars

Next ==
  \/ \E s \in Strands : StrandStep(s)
  \/ CallerStep
  \/ \E v \in Values : ClosureStep(v) \/ ReleaseResult(v)
  \/ \E v \in Values, st \in AvailableStates : Resolve(v, st)
  \/ Build \/ RunAsyncGraph \/ ReleaseInputs
  \/ Terminated

(***************************************************************************)
(* Kernels return, producers resolve what they promised, and the work      *)
(* queue runs every item; nothing makes the user run its graph or drop     *)
(* anything.                                                               *)
(***************************************************************************)
Spec == Init /\ [][Next]_vars
FairSpec ==
  /\ Spec
  /\ \A s \in Strands : WF_vars(StrandStep(s))
  /\ WF_vars(CallerStep)
  /\ \A v \in Values : /\ WF_vars(ClosureStep(v))
                       /\ WF_vars(\E st \in AvailableStates : Resolve(v, st))
-------------------------------------------------------------------------------
(***************************************************************************)
(* Properties                                                              *)
(***************************************************************************)
\* Strands that use the executor; the closure of ForwardTo does not.
Active == {s \in Strands : /\ pc[s] \notin {"off", "done", "released"}
                           /\ pc[s] = "closure" => Users(s) # {}}

\* Every variable keeps its type; no counter falls below zero.
TypeOK ==
  /\ Names(mAsyncNodes) \subseteq [mInputNames : Seq(Values), mOutputNames : Seq(Values),
                                   mFunc : {Fn(k) : k \in Kernels}, mFuncName : Kernels]
  /\ DOMAIN graph.mUserCount \subseteq Values /\ mIsConstructed \in BOOLEAN
  /\ mArgumentsNotReady \in [Kernels -> Nat]
  /\ mValue \in [Values -> Objects \cup {NULL}]
  /\ state \in [Objects -> {"none", "kUnconstructed"} \cup AvailableStates]
  /\ refs \in [Objects -> Nat]
  /\ mForward \in [Values -> Objects \cup {NULL}]
  /\ waiting \subseteq Values
  /\ result \in [Values -> Objects \cup {NULL}]
  /\ mRefCounted \in Nat /\ graphRefs \in Nat
  /\ pc \in [Strands -> {"off", "process", "kernel", "closure", "collect", "drop",
                         "done", "released"}]
  /\ ready \in [Strands -> SUBSET Kernels] /\ users \in [Strands -> SUBSET Kernels]
  /\ todo \in [Strands -> SUBSET Values]
  /\ kernel \in [Strands -> Kernels \cup {NULL}]
  /\ held \subseteq Values /\ collecting \in Values \cup {NULL}
  /\ ran \in [Kernels -> Nat] /\ called \subseteq Kernels

\* DecreaseReadyCountAndPush, raced by several strands, makes a kernel ready
\* once and only when every argument is in its register and available; and
\* the function of a kernel is called on values only, never on an error.
KernelsRunWhenReady ==
  \A k \in Kernels :
    /\ ran[k] <= 1
    /\ ran[k] = 1 => \A v \in graph.inputs[k] : mValue[v] # NULL /\ IsAvailable(mValue[v])
    /\ k \in called => \A v \in graph.inputs[k] : state[mValue[v]] = "kConcrete"

\* No object is used after its last reference is gone: not an argument by a
\* kernel that has yet to run or is running, not a value that a strand is about
\* to put into its register, not an indirect value that will still be
\* forwarded, not a result the user holds, not the executor or the graph.
NoUseAfterDestroy ==
  /\ \A k \in Kernels :
       (ran[k] = 0 \/ \E s \in Strands : pc[s] = "kernel" /\ kernel[s] = k) =>
         \A v \in graph.inputs[k] : mValue[v] # NULL => refs[mValue[v]] > 0
  /\ \A v \in Values :
       /\ mValue[v] = Indirect(v) /\ ~IsAvailable(Indirect(v)) => refs[Indirect(v)] > 0
       /\ v \in waiting \/ (\E s \in Strands : v \in todo[s] /\ result[v] # NULL
                                                 /\ pc[s] = "process")
            => refs[IF v \in graph.arguments THEN Value(v) ELSE result[v]] > 0
       /\ v \in held => refs[mValue[v]] > 0
  /\ Active # {} => mRefCounted > 0
  /\ mRefCounted > 0 => graphRefs > 0

\* When everything has been run and the user has dropped what it holds, no
\* reference is left: every value, the executor and the graph are freed.
NoLeak ==
  AllReleased =>
    mRefCounted = 0 /\ graphRefs = 0 /\ \A o \in Objects : refs[o] = 0

\* Reference counts are exact in both directions: nothing is destroyed before its
\* last use, and nothing survives it.
LifetimesExact == TypeOK /\ NoUseAfterDestroy /\ NoLeak

\* Whatever the kernels return and in whichever order values resolve, every
\* result the user was given becomes available, and the executor is destroyed.
Completes ==
  mRefCounted > 0 ~>
    mRefCounted = 0 /\ \A v \in ResultRegs : mValue[v] # NULL /\ IsAvailable(mValue[v])
===============================================================================
