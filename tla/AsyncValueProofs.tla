--------------------------- MODULE AsyncValueProofs ---------------------------
(***************************************************************************)
(* The waiter list of AsyncValue loses no closure and calls none twice,    *)
(* for any number of callers.  The argument is the chain invariant: the    *)
(* nodes that are linked and not yet destructed form one list, which hangs *)
(* on the atomic word until the value is available and on the resolver's   *)
(* local variable afterwards.                                              *)
(***************************************************************************)
EXTENDS AsyncValue, FiniteSetTheorems, TLAPS

Unresolved == {"hold", "toConcrete", "toError"}
Returned   == {"dropOwn", "subOwn", "done"}

\* The nodes in the chain and its first node.
Chain == {c \in Callers : depth[c] > 0 /\ c \notin freed}
First ==
  IF IsAvailable
  THEN IF pc[Resolver] \in {"next", "destruct"} THEN node[Resolver] ELSE list[Resolver]
  ELSE mWaitersAndState.ptr

\* What a caller's control point says about its own node.
CallerInv(c) ==
  /\ pc[c] \in {"idle", "hold", "enqueue"} =>
       ran[c] = 0 /\ depth[c] = 0 /\ c \notin freed
  /\ pc[c] = "enqueue" =>
       oldValue[c].state \notin Available /\ mNext[c] = oldValue[c].ptr
  /\ pc[c] \in {"host", "loop", "next", "destruct", "dropNode", "subNode"} =>
       IsAvailable /\ depth[c] = 0
  /\ pc[c] = "host" => list[c] = c /\ ran[c] = 0 /\ mNext[c] = NULL
  /\ pc[c] = "loop" => \/ list[c] = c /\ ran[c] = 0 /\ mNext[c] = NULL
                       \/ list[c] = NULL /\ ran[c] = 1
  /\ pc[c] \in {"next", "destruct"} =>
       node[c] = c /\ ran[c] = 1 /\ mNext[c] = NULL /\ c \notin freed
  /\ pc[c] = "destruct" => list[c] = NULL
  /\ pc[c] \in {"dropNode", "subNode"} => list[c] = NULL /\ ran[c] = 1
  /\ pc[c] \in Returned /\ depth[c] = 0 => ran[c] = 1
  /\ ran[c] <= 1
  /\ ran[c] > 0 => IsAvailable
  /\ c \in freed => ran[c] = 1
  /\ c \notin freed /\ depth[c] > 0 /\ ran[c] > 0 =>
       pc[Resolver] \in {"next", "destruct"} /\ node[Resolver] = c

ResolverInv ==
  /\ IsAvailable <=> pc[Resolver] \notin Unresolved
  /\ IsAvailable => mWaitersAndState.ptr = NULL
  /\ pc[Resolver] \in Returned => list[Resolver] = NULL
  /\ pc[Resolver] \in {"next", "destruct"} =>
       node[Resolver] # NULL /\ ran[node[Resolver]] = 1
  /\ pc[Resolver] = "destruct" => list[Resolver] = mNext[node[Resolver]]

\* The chain itself: depths fall by one from node to node down to 1, no two
\* nodes have the same depth, and the first node is the deepest.
ChainInv ==
  /\ First = NULL => Chain = {}
  /\ First # NULL => First \in Chain /\ \A c \in Chain : depth[c] <= depth[First]
  /\ \A c \in Chain : \/ mNext[c] = NULL /\ depth[c] = 1
                      \/ mNext[c] \in Chain /\ depth[mNext[c]] = depth[c] - 1
  /\ \A c, d \in Chain : depth[c] = depth[d] => c = d

IInv ==
  /\ TypeOK
  /\ \A c \in Callers : CallerInv(c)
  /\ ResolverInv
  /\ ChainInv
-------------------------------------------------------------------------------
\* A freshly constructed value, with an empty list and nobody inside a call,
\* satisfies the inductive invariant.
LEMMA InitIInv == Init => IInv
  <1> SUFFICES ASSUME Init PROVE IInv
    OBVIOUS
  <1> USE DEF Init, Available, IsAvailable, state
  <1>1. TypeOK
    <2>1. mWaitersAndState \in Word /\ payload \in {"none", "data", "error"}
      BY DEF NodePtr, StateEnum, Word
    <2>2. pc \in [Threads -> CallerPC \cup ResolverPC]
      BY DEF Threads, CallerPC, ResolverPC
    <2>3. /\ \A c \in Callers : pc[c] \in CallerPC
          /\ pc[Resolver] \in ResolverPC
      BY ThreadAssumption DEF Threads, CallerPC, ResolverPC
    <2>4. oldValue \in [Callers -> Word]
      BY DEF Word, NodePtr, StateEnum
    <2>5. destroyed \in BOOLEAN
      OBVIOUS
    <2>6. /\ mRefCount \in Int /\ freed \subseteq Callers
          /\ mNext \in [Callers -> NodePtr]
          /\ list \in [Threads -> NodePtr]
          /\ node \in [Threads -> NodePtr]
          /\ ran \in [Callers -> Nat]
          /\ depth \in [Callers -> Nat]
      BY DEF NodePtr
    <2> QED
      BY <2>1, <2>2, <2>3, <2>4, <2>5, <2>6 DEF TypeOK
  <1>2. ASSUME NEW c \in Callers PROVE CallerInv(c)
    BY ThreadAssumption DEF CallerInv, Threads, Returned
  <1>3. ResolverInv
    BY ThreadAssumption DEF ResolverInv, Threads, Returned, Unresolved
  <1>4. Chain = {} /\ First = NULL
    BY DEF Chain, First
  <1> QED
    BY <1>1, <1>2, <1>3, <1>4 DEF IInv, ChainInv

\* The control points and flags that AddRef and DropRef move, and no others,
\* leave the list alone.
LEMMA AddRefStep ==
  ASSUME IInv, NEW t \in Threads, NEW c \in Callers, AddRef(t, c)
  PROVE  IInv'
  BY ThreadAssumption DEF AddRef, Goto, listVars, IInv, TypeOK, CallerInv, ResolverInv,
     ChainInv, Chain, First, Unresolved, Returned, Threads, CallerPC,
     ResolverPC, IsAvailable, state

\* AndThen either runs its closure at once, the value being available, or moves
\* the caller on to EnqueueWaiter with the word it loaded.
LEMMA AndThenStep ==
  ASSUME IInv, NEW c \in Callers, AndThen(c)
  PROVE  IInv'
  <1> USE ThreadAssumption DEF AndThen, Goto, valueVars, Threads, IsAvailable, state,
          Available
  <1>1. TypeOK'
    BY DEF IInv, TypeOK, NodePtr, Word, CallerPC, ResolverPC
  <1>2. ASSUME NEW d \in Callers PROVE CallerInv(d)'
    BY DEF IInv, TypeOK, CallerInv, Returned, Word
  <1>3. ResolverInv'
    BY DEF IInv, TypeOK, ResolverInv, Returned, Unresolved, CallerInv, NodePtr
  <1>4. ChainInv'
    BY DEF IInv, TypeOK, ChainInv, CallerInv, Chain, First
  <1> QED
    BY <1>1, <1>2, <1>3, <1>4 DEF IInv

\* The new node becomes the first of the chain, one deeper than the old first.
LEMMA EnqueueLinkStep ==
  ASSUME IInv, NEW c \in Callers, EnqueueLink(c)
  PROVE  IInv'
  <1> USE ThreadAssumption DEF EnqueueLink, AfterAndThen, Goto, Threads, IsAvailable,
          state, Available
  <1>1. TypeOK'
    BY DEF IInv, TypeOK, NodePtr, Word, CallerPC, ResolverPC
  <1>2. /\ ~IsAvailable /\ ~IsAvailable'
        /\ First = mWaitersAndState.ptr /\ First' = c
        /\ mNext[c] = First
    BY DEF IInv, TypeOK, CallerInv, First, Word
  <1>3. Chain' = Chain \cup {c} /\ c \notin Chain
    BY DEF IInv, TypeOK, CallerInv, Chain, NodePtr, Word
  <1>4. ASSUME NEW d \in Callers PROVE CallerInv(d)'
    BY <1>2 DEF IInv, TypeOK, CallerInv, Returned, Word, NodePtr
  <1>5. ResolverInv'
    BY DEF IInv, TypeOK, ResolverInv, Returned, Unresolved, CallerInv
  <1>6. ChainInv'
    BY <1>1, <1>2, <1>3 DEF IInv, TypeOK, ChainInv, Chain, NodePtr, Word
  <1> QED
    BY <1>1, <1>4, <1>5, <1>6 DEF IInv

\* A failed compare_exchange_weak of EnqueueWaiter only reloads the word.
LEMMA EnqueueRetryStep ==
  ASSUME IInv, NEW c \in Callers, EnqueueRetry(c)
  PROVE  IInv'
  BY ThreadAssumption DEF EnqueueRetry, Goto, valueVars, IInv, TypeOK, CallerInv,
     ResolverInv, ChainInv, Chain, First, Unresolved, Returned, Threads,
     NodePtr, Word, CallerPC, ResolverPC, IsAvailable, state, Available

\* A caller of EnqueueWaiter that finds the value available keeps its node to
\* itself and goes on to run that one node.
LEMMA EnqueueTooLateStep ==
  ASSUME IInv, NEW c \in Callers, EnqueueTooLate(c)
  PROVE  IInv'
  BY ThreadAssumption DEF EnqueueTooLate, Goto, valueVars, IInv, TypeOK, CallerInv,
     ResolverInv, ChainInv, Chain, First, Unresolved, Returned, Threads,
     NodePtr, Word, CallerPC, ResolverPC, IsAvailable, state, Available

\* Writing the payload (emplace) touches neither the word nor the list.
LEMMA PayloadStep ==
  ASSUME IInv, Emplace \/ SetStateConcrete \/ SetError
  PROVE  IInv'
  BY ThreadAssumption DEF Emplace, SetStateConcrete, SetError, Goto, valueVars, listVars,
     IInv, TypeOK, CallerInv, ResolverInv, ChainInv, Chain, First, Unresolved,
     Returned, Threads, CallerPC, ResolverPC, IsAvailable, state, Available

\* The exchange in NotifyAvailable takes the whole chain: what the word held is
\* now the list of the resolver.
LEMMA NotifyAvailableStep ==
  ASSUME IInv, NotifyAvailable
  PROVE  IInv'
  BY ThreadAssumption DEF NotifyAvailable, Goto, IInv, TypeOK, CallerInv,
     ResolverInv, ChainInv, Chain, First, Unresolved, Returned, Threads,
     NodePtr, Word, StateEnum, CallerPC, ResolverPC, IsAvailable, state, Available

\* Entering the loop of RunWaiters leaves the chain as NotifyAvailable took it.
LEMMA RunWaitersStartStep ==
  ASSUME IInv, NEW t \in Threads, RunWaitersStart(t)
  PROVE  IInv'
  BY ThreadAssumption DEF RunWaitersStart, Goto, valueVars, listVars,
     IInv, TypeOK, CallerInv, ResolverInv, ChainInv, Chain, First, Unresolved,
     Returned, Threads, CallerPC, ResolverPC, IsAvailable, state, Available

\* RunWaiters calls the closure of its cursor, which was never called before.
LEMMA RunWaitersCallStep ==
  ASSUME IInv, NEW t \in Threads, RunWaitersCall(t)
  PROVE  IInv'
  BY ThreadAssumption DEF RunWaitersCall, AfterRunWaiters, AfterAndThen, Goto, valueVars,
     IInv, TypeOK, CallerInv, ResolverInv, ChainInv, Chain, First, Unresolved,
     Returned, Threads, CallerPC, ResolverPC, NodePtr, IsAvailable, state, Available

\* Reading mNext moves the list on, while the node stays the first of the chain.
LEMMA RunWaitersNextStep ==
  ASSUME IInv, NEW t \in Threads, RunWaitersNext(t)
  PROVE  IInv'
  <1> USE ThreadAssumption DEF RunWaitersNext, Goto, valueVars, Threads, IsAvailable,
          state, Available
  <1>1. node[t] \in Callers
    BY DEF IInv, TypeOK, CallerInv, ResolverInv, NodePtr
  <1>2. TypeOK'
    BY <1>1 DEF IInv, TypeOK, CallerPC, ResolverPC
  <1>3. ASSUME NEW d \in Callers PROVE CallerInv(d)'
    BY DEF IInv, TypeOK, CallerInv, Returned
  <1>4. ResolverInv'
    BY <1>1 DEF IInv, TypeOK, ResolverInv, Returned, Unresolved
  <1>5. ChainInv'
    <2>1. First' = First /\ Chain' = Chain
      BY DEF IInv, TypeOK, First, Chain
    <2> QED
      BY <2>1 DEF IInv, ChainInv
  <1> QED
    BY <1>2, <1>3, <1>4, <1>5 DEF IInv

\* The resolver destructs the first node of the chain, when its list is already
\* at the next; a caller that came too late destructs a node that was never in
\* the chain.
LEMMA RunWaitersDestructStep ==
  ASSUME IInv, NEW t \in Threads, RunWaitersDestruct(t)
  PROVE  IInv'
  <1> USE ThreadAssumption DEF RunWaitersDestruct, Goto, valueVars, Threads, IsAvailable,
          state, Available
  <1>1. node[t] \in Callers /\ ran[node[t]] = 1
    BY DEF IInv, TypeOK, CallerInv, ResolverInv, NodePtr
  <1>2. TypeOK'
    BY <1>1 DEF IInv, TypeOK, CallerPC, ResolverPC
  <1>3. IsAvailable /\ IsAvailable'
    BY DEF IInv, TypeOK, CallerInv, ResolverInv, Unresolved
  <1>4. ASSUME NEW d \in Callers PROVE CallerInv(d)'
    BY <1>1, <1>3 DEF IInv, TypeOK, CallerInv, Returned, ChainInv, Chain, First
  <1>5. ResolverInv'
    BY <1>1, <1>3 DEF IInv, TypeOK, ResolverInv, Returned, Unresolved, CallerInv
  <1>6. ChainInv'
    <2>1. CASE t = Resolver
      <3>1. First = node[t] /\ First \in Chain /\ First' = mNext[First]
        BY <1>1, <1>3, <2>1 DEF IInv, TypeOK, ChainInv, ResolverInv, First
      <3>2. Chain' = Chain \ {First}
        BY <3>1 DEF Chain
      <3>3. \A c \in Chain' : depth[c] < depth[First]
        BY <3>1, <3>2 DEF IInv, TypeOK, ChainInv, Chain
      <3> QED
        BY <3>1, <3>2, <3>3 DEF IInv, TypeOK, ChainInv, Chain
    <2>2. CASE t # Resolver
      <3>1. node[t] \notin Chain
        BY <2>2 DEF IInv, CallerInv, Chain
      <3>2. Chain' = Chain
        BY <3>1 DEF Chain
      <3>3. First' = First
        BY <1>3, <2>2 DEF IInv, TypeOK, First
      <3> QED
        BY <3>2, <3>3 DEF IInv, ChainInv
    <2> QED
      BY <2>1, <2>2
  <1> QED
    BY <1>2, <1>4, <1>5, <1>6 DEF IInv

\* DropRef destroys at most the value, never a node of the chain.
LEMMA DropRefStep ==
  ASSUME IInv, NEW t \in Threads, DropRef(t)
  PROVE  IInv'
  <1>1. /\ UNCHANGED <<mWaitersAndState, listVars>>
        /\ pc[t] \in {"dropNode", "dropOwn", "subNode", "subOwn"}
        /\ \E to \in {"loop", "done", "subNode", "subOwn"} :
             /\ pc' = [pc EXCEPT ![t] = to]
             /\ pc[t] \in {"dropNode", "subNode"} <=> to \in {"loop", "subNode"}
    BY DEF DropRef, DropRefLoad, DropRefSub, AfterDrop, Goto
  <1>2. mRefCount' \in Int
    BY DEF DropRef, DropRefLoad, DropRefSub, IInv, TypeOK
  <1>3. payload' \in {"none", "data", "error"}
    BY DEF DropRef, DropRefLoad, DropRefSub, Destroy, IInv, TypeOK
  <1>4. destroyed' \in BOOLEAN
    BY DEF DropRef, DropRefLoad, DropRefSub, Destroy, IInv, TypeOK
  <1> USE ThreadAssumption DEF listVars, Threads, IsAvailable, state, Available
  <1>5. TypeOK'
    BY <1>1, <1>2, <1>3, <1>4 DEF IInv, TypeOK, CallerPC, ResolverPC
  <1>6. ASSUME NEW d \in Callers PROVE CallerInv(d)'
    BY <1>1 DEF IInv, TypeOK, CallerInv, Returned
  <1>7. ResolverInv'
    BY <1>1 DEF IInv, TypeOK, ResolverInv, Returned, Unresolved
  <1>8. ChainInv'
    BY <1>1 DEF IInv, TypeOK, ChainInv, Chain, First
  <1> QED
    BY <1>5, <1>6, <1>7, <1>8 DEF IInv

\* Every step of a caller, of the resolver or of nobody keeps the invariant.
LEMMA IInvStep == IInv /\ [Next]_vars => IInv'
  <1> SUFFICES ASSUME IInv, [Next]_vars PROVE IInv'
    OBVIOUS
  <1>1. ASSUME NEW t \in Threads, NEW c \in Callers, AddRef(t, c) PROVE IInv'
    BY <1>1, AddRefStep
  <1>2. ASSUME NEW c \in Callers, CallerStep(c) PROVE IInv'
    <2>1. CASE AndThen(c)
      BY <2>1, AndThenStep
    <2>2. CASE EnqueueWaiter(c)
      BY <2>2, EnqueueLinkStep, EnqueueRetryStep, EnqueueTooLateStep
         DEF EnqueueWaiter
    <2>3. CASE RunWaiters(c)
      BY <2>3, RunWaitersStartStep, RunWaitersCallStep, RunWaitersNextStep,
         RunWaitersDestructStep DEF RunWaiters, Threads
    <2>4. CASE DropRef(c)
      BY <2>4, DropRefStep DEF Threads
    <2> QED
      BY <1>2, <2>1, <2>2, <2>3, <2>4 DEF CallerStep
  <1>3. ASSUME ResolverStep PROVE IInv'
    <2>1. CASE Emplace \/ SetStateConcrete \/ SetError
      BY <2>1, PayloadStep
    <2>2. CASE NotifyAvailable
      BY <2>2, NotifyAvailableStep
    <2>3. CASE RunWaiters(Resolver)
      BY <2>3, RunWaitersStartStep, RunWaitersCallStep, RunWaitersNextStep,
         RunWaitersDestructStep DEF RunWaiters, Threads
    <2>4. CASE DropRef(Resolver)
      BY <2>4, DropRefStep DEF Threads
    <2> QED
      BY <1>3, <2>1, <2>2, <2>3, <2>4 DEF ResolverStep
  <1>4. CASE UNCHANGED vars
    BY <1>4 DEF vars, IInv, TypeOK, CallerInv, ResolverInv, ChainInv, Chain,
       First, IsAvailable, state
  <1> QED
    BY <1>1, <1>2, <1>3, <1>4 DEF Next, Terminated

\* The list behind mWaitersAndState is always the chain of closures that were
\* enqueued and not yet run, held by the word or by the resolver, never by both.
THEOREM Invariance == Spec => []IInv
  BY InitIInv, IInvStep, PTL DEF Spec

\* Every variable of the value, of its callers and of the resolver keeps its
\* type: in particular RunWaiters never dereferences a null node.
THEOREM TypeCorrect == Spec => []TypeOK
  <1>1. IInv => TypeOK
    BY DEF IInv
  <1> QED
    BY <1>1, Invariance, PTL

\* Whichever of AndThen, EnqueueWaiter and NotifyAvailable calls a closure, it
\* is called once and after the value became available.
THEOREM CalledOnce == Spec => []CalledOnceWhenAvailable
  <1>1. IInv => CalledOnceWhenAvailable
    BY DEF IInv, CallerInv, CalledOnceWhenAvailable
  <1> QED
    BY <1>1, Invariance, PTL

\* When NotifyAvailable has run its list, no closure whose AndThen returned is
\* left uncalled, however its compare-exchange raced with the exchange.
THEOREM NoneLost == Spec => []NoWaiterLost
  <1>1. IInv => NoWaiterLost
    <2> SUFFICES ASSUME IInv, pc[Resolver] \in Returned,
                        NEW c \in Callers, pc[c] \in Returned
                 PROVE  ran[c] = 1
      BY DEF NoWaiterLost, Returned
    <2>1. Chain = {}
      BY DEF IInv, ResolverInv, ChainInv, First, Returned, Unresolved
    <2>2. CASE depth[c] = 0
      BY <2>2 DEF IInv, CallerInv
    <2>3. CASE depth[c] # 0
      BY <2>1, <2>3 DEF IInv, TypeOK, CallerInv, Chain
    <2> QED
      BY <2>2, <2>3
  <1> QED
    BY <1>1, Invariance, PTL

\* RunWaiters reads mNext before it destructs a node, so that neither the node it
\* works on nor the rest of its list is one that was freed.
THEOREM CursorIsLive == Spec => []NoFreedNode
  <1>1. IInv => NoFreedNode
    <2> SUFFICES ASSUME IInv, NEW t \in Threads
                 PROVE  /\ pc[t] \in {"loop", "destruct"} => list[t] \notin freed
                        /\ pc[t] \in {"next", "destruct"} => node[t] \notin freed
      BY DEF NoFreedNode
    <2> USE ThreadAssumption
    <2>1. CASE t = Resolver
      <3>1. pc[t] \in {"loop", "next", "destruct"} => IsAvailable
        BY <2>1 DEF IInv, ResolverInv, Unresolved
      <3>2. First # NULL => First \in Chain
        BY DEF IInv, ChainInv
      <3>3. CASE pc[t] = "loop"
        BY <2>1, <3>1, <3>2, <3>3 DEF IInv, TypeOK, First, Chain
      <3>4. CASE pc[t] \in {"next", "destruct"}
        <4>1. First = node[t] /\ node[t] \in Chain
          BY <2>1, <3>1, <3>2, <3>4 DEF IInv, ResolverInv, First
        <4>2. mNext[node[t]] = NULL \/ mNext[node[t]] \in Chain
          BY <4>1 DEF IInv, ChainInv
        <4> QED
          BY <2>1, <3>4, <4>1, <4>2 DEF IInv, TypeOK, ResolverInv, Chain
      <3> QED
        BY <3>3, <3>4
    <2>2. CASE t # Resolver
      BY <2>2 DEF IInv, TypeOK, CallerInv, Threads
    <2> QED
      BY <2>1, <2>2
  <1> QED
    BY <1>1, Invariance, PTL

\* Once available, the word never changes again.
THEOREM AvailableFinal == Spec => AvailableIsFinal
  <1>1. IInv /\ [Next]_vars => [~IsAvailable]_mWaitersAndState
    BY DEF IInv, CallerInv, ResolverInv, Unresolved, Next, vars, valueVars,
       Terminated, AddRef, CallerStep, AndThen, EnqueueWaiter, EnqueueLink,
       EnqueueRetry, EnqueueTooLate, RunWaiters, RunWaitersStart,
       RunWaitersCall, RunWaitersNext, RunWaitersDestruct, DropRef, DropRefLoad,
       DropRefSub, ResolverStep, Emplace, SetStateConcrete, SetError, NotifyAvailable,
       IsAvailable, state
  <1> QED
    BY <1>1, Invariance, PTL DEF Spec, AvailableIsFinal

\* The waiter list implements the Future (its safety part): a step of a thread
\* resolves it, registers or calls one closure, or changes nothing it shows.
THEOREM Refinement == Spec => F!Spec
  <1> DEFINE fres == IF IsAvailable THEN state ELSE "pending"
             freg == {c \in Callers : pc[c] \notin {"idle", "hold"}}
             fcall == {c \in Callers : ran[c] > 0}
  <1>1. Init => F!Init
    BY ThreadAssumption DEF Init, F!Init, IsAvailable, state, Available, Threads
  <1>2. IInv /\ [Next]_vars => [F!Next]_(F!vars)
    <2> SUFFICES ASSUME IInv, [Next]_vars PROVE F!Next \/ UNCHANGED F!vars
      OBVIOUS
    <2> USE ThreadAssumption DEF Goto, Threads, IsAvailable, state, Available
    <2>1. ASSUME NEW t \in Threads, NEW c \in Callers, AddRef(t, c)
          PROVE  UNCHANGED F!vars
      <3>1. fres' = fres /\ fcall' = fcall
        BY <2>1 DEF AddRef, listVars
      <3>2. freg' = freg
        BY <2>1 DEF AddRef, IInv, TypeOK
      <3> QED
        BY <3>1, <3>2 DEF F!vars
    <2>2. ASSUME NEW c \in Callers, AndThen(c)
          PROVE  F!Register(c) \/ F!CallAtOnce(c)
      <3>1. fres' = fres /\ freg' = freg \cup {c} /\ c \notin freg
        BY <2>2 DEF AndThen, valueVars, IInv, TypeOK
      <3>2. CASE IsAvailable
        <4>1. fcall' = fcall \cup {c}
          BY <2>2, <3>2 DEF AndThen, IInv, TypeOK
        <4>2. fres # "pending"
          BY <3>2
        <4> QED
          BY <3>1, <4>1, <4>2 DEF F!CallAtOnce
      <3>3. CASE ~IsAvailable
        <4>1. fcall' = fcall
          BY <2>2, <3>3 DEF AndThen
        <4> QED
          BY <3>1, <4>1 DEF F!Register
      <3> QED
        BY <3>2, <3>3
    <2>3. ASSUME NEW c \in Callers, EnqueueWaiter(c)
          PROVE  UNCHANGED F!vars
      <3>1. fcall' = fcall
        BY <2>3 DEF EnqueueWaiter, EnqueueLink, EnqueueRetry, EnqueueTooLate
      <3>2. freg' = freg
        BY <2>3 DEF EnqueueWaiter, EnqueueLink, EnqueueRetry, EnqueueTooLate,
           AfterAndThen, IInv, TypeOK
      <3>3. fres' = fres
        BY <2>3 DEF EnqueueWaiter, EnqueueLink, EnqueueRetry, EnqueueTooLate,
           valueVars, IInv, CallerInv
      <3> QED
        BY <3>1, <3>2, <3>3 DEF F!vars
    <2>4. ASSUME Emplace \/ SetStateConcrete \/ SetError
          PROVE  UNCHANGED F!vars
      <3>1. fres' = fres /\ fcall' = fcall
        BY <2>4 DEF Emplace, SetStateConcrete, SetError, valueVars, listVars
      <3>2. freg' = freg
        BY <2>4 DEF Emplace, SetStateConcrete, SetError, IInv, TypeOK
      <3> QED
        BY <3>1, <3>2 DEF F!vars
    <2>5. ASSUME NotifyAvailable
          PROVE  F!Resolve
      <3>1. fres = "pending" /\ fres' \in {"kConcrete", "kError"}
        BY <2>5 DEF NotifyAvailable, IInv, ResolverInv, Unresolved
      <3>2. fcall' = fcall /\ freg' = freg
        BY <2>5 DEF NotifyAvailable, IInv, TypeOK
      <3> QED
        BY <3>1, <3>2 DEF F!Resolve
    <2>6. ASSUME NEW t \in Threads, RunWaiters(t)
          PROVE  UNCHANGED F!vars \/ \E c \in Callers : F!Call(c)
      <3>1. fres' = fres
        BY <2>6 DEF RunWaiters, RunWaitersStart, RunWaitersCall, RunWaitersNext,
           RunWaitersDestruct, valueVars
      <3>2. freg' = freg
        BY <2>6 DEF RunWaiters, RunWaitersStart, RunWaitersCall, RunWaitersNext,
           RunWaitersDestruct, AfterRunWaiters, AfterAndThen, IInv, TypeOK, CallerPC
      <3>3. CASE ran' = ran
        <4>1. fcall' = fcall
          BY <3>3
        <4> QED
          BY <3>1, <3>2, <4>1 DEF F!vars
      <3>4. CASE ran' # ran
        <4>1. /\ pc[t] = "loop" /\ list[t] # NULL
              /\ ran' = [ran EXCEPT ![list[t]] = @ + 1]
          BY <2>6, <3>4 DEF RunWaiters, RunWaitersStart, RunWaitersCall,
             RunWaitersNext, RunWaitersDestruct, listVars
        <4>2. PICK c \in Callers : c = list[t]
          BY <4>1 DEF IInv, TypeOK, NodePtr
        <4>3. ran[c] = 0
          BY <4>1, <4>2 DEF IInv, TypeOK, CallerInv, ResolverInv, ChainInv,
             Chain, First, Unresolved
        <4>4. fres # "pending"
          BY <4>1 DEF IInv, CallerInv, ResolverInv, Unresolved
        <4>5. c \in freg
          <5>1. CASE t = Resolver
            <6>1. First = c /\ c \in Chain
              BY <4>1, <4>2, <4>4, <5>1 DEF IInv, ChainInv, First
            <6> QED
              BY <6>1, <4>2 DEF IInv, TypeOK, CallerInv, Chain
          <5>2. CASE t # Resolver
            BY <4>1, <4>2, <5>2 DEF IInv, CallerInv
          <5> QED
            BY <5>1, <5>2
        <4>6. fcall' = fcall \cup {c} /\ c \notin fcall
          BY <4>1, <4>2, <4>3 DEF IInv, TypeOK
        <4>7. F!Call(c)
          BY <3>1, <3>2, <4>4, <4>5, <4>6 DEF F!Call
        <4> QED
          BY <4>2, <4>7
      <3> QED
        BY <3>3, <3>4
    <2>7. ASSUME NEW t \in Threads, DropRef(t)
          PROVE  UNCHANGED F!vars
      <3>1. fres' = fres /\ fcall' = fcall
        BY <2>7 DEF DropRef, DropRefLoad, DropRefSub, listVars
      <3>2. freg' = freg
        BY <2>7 DEF DropRef, DropRefLoad, DropRefSub, AfterDrop, IInv, TypeOK
      <3> QED
        BY <3>1, <3>2 DEF F!vars
    <2>8. CASE UNCHANGED vars
      <3>1. fres' = fres /\ fcall' = fcall /\ freg' = freg
        BY <2>8 DEF vars
      <3> QED
        BY <3>1 DEF F!vars
    <2> QED
      BY <2>1, <2>2, <2>3, <2>4, <2>5, <2>6, <2>7, <2>8
         DEF Next, CallerStep, ResolverStep, Terminated, F!Next
  <1> QED
    BY <1>1, <1>2, Invariance, PTL DEF Spec, F!Spec
-------------------------------------------------------------------------------
(***************************************************************************)
(* The life of the value.  The count is not the number of threads that     *)
(* will call DropRef: the reference of a capturing closure moves from the  *)
(* caller to the node, and from there to the thread that destructs it.     *)
(***************************************************************************)

\* Thread t, or the node of that name, owns a reference.
Owns(t) ==
  IF t = Resolver THEN pc[t] # "done"
  ELSE \/ pc[t] \in {"hold", "enqueue", "host", "next", "destruct", "dropNode",
                     "subNode", "dropOwn", "subOwn"}
       \/ pc[t] = "loop" /\ (t \in Capturing => list[t] = t)
       \/ t \in Capturing /\ depth[t] > 0 /\ t \notin freed

Holders == {t \in Threads : Owns(t)}

\* The resolver holds the reference of a node that it has just destructed.
NodeDrop == IF pc[Resolver] \in {"dropNode", "subNode"} THEN 1 ELSE 0

CaptureInv(c) ==
  /\ c \in Capturing /\ depth[c] > 0 => pc[c] = "done"
  /\ pc[c] \in {"dropNode", "subNode"} => c \in Capturing

RefInv ==
  /\ ~destroyed => mRefCount = Cardinality(Holders) + NodeDrop /\ mRefCount > 0
  /\ destroyed => Holders = {}

PayloadInv ==
  /\ state = "kConstructed" /\ pc[Resolver] = "hold" => payload = "data"
  /\ pc[Resolver] = "toConcrete" => payload = "data"
  /\ pc[Resolver] = "toError" => payload = "error"
  /\ PayloadMatchesState

LInv == (\A c \in Callers : CaptureInv(c)) /\ RefInv /\ PayloadInv

\* The holders are threads, so there are finitely many.
LEMMA HoldersSize ==
  \A S \in SUBSET Threads :
    /\ IsFiniteSet(S) /\ Cardinality(S) \in Nat
    /\ \A t : t \notin S => Cardinality(S \cup {t}) = Cardinality(S) + 1
    /\ \A t \in S : /\ Cardinality(S \ {t}) = Cardinality(S) - 1
                    /\ Cardinality(S) > 0
                    /\ Cardinality(S) = 1 => S = {t}
  <1>1. IsFiniteSet(Threads)
    BY ThreadAssumption, FS_AddElement DEF Threads
  <1>2. ASSUME NEW S \in SUBSET Threads PROVE IsFiniteSet(S) /\ Cardinality(S) \in Nat
    BY <1>1, FS_Subset, FS_CardinalityType
  <1>3. ASSUME NEW S \in SUBSET Threads, NEW t, t \notin S
        PROVE  Cardinality(S \cup {t}) = Cardinality(S) + 1
    BY <1>2, <1>3, FS_AddElement
  <1>4. ASSUME NEW S \in SUBSET Threads, NEW t \in S
        PROVE  /\ Cardinality(S \ {t}) = Cardinality(S) - 1
               /\ Cardinality(S) > 0
               /\ Cardinality(S) = 1 => S = {t}
    <2>1. Cardinality(S \ {t}) = Cardinality(S) - 1
      BY <1>2, FS_RemoveElement
    <2>2. S \ {t} \in SUBSET Threads
      OBVIOUS
    <2>3. Cardinality(S \ {t}) \in Nat /\ Cardinality(S) \in Nat /\ IsFiniteSet(S \ {t})
      BY <1>2, <2>2
    <2>4. Cardinality(S) = 1 => S \ {t} = {}
      BY <2>1, <2>3, FS_EmptySet
    <2> QED
      BY <2>1, <2>3, <2>4
  <1> QED
    BY <1>2, <1>3, <1>4

\* The value begins with the resolver's reference.
LEMMA InitLInv == Init => LInv
  <1> SUFFICES ASSUME Init PROVE LInv
    OBVIOUS
  <1> USE ThreadAssumption DEF Init, Threads, state
  <1>1. Holders = {Resolver} /\ NodeDrop = 0
    BY DEF Holders, Owns, NodeDrop
  <1>2. RefInv
    <2>1. Cardinality(Holders) = 1
      BY <1>1, FS_Singleton
    <2> QED
      BY <1>1, <2>1 DEF RefInv
  <1>3. PayloadInv
    BY DEF PayloadInv, PayloadMatchesState
  <1>4. \A c \in Callers : CaptureInv(c)
    BY DEF CaptureInv
  <1> QED
    BY <1>2, <1>3, <1>4 DEF LInv

\* A step that moves no reference and leaves the union alone.
LEMMA SameHolders ==
  ASSUME LInv, Holders' = Holders, NodeDrop' = NodeDrop,
         UNCHANGED <<mRefCount, destroyed>>
  PROVE  RefInv'
  BY DEF LInv, RefInv

\* AddRef: one more holder.
LEMMA AddRefLInv ==
  ASSUME IInv, LInv, NEW t \in Threads, NEW c \in Callers, AddRef(t, c)
  PROVE  LInv'
  <1> USE ThreadAssumption DEF AddRef, Goto, listVars, Threads
  <1>1. /\ Holders' = Holders \cup {c} /\ c \notin Holders /\ t \in Holders
        /\ NodeDrop' = NodeDrop
    BY DEF Holders, Owns, NodeDrop, IInv, TypeOK, CallerInv
  <1>2. Holders \in SUBSET Threads
    BY DEF Holders
  <1>3. Cardinality(Holders') = Cardinality(Holders) + 1 /\ Cardinality(Holders) \in Nat
    BY <1>1, <1>2, HoldersSize
  <1>4. NodeDrop \in {0, 1}
    BY DEF NodeDrop
  <1>5. RefInv'
    BY <1>1, <1>3, <1>4 DEF LInv, RefInv, IInv, TypeOK
  <1>6. PayloadInv'
    BY DEF LInv, PayloadInv, PayloadMatchesState, IInv, TypeOK, state
  <1>7. \A d \in Callers : CaptureInv(d)'
    BY DEF LInv, CaptureInv, IInv, TypeOK, CallerInv
  <1> QED
    BY <1>5, <1>6, <1>7 DEF LInv

\* AndThen and EnqueueWaiter hand the reference of a capturing closure over to the
\* node that is linked.
LEMMA AndThenLInv ==
  ASSUME IInv, LInv, NEW c \in Callers, AndThen(c) \/ EnqueueWaiter(c)
  PROVE  LInv'
  <1> USE ThreadAssumption DEF Goto, valueVars, Threads, state
  <1>1. \A d \in Callers : CaptureInv(d)'
    <2> SUFFICES ASSUME NEW d \in Callers PROVE CaptureInv(d)'
      OBVIOUS
    <2>1. CaptureInv(d) /\ CallerInv(d)
      BY DEF LInv, IInv
    <2>2. CASE AndThen(c)
      BY <2>1, <2>2 DEF AndThen, CaptureInv, IInv, TypeOK, CallerInv
    <2>3. CASE EnqueueWaiter(c)
      BY <2>1, <2>3 DEF EnqueueWaiter, EnqueueLink, EnqueueRetry, EnqueueTooLate,
         AfterAndThen, CaptureInv, IInv, TypeOK, CallerInv
    <2> QED
      BY <2>2, <2>3
  <1>2. NodeDrop' = NodeDrop
    BY DEF AndThen, EnqueueWaiter, EnqueueLink, EnqueueRetry, EnqueueTooLate,
       NodeDrop, IInv, TypeOK
  <1>3. ASSUME NEW t \in Threads PROVE Owns(t)' <=> Owns(t)
    <2>1. CASE t = Resolver
      BY <2>1 DEF AndThen, EnqueueWaiter, EnqueueLink, EnqueueRetry, EnqueueTooLate,
         Owns, IInv, TypeOK
    <2>2. CASE t # Resolver
      <3>1. t \in Callers /\ CallerInv(t) /\ CaptureInv(t)
        BY <2>2 DEF LInv, IInv
      <3>2. CASE AndThen(c)
        BY <2>2, <3>1, <3>2 DEF AndThen, Owns, IInv, TypeOK, CallerInv
      <3>3. CASE EnqueueLink(c)
        <4>1. depth'[c] > 0
          BY <3>3 DEF EnqueueLink, IInv, TypeOK, Word, NodePtr
        <4> QED
          BY <2>2, <3>1, <3>3, <4>1 DEF EnqueueLink, AfterAndThen, Owns, IInv, TypeOK, CallerInv
      <3>4. CASE EnqueueRetry(c) \/ EnqueueTooLate(c)
        BY <2>2, <3>1, <3>4 DEF EnqueueRetry, EnqueueTooLate, Owns, IInv, TypeOK, CallerInv
      <3> QED
        BY <3>2, <3>3, <3>4 DEF EnqueueWaiter
    <2> QED
      BY <2>1, <2>2
  <1>4. Holders' = Holders
    BY <1>3 DEF Holders
  <1>5. RefInv'
    BY <1>2, <1>4, SameHolders DEF AndThen, EnqueueWaiter, EnqueueLink, EnqueueRetry,
       EnqueueTooLate
  <1>6. PayloadInv'
    BY DEF AndThen, EnqueueWaiter, EnqueueLink, EnqueueRetry, EnqueueTooLate,
       LInv, PayloadInv, PayloadMatchesState, IInv, TypeOK, CallerInv, Word
  <1> QED
    BY <1>1, <1>5, <1>6 DEF LInv

\* The resolver fills the union before it publishes the state.
LEMMA ResolveLInv ==
  ASSUME IInv, LInv, Emplace \/ SetStateConcrete \/ SetError \/ NotifyAvailable
  PROVE  LInv'
  <1> USE ThreadAssumption DEF Goto, valueVars, listVars, Threads, state,
          Emplace, SetStateConcrete, SetError, NotifyAvailable
  <1>1. \A d \in Callers : CaptureInv(d)'
    BY DEF LInv, CaptureInv, IInv, TypeOK
  <1>2. NodeDrop' = NodeDrop
    BY DEF NodeDrop, IInv, TypeOK
  <1>3. Holders' = Holders
    BY DEF Holders, Owns, IInv, TypeOK
  <1>4. RefInv'
    BY <1>2, <1>3, SameHolders
  <1>5. ~destroyed
    BY DEF LInv, RefInv, Holders, Owns
  <1>6. PayloadInv'
    BY <1>5 DEF LInv, PayloadInv, PayloadMatchesState, IInv, TypeOK, ResolverInv, Unresolved,
       IsAvailable, Available
  <1> QED
    BY <1>1, <1>4, <1>6 DEF LInv

\* The closure loop calls and reads mNext without moving a reference.
LEMMA RunLInv ==
  ASSUME IInv, LInv, NEW t \in Threads,
         RunWaitersStart(t) \/ RunWaitersCall(t) \/ RunWaitersNext(t)
  PROVE  LInv'
  <1> USE ThreadAssumption DEF Goto, valueVars, listVars, Threads, state,
          RunWaitersStart, RunWaitersCall, RunWaitersNext, AfterRunWaiters, AfterAndThen
  <1>1. \A d \in Callers : CaptureInv(d)'
    BY DEF LInv, CaptureInv, IInv, TypeOK, CallerInv
  <1>2. NodeDrop' = NodeDrop
    BY DEF NodeDrop, IInv, TypeOK
  <1>3. ASSUME NEW u \in Threads PROVE Owns(u)' <=> Owns(u)
    <2>1. CASE u = Resolver
      BY <2>1 DEF Owns, IInv, TypeOK
    <2>2. CASE u # Resolver
      <3>1. u \in Callers /\ CallerInv(u) /\ CaptureInv(u)
        BY <2>2 DEF LInv, IInv
      <3> QED
        BY <2>2, <3>1 DEF Owns, IInv, TypeOK, CallerInv
    <2> QED
      BY <2>1, <2>2
  <1>4. Holders' = Holders
    BY <1>3 DEF Holders
  <1>5. RefInv'
    BY <1>2, <1>4, SameHolders
  <1>6. PayloadInv'
    BY DEF LInv, PayloadInv, PayloadMatchesState, IInv, TypeOK
  <1> QED
    BY <1>1, <1>5, <1>6 DEF LInv

\* When the resolver destructs a node, the reference of its closure is the
\* resolver's to drop.
LEMMA RunDestructLInv ==
  ASSUME IInv, LInv, NEW t \in Threads, RunWaitersDestruct(t)
  PROVE  LInv'
  <1> USE ThreadAssumption DEF Goto, valueVars, Threads, state, RunWaitersDestruct
  <1>1. node[t] \in Callers
    BY DEF IInv, TypeOK, CallerInv, ResolverInv, NodePtr
  <1>2. \A d \in Callers : CaptureInv(d)'
    BY <1>1 DEF LInv, CaptureInv, IInv, TypeOK, CallerInv
  <1>3. PayloadInv'
    BY DEF LInv, PayloadInv, PayloadMatchesState, IInv, TypeOK
  <1>4. RefInv'
    <2>1. CASE t = Resolver /\ node[t] \in Capturing
      <3>1. node[t] \in Chain
        BY <1>1, <2>1 DEF IInv, ResolverInv, ChainInv, First, Unresolved
      <3>2. pc[node[t]] = "done"
        BY <1>1, <2>1, <3>1 DEF LInv, CaptureInv, Chain
      <3>3. ASSUME NEW u \in Threads
            PROVE  /\ u # node[t] => (Owns(u)' <=> Owns(u))
                   /\ u = node[t] => Owns(u) /\ ~Owns(u)'
        BY <1>1, <2>1, <3>1, <3>2 DEF Owns, IInv, TypeOK, Chain
      <3>4. Holders' = Holders \ {node[t]} /\ node[t] \in Holders
        BY <1>1, <3>3 DEF Holders
      <3>5. Holders \in SUBSET Threads
        BY DEF Holders
      <3>6. Cardinality(Holders') = Cardinality(Holders) - 1 /\ Cardinality(Holders) \in Nat
        BY <3>4, <3>5, HoldersSize
      <3>7. NodeDrop = 0 /\ NodeDrop' = 1
        BY <2>1 DEF NodeDrop, IInv, TypeOK
      <3> QED
        BY <3>4, <3>6, <3>7 DEF LInv, RefInv
    <2>2. CASE ~(t = Resolver /\ node[t] \in Capturing)
      <3>1. ASSUME NEW u \in Threads PROVE Owns(u)' <=> Owns(u)
        <4>1. CASE u = Resolver
          BY <4>1 DEF Owns, IInv, TypeOK
        <4>2. CASE u # Resolver
          <5>1. u \in Callers /\ CallerInv(u) /\ CaptureInv(u)
            BY <4>2 DEF LInv, IInv
          <5>2. t # Resolver => CallerInv(t) /\ node[t] = t
            BY DEF IInv, CallerInv
          <5> QED
            BY <1>1, <2>2, <4>2, <5>1, <5>2 DEF Owns, IInv, TypeOK, CallerInv
        <4> QED
          BY <4>1, <4>2
      <3>2. Holders' = Holders
        BY <3>1 DEF Holders
      <3>3. NodeDrop' = NodeDrop
        BY <2>2 DEF NodeDrop, IInv, TypeOK
      <3> QED
        BY <3>2, <3>3, SameHolders
    <2> QED
      BY <2>1, <2>2
  <1> QED
    BY <1>2, <1>3, <1>4 DEF LInv

\* Whoever finds a count of one is the only holder: not a resolver in its loop,
\* which holds its own reference besides the node's.
LEMMA DropRefLInv ==
  ASSUME IInv, LInv, NEW t \in Threads, DropRef(t)
  PROVE  LInv'
  <1> USE ThreadAssumption DEF Goto, listVars, Threads, state
  <1>1. /\ pc[t] \in {"dropNode", "dropOwn", "subNode", "subOwn"}
        /\ UNCHANGED <<mWaitersAndState, listVars>>
        /\ t \in Holders /\ ~destroyed
    <2>1. pc[t] \in {"dropNode", "dropOwn", "subNode", "subOwn"}
      BY DEF DropRef, DropRefLoad, DropRefSub
    <2>2. t \in Holders
      BY <2>1 DEF Holders, Owns
    <2> QED
      BY <2>1, <2>2 DEF DropRef, DropRefLoad, DropRefSub, LInv, RefInv
  <1>2. PICK to \in {"loop", "done", "subNode", "subOwn"} :
          /\ pc' = [pc EXCEPT ![t] = to]
          /\ pc[t] \in {"dropNode", "subNode"} <=> to \in {"loop", "subNode"}
          /\ to \in {"subNode", "subOwn"} => pc[t] \in {"dropNode", "dropOwn"}
    BY DEF DropRef, DropRefLoad, DropRefSub, AfterDrop
  <1>3. \A d \in Callers : CaptureInv(d)'
    BY <1>1, <1>2 DEF LInv, CaptureInv, IInv, TypeOK
  <1>4. /\ Holders \in SUBSET Threads /\ Cardinality(Holders) \in Nat
        /\ Cardinality(Holders \ {t}) = Cardinality(Holders) - 1
        /\ Cardinality(Holders) = 1 => Holders = {t}
    <2>1. Holders \in SUBSET Threads
      BY DEF Holders
    <2> QED
      BY <1>1, <2>1, HoldersSize
  <1>5. ASSUME NEW u \in Threads, u # t PROVE Owns(u)' <=> Owns(u)
    BY <1>1, <1>2, <1>5 DEF Owns, IInv, TypeOK
  <1>6. CASE to \in {"subNode", "subOwn"}
    <2>1. /\ pc[t] \in {"dropNode", "dropOwn"} /\ UNCHANGED <<mRefCount, destroyed, payload>>
      <3>1. DropRefLoad(t) /\ mRefCount # 1
        BY <1>1, <1>2, <1>6 DEF DropRef, DropRefLoad, DropRefSub, AfterDrop, IInv, TypeOK
      <3> QED
        BY <3>1 DEF DropRefLoad
    <2>2. Owns(t)' <=> Owns(t)
      BY <1>1, <1>2, <1>6, <2>1 DEF Owns, IInv, TypeOK
    <2>3. Holders' = Holders
      BY <1>5, <2>2 DEF Holders
    <2>4. NodeDrop' = NodeDrop
      BY <1>2, <1>6, <2>1 DEF NodeDrop, IInv, TypeOK
    <2>5. RefInv'
      BY <2>1, <2>3, <2>4, SameHolders
    <2>6. PayloadInv'
      BY <1>1, <1>2, <1>6, <2>1 DEF LInv, PayloadInv, PayloadMatchesState, IInv, TypeOK
    <2> QED
      BY <1>3, <2>5, <2>6 DEF LInv
  <1>7. CASE to \in {"loop", "done"}
    <2>1. /\ mRefCount = 1 => Destroy
          /\ mRefCount # 1 => /\ mRefCount' = mRefCount - 1
                              /\ UNCHANGED <<destroyed, payload>>
      BY <1>1, <1>2, <1>7 DEF DropRef, DropRefLoad, DropRefSub, AfterDrop, IInv, TypeOK
    <2>2. CASE t = Resolver /\ to = "loop"
      <3>1. NodeDrop = 1 /\ NodeDrop' = 0 /\ Owns(t) /\ Owns(t)'
        BY <1>1, <1>2, <2>2 DEF NodeDrop, Owns, IInv, TypeOK
      <3>2. Holders' = Holders
        BY <1>5, <3>1 DEF Holders
      <3>3. mRefCount > 1
        BY <1>1, <1>4, <3>1, HoldersSize DEF LInv, RefInv
      <3>4. RefInv'
        BY <1>1, <1>4, <2>1, <3>1, <3>2, <3>3 DEF LInv, RefInv, IInv, TypeOK
      <3>5. PayloadInv'
        BY <1>1, <1>2, <2>1, <2>2, <3>3 DEF LInv, PayloadInv, PayloadMatchesState, IInv, TypeOK
      <3> QED
        BY <1>3, <3>4, <3>5 DEF LInv
    <2>3. CASE ~(t = Resolver /\ to = "loop")
      <3>1. ~Owns(t)'
        <4>1. CASE t = Resolver
          BY <1>2, <1>7, <2>3, <4>1 DEF Owns, IInv, TypeOK
        <4>2. CASE t # Resolver
          <5>1. t \in Callers /\ CallerInv(t) /\ CaptureInv(t)
            BY <4>2 DEF LInv, IInv
          <5> QED
            BY <1>1, <1>2, <1>7, <4>2, <5>1 DEF Owns, IInv, TypeOK, CallerInv, CaptureInv
        <4> QED
          BY <4>1, <4>2
      <3>2. Holders' = Holders \ {t}
        BY <1>5, <3>1 DEF Holders
      <3>3. NodeDrop' = NodeDrop /\ NodeDrop \in {0, 1}
        BY <1>1, <1>2, <1>7, <2>3 DEF NodeDrop, IInv, TypeOK
      <3>4. CASE mRefCount # 1
        <4>1. RefInv'
          BY <1>1, <1>4, <2>1, <3>2, <3>3, <3>4 DEF LInv, RefInv, IInv, TypeOK
        <4>2. PayloadInv'
          BY <1>1, <1>2, <1>7, <2>1, <3>4 DEF LInv, PayloadInv, PayloadMatchesState, IInv, TypeOK
        <4> QED
          BY <1>3, <4>1, <4>2 DEF LInv
      <3>5. CASE mRefCount = 1
        <4>1. Cardinality(Holders) = 1
          BY <1>1, <1>4, <3>3, <3>5, HoldersSize DEF LInv, RefInv
        <4>2. Holders' = {} /\ destroyed'
          BY <1>4, <2>1, <3>2, <3>5, <4>1 DEF Destroy
        <4>3. pc'[Resolver] = "done" /\ IsAvailable
          <5>1. pc'[Resolver] = "done"
            BY <4>2 DEF Holders, Owns
          <5>2. pc[Resolver] \notin Unresolved
            BY <1>1, <1>2, <5>1 DEF IInv, TypeOK, Unresolved
          <5> QED
            BY <5>1, <5>2 DEF IInv, ResolverInv
        <4>4. payload' = "none"
          BY <2>1, <3>5, <4>3 DEF Destroy, IsAvailable, Available
        <4>5. RefInv'
          BY <4>2 DEF RefInv
        <4>6. PayloadInv'
          BY <4>2, <4>3, <4>4 DEF PayloadInv, PayloadMatchesState
        <4> QED
          BY <1>3, <4>5, <4>6 DEF LInv
      <3> QED
        BY <3>4, <3>5
    <2> QED
      BY <2>2, <2>3
  <1> QED
    BY <1>6, <1>7

\* Every step keeps the count of the references.
LEMMA LInvStep == IInv /\ LInv /\ [Next]_vars => LInv'
  <1> SUFFICES ASSUME IInv, LInv, [Next]_vars PROVE LInv'
    OBVIOUS
  <1>1. ASSUME NEW t \in Threads, NEW c \in Callers, AddRef(t, c) PROVE LInv'
    BY <1>1, AddRefLInv
  <1>2. ASSUME NEW c \in Callers, CallerStep(c) PROVE LInv'
    BY <1>2, AndThenLInv, RunLInv, RunDestructLInv, DropRefLInv
       DEF CallerStep, RunWaiters, Threads
  <1>3. ASSUME ResolverStep PROVE LInv'
    BY <1>3, ResolveLInv, RunLInv, RunDestructLInv, DropRefLInv
       DEF ResolverStep, RunWaiters, Threads
  <1>4. CASE UNCHANGED vars
    BY <1>4 DEF vars, LInv, CaptureInv, RefInv, Holders, Owns, NodeDrop, PayloadInv,
       PayloadMatchesState, state
  <1> QED
    BY <1>1, <1>2, <1>3, <1>4 DEF Next, Terminated

\* The count of the value is exact for any number of callers and any choice of
\* capturing closures: the DropRef that finds the last reference destroys the
\* value when no thread and no node has an access to it left, Destroy finds in the
\* union what the state announces, and nothing is leaked once all are through.
THEOREM LifetimeIsExact == Spec => []LifetimeExact
  <1>1. IInv /\ LInv => LifetimeExact
    <2> SUFFICES ASSUME IInv, LInv PROVE LifetimeExact
      OBVIOUS
    <2> USE ThreadAssumption DEF Threads
    <2>1. NoUseAfterDestroy
      <3> SUFFICES ASSUME destroyed
                   PROVE  /\ mWaitersAndState.ptr = NULL
                          /\ \A t \in Threads :
                               pc[t] \notin {"hold", "enqueue", "toConcrete", "toError",
                                             "host", "dropNode", "subNode", "dropOwn", "subOwn"}
        BY DEF NoUseAfterDestroy
      <3>1. \A t \in Threads : ~Owns(t)
        BY DEF LInv, RefInv, Holders
      <3>2. pc[Resolver] = "done"
        BY <3>1 DEF Owns
      <3>3. mWaitersAndState.ptr = NULL
        BY <3>2 DEF IInv, ResolverInv, Unresolved
      <3>4. ASSUME NEW t \in Threads
            PROVE  pc[t] \notin {"hold", "enqueue", "toConcrete", "toError",
                                 "host", "dropNode", "subNode", "dropOwn", "subOwn"}
        <4>1. CASE t = Resolver
          BY <3>2, <4>1
        <4>2. CASE t # Resolver
          BY <3>1, <4>2 DEF Owns, IInv, TypeOK, CallerPC
        <4> QED
          BY <4>1, <4>2
      <3> QED
        BY <3>3, <3>4
    <2>2. PayloadMatchesState
      BY DEF LInv, PayloadInv
    <2>3. NoLeak
      <3> SUFFICES ASSUME pc[Resolver] = "done",
                          \A c \in Callers : pc[c] \in {"idle", "done"}, ~destroyed
                   PROVE  FALSE
        BY DEF NoLeak
      <3>1. Chain = {}
        BY DEF IInv, ResolverInv, ChainInv, First, Returned, Unresolved
      <3>2. Holders = {} /\ NodeDrop = 0
        BY <3>1 DEF Holders, Owns, NodeDrop, Chain
      <3>3. mRefCount = 0
        BY <3>2, FS_EmptySet DEF LInv, RefInv
      <3> QED
        BY <3>3 DEF LInv, RefInv
    <2> QED
      BY <2>1, <2>2, <2>3 DEF LifetimeExact
  <1>2. Init => IInv /\ LInv
    BY InitIInv, InitLInv
  <1>3. IInv /\ LInv /\ [Next]_vars => IInv' /\ LInv'
    BY IInvStep, LInvStep
  <1> QED
    BY <1>1, <1>2, <1>3, PTL DEF Spec
===============================================================================
