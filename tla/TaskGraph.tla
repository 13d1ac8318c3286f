------------------------------ MODULE TaskGraph -------------------------------
(***************************************************************************)
(* TaskGraph and TaskGraphExecutor (runtime/task_graph.h, .cpp): run the   *)
(* nodes of an acyclic graph, each after the nodes it depends on.          *)
(*                                                                         *)
(* A strand is one run of ProcessReadyNodeIndexs: that of the thread that  *)
(* called RunTaskGraph, or a work item that was enqueued for a node and is *)
(* named after it.  Every atomic access of a strand is a step.  The order  *)
(* of the ready list is arbitrary here: all but one of its nodes go to the *)
(* work queue, the strand runs the remaining one itself.                   *)
(*                                                                         *)
(* The work queue runs every item it is given at some time (WorkQueue),    *)
(* and mFinishChain is a Future: emplace and the closures it runs are one  *)
(* step.                                                                   *)
(***************************************************************************)
EXTENDS Integers, FiniteSets

CONSTANTS Nodes,
          Graphs,  \* sets of edges <<m, n>>: n is a successor of m
          Caller   \* the thread that calls RunTaskGraph

ASSUME GraphAssumption ==
  /\ IsFiniteSet(Nodes) /\ Nodes # {}
  /\ Graphs \subseteq SUBSET (Nodes \X Nodes)
  /\ Caller \notin Nodes

VARIABLES
  edges,            \* mSuccessories and mDependencies of the nodes
  sync,             \* the argument of RunTaskGraph
  mNodeCountInfo,   \* per node: dependencies that have not been counted down
  mTotalTaskCount,
  mFinishChain,     \* state of the chain
  mRefCounted,      \* references to the executor
  graphRefs,        \* references to the graph: the user's and the executor's
  pc,               \* per strand
  ready,            \* per strand: readyNodeIndex
  node,             \* per strand: the node it is running
  todo,             \* per strand: successors not yet counted down
  count,            \* per strand: what fetch_sub of mTotalTaskCount returned
  ran, finished     \* history: runs of each node, nodes that have returned

executorVars == <<mNodeCountInfo, mTotalTaskCount, mFinishChain>>
refVars == <<mRefCounted, graphRefs>>
locals  == <<ready, node, todo, count>>
history == <<ran, finished>>
vars == <<edges, sync, executorVars, refVars, pc, locals, history>>

Strands == Nodes \cup {Caller}
Dependencies(n) == {m \in Nodes : <<m, n>> \in edges}
mSuccessories(n) == {m \in Nodes : <<n, m>> \in edges}

\* Mutant: the constructor does not copy the counts.
InitialCountsZero == [n \in Nodes |-> 0]

InitialCounts == [n \in Nodes |-> Cardinality(Dependencies(n))]

(***************************************************************************)
(* BuildGraph has counted the dependencies of each node; the constructor   *)
(* of the executor copies the counts and takes a reference to the graph.   *)
(* Execute collects the nodes without dependencies.                        *)
(***************************************************************************)
Init ==
  /\ edges \in Graphs
  /\ sync \in BOOLEAN
  /\ mNodeCountInfo = InitialCounts
  /\ mTotalTaskCount = Cardinality(Nodes)
  /\ mFinishChain = "kUnconstructed"
  /\ mRefCounted = 1
  /\ graphRefs = 2
  /\ pc = [s \in Strands |-> IF s = Caller THEN "loop" ELSE "off"]
  /\ ready = [s \in Strands |->
                IF s = Caller THEN {n \in Nodes : Dependencies(n) = {}} ELSE {}]
  /\ node = [s \in Strands |-> s]
  /\ todo = [s \in Strands |-> {}]
  /\ count = [s \in Strands |-> 0]
  /\ ran = [n \in Nodes |-> 0]
  /\ finished = {}

Goto(s, to) == pc' = [pc EXCEPT ![s] = to]

\* Mutant: no reference is added for the work item.
EnqueueWorkUncounted(s, n) ==
  /\ pc[s] = "loop"
  /\ n \in ready[s] /\ ready[s] # {n}
  /\ ready' = [ready EXCEPT ![s] = @ \ {n}, ![n] = {n}]
  /\ pc' = [pc EXCEPT ![n] = "loop"]
  /\ UNCHANGED <<edges, sync, executorVars, refVars, node, todo, count, history>>

(***************************************************************************)
(* ProcessReadyNodeIndexs.  A work item starts with its own node; it holds *)
(* a reference that was added before it was enqueued.                      *)
(***************************************************************************)
EnqueueWork(s, n) ==
  /\ pc[s] = "loop"
  /\ n \in ready[s] /\ ready[s] # {n}
  /\ mRefCounted' = mRefCounted + 1
  /\ ready' = [ready EXCEPT ![s] = @ \ {n}, ![n] = {n}]
  /\ pc' = [pc EXCEPT ![n] = "loop"]
  /\ UNCHANGED <<edges, sync, executorVars, graphRefs, node, todo, count, history>>

\* ProcessReadyNodeIndex: the function of the node begins ...
RunNode(s, n) ==
  /\ pc[s] = "loop"
  /\ ready[s] = {n}
  /\ ready' = [ready EXCEPT ![s] = {}]
  /\ node' = [node EXCEPT ![s] = n]
  /\ ran' = [ran EXCEPT ![n] = @ + 1]
  /\ Goto(s, "run")
  /\ UNCHANGED <<edges, sync, executorVars, refVars, todo, count, finished>>

\* Mutant: the count is read after the decrement, like the result of --.
FinishNodePredecrement(s) ==
  /\ pc[s] = "run"
  /\ finished' = finished \cup {node[s]}
  /\ count' = [count EXCEPT ![s] = mTotalTaskCount - 1]
  /\ mTotalTaskCount' = mTotalTaskCount - 1
  /\ todo' = [todo EXCEPT ![s] = mSuccessories(node[s])]
  /\ Goto(s, "successors")
  /\ UNCHANGED <<edges, sync, mNodeCountInfo, mFinishChain, refVars, ready, node, ran>>

\* ... and returns; the node is counted as done.
FinishNode(s) ==
  /\ pc[s] = "run"
  /\ finished' = finished \cup {node[s]}
  /\ count' = [count EXCEPT ![s] = mTotalTaskCount]
  /\ mTotalTaskCount' = mTotalTaskCount - 1
  /\ todo' = [todo EXCEPT ![s] = mSuccessories(node[s])]
  /\ Goto(s, "successors")
  /\ UNCHANGED <<edges, sync, mNodeCountInfo, mFinishChain, refVars, ready, node, ran>>

\* Mutant: a successor is ready when it has one dependency left.
CountDownEarly(s, n) ==
  /\ pc[s] = "successors" /\ n \in todo[s]
  /\ todo' = [todo EXCEPT ![s] = @ \ {n}]
  /\ mNodeCountInfo' = [mNodeCountInfo EXCEPT ![n] = @ - 1]
  /\ ready' = [ready EXCEPT ![s] = IF mNodeCountInfo[n] <= 2 THEN @ \cup {n} ELSE @]
  /\ UNCHANGED <<edges, sync, mTotalTaskCount, mFinishChain, refVars, pc, node,
                 count, history>>

\* The strand that counts a successor down to zero makes it ready.
CountDown(s, n) ==
  /\ pc[s] = "successors" /\ n \in todo[s]
  /\ todo' = [todo EXCEPT ![s] = @ \ {n}]
  /\ mNodeCountInfo' = [mNodeCountInfo EXCEPT ![n] = @ - 1]
  /\ ready' = [ready EXCEPT ![s] = IF mNodeCountInfo[n] = 1 THEN @ \cup {n} ELSE @]
  /\ UNCHANGED <<edges, sync, mTotalTaskCount, mFinishChain, refVars, pc, node,
                 count, history>>

\* The last node of all resolves the chain.
EndOfNode(s) ==
  /\ pc[s] = "successors" /\ todo[s] = {}
  /\ mFinishChain' = IF count[s] = 1 THEN "kConcrete" ELSE mFinishChain
  /\ count' = [count EXCEPT ![s] = 0]
  /\ Goto(s, "loop")
  /\ UNCHANGED <<edges, sync, mNodeCountInfo, mTotalTaskCount, refVars, ready,
                 node, todo, history>>

\* Mutant: a work item ends without DropRef.
EndOfStrandKeepsRef(s) ==
  /\ pc[s] = "loop" /\ ready[s] = {}
  /\ Goto(s, IF s # Caller THEN "done" ELSE IF sync THEN "await" ELSE "drop")
  /\ UNCHANGED <<edges, sync, executorVars, refVars, locals, history>>

\* Nothing is ready: the strand is at its end, and the caller may have to wait.
EndOfStrand(s) ==
  /\ pc[s] = "loop" /\ ready[s] = {}
  /\ Goto(s, IF s = Caller /\ sync THEN "await" ELSE "drop")
  /\ UNCHANGED <<edges, sync, executorVars, refVars, locals, history>>

\* Await: a latch that the closure on mFinishChain counts down.
Await ==
  /\ pc[Caller] = "await"
  /\ mFinishChain = "kConcrete"
  /\ Goto(Caller, "drop")
  /\ UNCHANGED <<edges, sync, executorVars, refVars, locals, history>>

(***************************************************************************)
(* DropRef of the executor; the strand that drops the last reference goes  *)
(* on to Destroy.  The destructor gives back the reference to the graph,   *)
(* which frees the graph if it was the last, and only then does GetContext *)
(* read mpContext of that graph, to deallocate the executor with.  A graph *)
(* that is gone is taken to read as it was, so that the strand goes on.    *)
(***************************************************************************)
DropRef(s) ==
  /\ pc[s] = "drop"
  /\ mRefCounted' = mRefCounted - 1
  /\ Goto(s, IF mRefCounted = 1 THEN "destructor" ELSE "done")
  /\ UNCHANGED <<edges, sync, executorVars, graphRefs, locals, history>>

Destructor(s) ==
  /\ pc[s] = "destructor"
  /\ graphRefs' = graphRefs - 1
  /\ Goto(s, "deallocate")
  /\ UNCHANGED <<edges, sync, executorVars, mRefCounted, locals, history>>

Deallocate(s) ==
  /\ pc[s] = "deallocate"
  /\ Goto(s, "done")
  /\ UNCHANGED <<edges, sync, executorVars, refVars, locals, history>>

\* Once RunTaskGraph has returned, the user may let go of the graph.
ReleaseGraph ==
  /\ pc[Caller] = "done"
  /\ graphRefs' = graphRefs - 1
  /\ Goto(Caller, "released")
  /\ UNCHANGED <<edges, sync, executorVars, mRefCounted, locals, history>>

StrandStep(s) ==
  \/ \E n \in Nodes : EnqueueWork(s, n) \/ RunNode(s, n) \/ CountDown(s, n)
  \/ FinishNode(s) \/ EndOfNode(s) \/ EndOfStrand(s)
  \/ DropRef(s) \/ Destructor(s) \/ Deallocate(s)

Terminated ==
  /\ \A s \in Strands : pc[s] \in {"off", "done", "released"}
  /\ UNCHANGED vars

Next ==
  \/ \E s \in Strands : StrandStep(s)
  \/ Await \/ ReleaseGraph \/ Terminated

(***************************************************************************)
(* The functions of the nodes return, and the work queue runs every item.  *)
(***************************************************************************)
Spec == Init /\ [][Next]_vars
FairSpec ==
  /\ Spec
  /\ \A s \in Strands : WF_vars(StrandStep(s))
  /\ WF_vars(Await)
-------------------------------------------------------------------------------
(***************************************************************************)
(* Properties                                                              *)
(***************************************************************************)
\* The strands that have a reference to the executor, and those in Destroy.
Active == {s \in Strands : pc[s] \in {"loop", "run", "successors", "await", "drop"}}
Destroying == {s \in Strands : pc[s] \in {"destructor", "deallocate"}}

\* Every variable keeps its type; in particular no counter falls below zero.
TypeOK ==
  /\ edges \in Graphs /\ sync \in BOOLEAN
  /\ mNodeCountInfo \in [Nodes -> Nat]
  /\ mTotalTaskCount \in Nat
  /\ mFinishChain \in {"kUnconstructed", "kConcrete"}
  /\ mRefCounted \in Nat /\ graphRefs \in Nat
  /\ pc \in [Strands -> {"off", "loop", "run", "successors", "await", "drop",
                         "destructor", "deallocate", "done", "released"}]
  /\ ready \in [Strands -> SUBSET Nodes]
  /\ node \in [Strands -> Strands]
  /\ todo \in [Strands -> SUBSET Nodes]
  /\ count \in [Strands -> Nat]
  /\ ran \in [Nodes -> Nat]
  /\ finished \in SUBSET Nodes

\* However its dependencies finish on different threads, a node runs once, and
\* only when all of them have returned: of the strands that count it down,
\* exactly one sees the last dependency.
RunsOnceInOrder ==
  \A n \in Nodes : /\ ran[n] <= 1
                   /\ ran[n] = 1 => Dependencies(n) \subseteq finished

\* What Await waits for: when mFinishChain is resolved, every node has returned.
FinishMeansAllRan == mFinishChain = "kConcrete" => finished = Nodes

\* The executor outlives every strand that works with it, also after Await and
\* RunTaskGraph have returned, and goes once; the graph outlives the executor up
\* to and including its destructor.  The read of the graph that follows in Destroy
\* is covered by the user's reference alone: it finds a live graph if the user
\* has not let go of it before (otherwise the graph may be gone by then).
AliveWhileUsed ==
  /\ Active # {} => mRefCounted > 0 /\ Destroying = {}
  /\ \A s, t \in Destroying : s = t
  /\ Active # {} => graphRefs > 0
  /\ \A s \in Destroying :
       pc[s] = "destructor" \/ pc[Caller] # "released" => graphRefs > 0

\* Every graph without cycles is run to its end: RunTaskGraph returns, also
\* from Await, and the executor is destroyed with every node having run, its
\* reference to the graph given back.
Completes == <>(mRefCounted = 0 /\ graphRefs <= 1 /\ finished = Nodes)
===============================================================================
