------------------------------ MODULE AsyncGraph ------------------------------
(***************************************************************************)
(* AsyncGraph (runtime/graph.h, graph.cpp) before it is run: nodes are     *)
(* emplaced, written to a file and read back, cut down to a sub-graph and  *)
(* finally turned by BuildGraph into the tables that GraphExecutor runs    *)
(* on.  One thread does all of this; GraphExecutor continues from the      *)
(* tables.                                                                 *)
(*                                                                         *)
(* A node is [mInputNames, mOutputNames, mFunc, mFuncName].  Nodes may     *)
(* share a function, but here each has its own, so the name of the         *)
(* function is also what the tables call the kernel (the code uses the     *)
(* position of the node).                                                  *)
(***************************************************************************)
EXTENDS Integers, FiniteSets, FiniteSetsExt, SequencesExt

CONSTANTS Kernels, Values,
          Plans,      \* graphs the user writes: sequences of nodes
          Requests,   \* output names SubGraph may be called with
          NULL

Names(seq) == {seq[i] : i \in 1 .. Len(seq)}

ASSUME PlanAssumption ==
  \A p \in Plans :
    /\ \A i \in 1 .. Len(p) :
         /\ p[i].mFuncName \in Kernels
         /\ p[i].mInputNames \in Seq(Values) /\ IsInjective(p[i].mInputNames)
         /\ p[i].mOutputNames \in Seq(Values) /\ p[i].mOutputNames # <<>>
    /\ \A i, j \in 1 .. Len(p) : i # j =>
         /\ p[i].mFuncName # p[j].mFuncName
         /\ Names(p[i].mOutputNames) \cap Names(p[j].mOutputNames) = {}
    /\ Cardinality({i \in 1 .. Len(p) : p[i].mInputNames = <<>>}) = 1
    /\ UNION {Names(p[i].mInputNames) : i \in 1 .. Len(p)}
         \subseteq UNION {Names(p[i].mOutputNames) : i \in 1 .. Len(p)}

VARIABLES
  plan, wanted,         \* history: what the user writes and asks SubGraph for;
                        \* forgotten when the graph is run
  mFuncLibs,            \* the kernel functions that are registered, by name
  mAsyncNodes,
  mNameAndAsyncIdPair,  \* name -> id of its AsyncValueInfo
  graph,                \* mFunctionInfo and mUsedByKernlTable, see Tables
  mOutputNames,
  mIsConstructed,
  file                  \* [mode, content] of what was written, or NULL

buildVars == <<plan, wanted, mFuncLibs, mAsyncNodes, mNameAndAsyncIdPair, graph,
               mOutputNames, mIsConstructed, file>>

(***************************************************************************)
(* BuildGraph.  The ids go by first appearance, inputs before outputs; a   *)
(* name is used once less than it appears, as an input or as an output;    *)
(* and an output is what nobody uses.                                      *)
(***************************************************************************)
Appearances(nodes) ==
  FlattenSeq([i \in 1 .. Len(nodes) |-> nodes[i].mInputNames \o nodes[i].mOutputNames])

\* ProcessNameAndRefCount gives a name the next id when it has none.
ProcessNameAndRefCount(nodes) ==
  LET add(ids, name) ==
        IF name \in DOMAIN ids THEN ids
        ELSE [n \in DOMAIN ids \cup {name} |->
                IF n = name THEN Cardinality(DOMAIN ids) ELSE ids[n]]
  IN FoldLeft(add, [n \in {} |-> 0], Appearances(nodes))

\* argCountMap and resCountMap of a name, together.
TotalCount(nodes, name) == Len(SelectSeq(Appearances(nodes), LAMBDA n : n = name))

NodeOf(nodes, k) == CHOOSE i \in 1 .. Len(nodes) : nodes[i].mFuncName = k
InGraph(nodes) == {nodes[i].mFuncName : i \in 1 .. Len(nodes)}
\* The node that an executor starts from: the first one without inputs.
StartNode(nodes) ==
  nodes[Min({i \in 1 .. Len(nodes) : nodes[i].mInputNames = <<>>})]

Tables(nodes) ==
  LET inputs == [k \in Kernels |-> IF k \in InGraph(nodes)
                   THEN Names(nodes[NodeOf(nodes, k)].mInputNames) ELSE {}]
      outputs == [k \in Kernels |-> IF k \in InGraph(nodes)
                    THEN Names(nodes[NodeOf(nodes, k)].mOutputNames) ELSE {}]
      named == DOMAIN ProcessNameAndRefCount(nodes)
  IN [inputs |-> inputs, outputs |-> outputs,
      arguments |-> Names(StartNode(nodes).mOutputNames),
      first |-> StartNode(nodes).mOutputNames[1],
      usedBy |-> [v \in Values |-> {k \in Kernels : v \in inputs[k]}],
      notReady |-> [k \in Kernels |-> IF k \in InGraph(nodes)
                      THEN Len(nodes[NodeOf(nodes, k)].mInputNames) ELSE 0],
      mUserCount |-> [v \in named |-> TotalCount(nodes, v) - 1]]

NoTables ==
  [inputs |-> [k \in Kernels |-> {}], outputs |-> [k \in Kernels |-> {}],
   arguments |-> {}, first |-> NULL, usedBy |-> [v \in Values |-> {}],
   notReady |-> [k \in Kernels |-> 0], mUserCount |-> [v \in {} |-> 0]]

\* The graph has all the nodes the user writes.
Complete == wanted = NULL /\ Len(mAsyncNodes) = Len(plan)

BuildGraph ==
  /\ Complete \/ wanted # NULL
  /\ ~mIsConstructed
  /\ graph' = Tables(mAsyncNodes)
  /\ mNameAndAsyncIdPair' = ProcessNameAndRefCount(mAsyncNodes)
  /\ mOutputNames' = mOutputNames \o
       SetToSeq({v \in DOMAIN graph'.mUserCount : graph'.mUserCount[v] = 0})
  /\ mIsConstructed' = TRUE
  /\ UNCHANGED <<plan, wanted, mFuncLibs, mAsyncNodes, file>>

(***************************************************************************)
(* The user registers its functions and emplaces its nodes.                *)
(***************************************************************************)
Fn(name) == <<"fn", name>>

InsertKernelFn(name) ==
  /\ name \in InGraph(plan) \ DOMAIN mFuncLibs
  /\ mFuncLibs' = [n \in DOMAIN mFuncLibs \cup {name} |-> Fn(n)]
  /\ UNCHANGED <<plan, wanted, mAsyncNodes, mNameAndAsyncIdPair, graph, mOutputNames,
                 mIsConstructed, file>>

GetKernelFn(name) == IF name \in DOMAIN mFuncLibs THEN mFuncLibs[name] ELSE NULL

Node(inputNames, outputNames, fn, name) ==
  [mInputNames |-> inputNames, mOutputNames |-> outputNames, mFunc |-> fn,
   mFuncName |-> name]

emplace ==
  /\ Len(mAsyncNodes) < Len(plan) /\ wanted = NULL /\ file = NULL
  /\ LET n == plan[Len(mAsyncNodes) + 1]
     IN /\ GetKernelFn(n.mFuncName) # NULL
        /\ mAsyncNodes' = Append(mAsyncNodes,
             Node(n.mInputNames, n.mOutputNames, GetKernelFn(n.mFuncName), n.mFuncName))
  /\ UNCHANGED <<plan, wanted, mFuncLibs, mNameAndAsyncIdPair, graph, mOutputNames,
                 mIsConstructed, file>>

(***************************************************************************)
(* Dump writes a line per name and an empty line after every node; Load    *)
(* collects names until it meets the empty line.                           *)
(***************************************************************************)
Lines(node) ==
  [i \in 1 .. Len(node.mInputNames) |-> <<"input", node.mInputNames[i]>>]
    \o [i \in 1 .. Len(node.mOutputNames) |-> <<"output", node.mOutputNames[i]>>]
    \o <<<<"kernel name", node.mFuncName>>, <<>>>>

Dump ==
  /\ Complete /\ file = NULL
  /\ file' = [mode |-> "lines", content |->
                FlattenSeq([i \in 1 .. Len(mAsyncNodes) |-> Lines(mAsyncNodes[i])])]
  /\ UNCHANGED <<plan, wanted, mFuncLibs, mAsyncNodes, mNameAndAsyncIdPair, graph,
                 mOutputNames, mIsConstructed>>

\* The empty line: a node is complete.  The function stays for the next one.
LoadEmptyLine(read) ==
  [read EXCEPT !.nodes = Append(@, Node(read.inputNames, read.outputNames,
                                        read.kernelFn, read.kernelName)),
               !.inputNames = <<>>, !.outputNames = <<>>, !.kernelName = NULL]

LoadLine(read, line) ==
  CASE line = <<>> -> LoadEmptyLine(read)
    [] line # <<>> /\ line[1] = "input" ->
         [read EXCEPT !.inputNames = Append(@, line[2])]
    [] line # <<>> /\ line[1] = "output" ->
         [read EXCEPT !.outputNames = Append(@, line[2])]
    [] OTHER -> [read EXCEPT !.kernelName = line[2], !.kernelFn = GetKernelFn(line[2])]

Load ==
  /\ file # NULL /\ file.mode = "lines" /\ mAsyncNodes = <<>>
  /\ mAsyncNodes' = FoldLeft(LoadLine,
       [inputNames |-> <<>>, outputNames |-> <<>>, kernelFn |-> NULL,
        kernelName |-> NULL, nodes |-> mAsyncNodes], file.content).nodes
  /\ file' = NULL
  /\ UNCHANGED <<plan, wanted, mFuncLibs, mNameAndAsyncIdPair, graph, mOutputNames,
                 mIsConstructed>>

\* A protobuf file, text or binary, holds a message per node.
DumpToProtobuf(mode) ==
  /\ Complete /\ file = NULL
  /\ file' = [mode |-> mode, content |->
       [i \in 1 .. Len(mAsyncNodes) |->
          [input_names |-> mAsyncNodes[i].mInputNames,
           output_names |-> mAsyncNodes[i].mOutputNames,
           func_name |-> mAsyncNodes[i].mFuncName]]]
  /\ UNCHANGED <<plan, wanted, mFuncLibs, mAsyncNodes, mNameAndAsyncIdPair, graph,
                 mOutputNames, mIsConstructed>>

LoadFromProtobuf(mode) ==
  /\ file # NULL /\ file.mode = mode /\ mAsyncNodes = <<>>
  /\ mAsyncNodes' = mAsyncNodes \o
       [i \in 1 .. Len(file.content) |->
          Node(file.content[i].input_names, file.content[i].output_names,
               GetKernelFn(file.content[i].func_name), file.content[i].func_name)]
  /\ file' = NULL
  /\ UNCHANGED <<plan, wanted, mFuncLibs, mNameAndAsyncIdPair, graph, mOutputNames,
                 mIsConstructed>>

\* Mutant: the names of the outputs stay.
ResetKeepsOutputNames ==
  /\ file # NULL /\ mAsyncNodes # <<>>
  /\ mAsyncNodes' = <<>>
  /\ mNameAndAsyncIdPair' = [n \in {} |-> 0]
  /\ graph' = NoTables
  /\ mIsConstructed' = FALSE
  /\ UNCHANGED <<plan, wanted, mFuncLibs, mOutputNames, file>>

\* Reset, before the file is read back.
Reset ==
  /\ file # NULL /\ mAsyncNodes # <<>>
  /\ mAsyncNodes' = <<>>
  /\ mNameAndAsyncIdPair' = [n \in {} |-> 0]
  /\ graph' = NoTables
  /\ mOutputNames' = <<>>
  /\ mIsConstructed' = FALSE
  /\ UNCHANGED <<plan, wanted, mFuncLibs, file>>

(***************************************************************************)
(* SubGraph: breadth first from the names asked for to the nodes that      *)
(* produce them, each emplaced once, into a new graph.  The user goes on   *)
(* with that one and drops the old one.                                    *)
(***************************************************************************)
Producer(nodes, name) ==
  CHOOSE i \in 1 .. Len(nodes) : name \in Names(nodes[i].mOutputNames)

RECURSIVE Travel(_, _, _, _)
Travel(nodes, queuedNames, traveledNodes, sub) ==
  IF queuedNames = <<>> THEN sub
  ELSE LET i == Producer(nodes, Head(queuedNames))
       IN IF i \in traveledNodes
          THEN Travel(nodes, Tail(queuedNames), traveledNodes, sub)
          ELSE Travel(nodes, Tail(queuedNames) \o nodes[i].mInputNames,
                      traveledNodes \cup {i}, Append(sub, nodes[i]))

SubGraph(outputNames) ==
  /\ Complete /\ file = NULL
  /\ Names(outputNames) \subseteq UNION {Names(plan[i].mOutputNames) : i \in 1 .. Len(plan)}
  /\ wanted' = outputNames
  /\ mAsyncNodes' = Travel(mAsyncNodes, outputNames, {}, <<>>)
  /\ mNameAndAsyncIdPair' = [n \in {} |-> 0]
  /\ graph' = NoTables
  /\ mOutputNames' = <<>>
  /\ mIsConstructed' = FALSE
  /\ UNCHANGED <<plan, mFuncLibs, file>>

BuildInit ==
  /\ plan \in Plans /\ wanted = NULL
  /\ mFuncLibs = [n \in {} |-> NULL]
  /\ mAsyncNodes = <<>>
  /\ mNameAndAsyncIdPair = [n \in {} |-> 0]
  /\ graph = NoTables
  /\ mOutputNames = <<>> /\ mIsConstructed = FALSE
  /\ file = NULL

BuildNext ==
  \/ \E k \in Kernels : InsertKernelFn(k)
  \/ emplace \/ BuildGraph \/ Reset
  \/ Dump \/ Load
  \/ \E mode \in {"kTxtMode", "kBinaryMode"} : DumpToProtobuf(mode) \/ LoadFromProtobuf(mode)
  \/ \E names \in Requests : SubGraph(names)
-------------------------------------------------------------------------------
(***************************************************************************)
(* Properties                                                              *)
(***************************************************************************)
\* The nodes of the plan that the names need: the smallest set that has their
\* producers and those of every input of a node in it.
Needed(names) ==
  LET has(S, name) == \E i \in S : name \in Names(plan[i].mOutputNames)
      closed(S) == /\ \A n \in names : has(S, n)
                   /\ \A i \in S : \A n \in Names(plan[i].mInputNames) : has(S, n)
  IN {i \in 1 .. Len(plan) : \A S \in SUBSET (1 .. Len(plan)) : closed(S) => i \in S}

\* Whatever way the graph took, through a file in any format, past a Reset of
\* tables built before, or cut down by SubGraph, BuildGraph works on exactly the
\* nodes the user described, each once and with its function; and its tables say
\* of them what they should: every use of a value is counted, every user is
\* listed, every name has its own register and the results are exactly what no
\* kernel takes.
BuiltAsDescribed ==
  mIsConstructed /\ plan # <<>> =>
    LET nodes == IF wanted = NULL THEN 1 .. Len(plan) ELSE Needed(Names(wanted))
        described(i) == Node(plan[i].mInputNames, plan[i].mOutputNames,
                             Fn(plan[i].mFuncName), plan[i].mFuncName)
        takers(v) == {i \in nodes : v \in Names(plan[i].mInputNames)}
        made == UNION {Names(plan[i].mOutputNames) : i \in nodes}
    IN /\ IsInjective(mAsyncNodes)
       /\ Names(mAsyncNodes) = {described(i) : i \in nodes}
       /\ DOMAIN graph.mUserCount = made
       /\ \A v \in made :
            /\ graph.mUserCount[v] = Cardinality(takers(v))
            /\ graph.usedBy[v] = {plan[i].mFuncName : i \in takers(v)}
       /\ {mNameAndAsyncIdPair[v] : v \in made} = 0 .. Cardinality(made) - 1
       /\ IsInjective(mOutputNames)
       /\ Names(mOutputNames) = {v \in made : takers(v) = {}}
===============================================================================
