--------------------------- MODULE TaskGraphProofs ----------------------------
(***************************************************************************)
(* The executor of a TaskGraph, for any finite graph: nodes run once and   *)
(* in order, the chain is resolved after the last of them, and executor    *)
(* and graph outlive the strands that work with them.  The three counters  *)
(* of the code are sizes of sets: of the dependencies of a node that have  *)
(* not been counted down, of the nodes that have not returned, and of the  *)
(* strands that hold a reference.                                          *)
(***************************************************************************)
EXTENDS TaskGraph, FiniteSetTheorems, TLAPS

Busy == {"run", "successors"}

\* m has not been counted down at its successor n.
Pending(m, n) ==
  \/ m \notin finished
  \/ \E s \in Strands : pc[s] = "successors" /\ node[s] = m /\ n \in todo[s]
Open(n) == {m \in Dependencies(n) : Pending(m, n)}

\* The counters.
CountInv == \A n \in Nodes : mNodeCountInfo[n] = Cardinality(Open(n))
TotalInv == mTotalTaskCount = Cardinality(Nodes \ finished)
RefInv == mRefCounted = Cardinality(Active)

\* The executor has its reference to the graph until a strand, the only one in
\* Destroy, has run the destructor.
ExecutorHolds == mRefCounted > 0 \/ \E s \in Strands : pc[s] = "destructor"
GraphInv ==
  /\ graphRefs = (IF pc[Caller] = "released" THEN 0 ELSE 1)
                   + (IF ExecutorHolds THEN 1 ELSE 0)
  /\ \A s \in Destroying : mRefCounted = 0 /\ \A t \in Destroying : s = t

\* What the control point of a strand says about its node.
StrandInv(s) ==
  /\ pc[s] \in Busy => node[s] \in Nodes /\ ran[node[s]] = 1
  /\ pc[s] = "run" => node[s] \notin finished
  /\ pc[s] = "successors" =>
       /\ node[s] \in finished
       /\ todo[s] \subseteq mSuccessories(node[s])
       /\ count[s] = 1 => finished = Nodes
  /\ pc[s] # "successors" => todo[s] = {}
  /\ ready[s] # {} => pc[s] \in {"loop", "successors"}
  /\ \A t \in Strands :
       pc[s] \in Busy /\ pc[t] \in Busy /\ node[s] = node[t] => s = t

\* A node is ready in at most one strand, and then has not run; when it is
\* ready or has run, nothing is left to count down.
NodeInv(n) ==
  /\ ran[n] \in {0, 1}
  /\ n \in finished => ran[n] = 1
  /\ ran[n] = 1 => Open(n) = {}
  /\ \A s \in Strands : n \in ready[s] =>
       /\ ran[n] = 0
       /\ Open(n) = {}
       /\ s = n => ready[s] = {n}
       /\ \A t \in Strands : n \in ready[t] => s = t
  /\ pc[n] # "off" => n \in ready[n] \/ ran[n] = 1
  /\ pc[n] \in Busy => ran[n] = 1

AllStrands == \A s \in Strands : StrandInv(s)
AllNodes   == \A n \in Nodes : NodeInv(n)

IInv ==
  /\ TypeOK
  /\ CountInv
  /\ TotalInv
  /\ RefInv
  /\ GraphInv
  /\ AllStrands
  /\ AllNodes
  /\ FinishMeansAllRan
-------------------------------------------------------------------------------
(***************************************************************************)
(* The sets that are counted.                                              *)
(***************************************************************************)

\* Every set that a counter of the executor stands for is finite.
LEMMA CountedSetsFinite ==
  /\ IsFiniteSet(Strands)
  /\ IsFiniteSet(Active)
  /\ IsFiniteSet(Nodes \ finished)
  /\ \A n \in Nodes : IsFiniteSet(Dependencies(n)) /\ IsFiniteSet(Open(n))
<1>1. IsFiniteSet(Strands)
  BY GraphAssumption, FS_AddElement DEF Strands
<1>2. IsFiniteSet(Active)
  BY <1>1, FS_Subset DEF Active
<1>3. IsFiniteSet(Nodes \ finished)
  BY GraphAssumption, FS_Subset
<1>4. ASSUME NEW n \in Nodes
      PROVE  IsFiniteSet(Dependencies(n)) /\ IsFiniteSet(Open(n))
  <2>1. Dependencies(n) \subseteq Nodes /\ Open(n) \subseteq Nodes
    BY DEF Dependencies, Open
  <2>. QED
    BY <2>1, GraphAssumption, FS_Subset
<1>. QED
  BY <1>1, <1>2, <1>3, <1>4

\* Removing an element that is there takes one from the size.
LEMMA SizeOfRemoved ==
  ASSUME NEW S, IsFiniteSet(S), NEW x \in S
  PROVE  /\ Cardinality(S) \in Nat
         /\ Cardinality(S) > 0
         /\ Cardinality(S \ {x}) = Cardinality(S) - 1
         /\ Cardinality(S) = 1 => S = {x}
<1>1. /\ Cardinality(S) \in Nat /\ IsFiniteSet(S \ {x})
      /\ Cardinality(S \ {x}) = Cardinality(S) - 1
  BY FS_CardinalityType, FS_RemoveElement
<1>2. Cardinality(S \ {x}) \in Nat
  BY <1>1, FS_CardinalityType
<1>3. Cardinality(S) = 1 => S \ {x} = {}
  BY <1>1, FS_EmptySet
<1>. QED
  BY <1>1, <1>2, <1>3

\* A strand that has a reference is counted.
LEMMA HolderIsCounted ==
  ASSUME RefInv, NEW s \in Active
  PROVE  mRefCounted \in Nat /\ mRefCounted > 0
BY CountedSetsFinite, SizeOfRemoved DEF RefInv

\* As long as the executor is referred to, nobody is in Destroy, and the graph
\* has the reference of the executor.
LEMMA ExecutorInUse ==
  ASSUME GraphInv, UNCHANGED graphRefs, mRefCounted > 0, mRefCounted' > 0,
         mRefCounted \in Nat, mRefCounted' \in Nat,
         (pc[Caller] = "released")' <=> pc[Caller] = "released",
         \A s \in Strands : s \notin Destroying => s \notin Destroying'
  PROVE  GraphInv'
<1>1. Destroying = {}
  BY DEF GraphInv
<1>2. Destroying' = {}
  BY <1>1 DEF Destroying
<1>3. ExecutorHolds /\ ExecutorHolds'
  BY DEF ExecutorHolds
<1>. QED
  BY <1>2, <1>3 DEF GraphInv

\* Nothing is counted as open, dropped or run at the start.
LEMMA InitIInv == Init => IInv
<1>. SUFFICES ASSUME Init PROVE IInv
  OBVIOUS
<1>. USE GraphAssumption DEF Strands
<1>1. \A n \in Nodes : Open(n) = Dependencies(n)
  BY DEF Init, Open, Pending
<1>2. /\ Cardinality(Nodes) \in Nat
      /\ \A n \in Nodes : Cardinality(Dependencies(n)) \in Nat
  BY CountedSetsFinite, FS_CardinalityType
<1>3. CountInv
  BY <1>1 DEF Init, CountInv, InitialCounts
<1>4. TotalInv
  <2>1. Nodes \ finished = Nodes
    BY DEF Init
  <2>. QED
    BY <2>1 DEF Init, TotalInv
<1>5. RefInv
  <2>1. Active = {Caller}
    BY DEF Init, Active
  <2>2. Cardinality(Active) = 1
    BY <2>1, FS_Singleton
  <2>. QED
    BY <2>2 DEF Init, RefInv
<1>10. GraphInv
  BY DEF Init, GraphInv, ExecutorHolds, Destroying
<1>6. TypeOK
  <2>1. mNodeCountInfo \in [Nodes -> Nat]
    BY <1>2 DEF Init, InitialCounts
  <2>. QED
    BY <2>1, <1>2 DEF Init, TypeOK
<1>7. AllStrands
  BY DEF Init, AllStrands, StrandInv, Busy
<1>8. AllNodes
  BY <1>1 DEF Init, AllNodes, NodeInv, Busy
<1>9. FinishMeansAllRan
  BY DEF Init, FinishMeansAllRan
<1>. QED
  BY <1>3, <1>4, <1>5, <1>6, <1>7, <1>8, <1>9, <1>10 DEF IInv
-------------------------------------------------------------------------------
(***************************************************************************)
(* One lemma per action: the step keeps IInv.                              *)
(***************************************************************************)

\* A node that goes to the work queue gets a strand that nobody has used, so
\* that its reference is a new one.
LEMMA EnqueueWorkIInv ==
  ASSUME IInv, NEW s \in Strands, NEW n \in Nodes, EnqueueWork(s, n)
  PROVE  IInv'
<1>. USE DEF IInv, EnqueueWork, executorVars, history
<1>. n \in Strands /\ s # n /\ pc[n] = "off"
  BY DEF AllNodes, NodeInv, Strands
<1>1. TypeOK'
  BY DEF TypeOK, Strands
<1>2. \A m \in Nodes : Open(m)' = Open(m)
  BY DEF TypeOK, Open, Pending, Dependencies
<1>3. CountInv'
  BY <1>2 DEF CountInv
<1>4. TotalInv'
  BY DEF TotalInv
<1>5. RefInv' /\ GraphInv'
  <2>1. Active' = Active \cup {n} /\ n \notin Active
    BY DEF Active, TypeOK
  <2>2. Cardinality(Active') = Cardinality(Active) + 1
    BY <2>1, CountedSetsFinite, FS_AddElement
  <2>3. mRefCounted > 0
    BY HolderIsCounted DEF Active
  <2>4. /\ (pc[Caller] = "released")' <=> pc[Caller] = "released"
        /\ \A t \in Strands : t \notin Destroying => t \notin Destroying'
    BY GraphAssumption DEF TypeOK, Strands, Destroying
  <2>5. GraphInv'
    BY <2>3, <2>4, ExecutorInUse DEF TypeOK
  <2>. QED
    BY <2>2, <2>5 DEF RefInv, TypeOK
<1>6. AllStrands'
  BY DEF AllStrands, StrandInv, TypeOK, Busy, mSuccessories
<1>7. AllNodes'
  <2>. SUFFICES ASSUME NEW m \in Nodes PROVE NodeInv(m)'
    BY DEF AllNodes
  <2>1. NodeInv(m) /\ NodeInv(n) /\ Open(m)' = Open(m)
    BY <1>2 DEF AllNodes
  <2>. m \in Strands
    BY DEF Strands
  <2>. QED
    BY <2>1 DEF NodeInv, TypeOK, Busy
<1>8. FinishMeansAllRan'
  BY DEF FinishMeansAllRan
<1>. QED
  BY <1>1, <1>3, <1>4, <1>5, <1>6, <1>7, <1>8

\* The node that runs was ready here and nowhere else, and had not run.
LEMMA RunNodeIInv ==
  ASSUME IInv, NEW s \in Strands, NEW n \in Nodes, RunNode(s, n)
  PROVE  IInv'
<1>. USE DEF IInv, RunNode, Goto, executorVars, refVars
<1>. n \in Strands /\ n \in ready[s] /\ ran[n] = 0 /\ n \notin finished
  BY DEF AllNodes, NodeInv, Strands
<1>1. TypeOK'
  BY DEF TypeOK, Strands
<1>2. \A m \in Nodes : Open(m)' = Open(m)
  BY DEF TypeOK, Open, Pending, Dependencies
<1>3. CountInv'
  BY <1>2 DEF CountInv
<1>4. TotalInv'
  BY DEF TotalInv
<1>5. RefInv' /\ GraphInv'
  <2>1. Active' = Active
    BY DEF Active, TypeOK
  <2>2. mRefCounted > 0
    BY HolderIsCounted DEF Active
  <2>3. /\ (pc[Caller] = "released")' <=> pc[Caller] = "released"
        /\ \A t \in Strands : t \notin Destroying => t \notin Destroying'
    BY GraphAssumption DEF TypeOK, Strands, Destroying
  <2>4. GraphInv'
    BY <2>2, <2>3, ExecutorInUse DEF TypeOK
  <2>. QED
    BY <2>1, <2>4 DEF RefInv
<1>6. AllStrands'
  BY DEF AllStrands, StrandInv, TypeOK, Busy, mSuccessories
<1>7. AllNodes'
  <2>. SUFFICES ASSUME NEW m \in Nodes PROVE NodeInv(m)'
    BY DEF AllNodes
  <2>1. NodeInv(m) /\ NodeInv(n) /\ Open(m)' = Open(m) /\ Open(n) = {}
    BY <1>2 DEF AllNodes, NodeInv
  <2>. m \in Strands
    BY DEF Strands
  <2>. QED
    BY <2>1 DEF NodeInv, TypeOK, Busy
<1>8. FinishMeansAllRan'
  BY DEF FinishMeansAllRan
<1>. QED
  BY <1>1, <1>3, <1>4, <1>5, <1>6, <1>7, <1>8

\* A node that returns is still open at each of its successors; the one that
\* finds a total of one is the last.
LEMMA FinishNodeIInv ==
  ASSUME IInv, NEW s \in Strands, FinishNode(s)
  PROVE  IInv'
<1>. USE DEF IInv, FinishNode, Goto, refVars
<1>. node[s] \in Nodes /\ node[s] \notin finished /\ ran[node[s]] = 1 /\ todo[s] = {}
  BY DEF AllStrands, StrandInv, Busy
<1>0. /\ Nodes \ finished' = (Nodes \ finished) \ {node[s]}
      /\ mTotalTaskCount > 0
      /\ Cardinality(Nodes \ finished') = mTotalTaskCount - 1
      /\ mTotalTaskCount = 1 => finished' = Nodes
  <2>1. Nodes \ finished' = (Nodes \ finished) \ {node[s]}
    OBVIOUS
  <2>2. IsFiniteSet(Nodes \ finished) /\ node[s] \in Nodes \ finished
    BY CountedSetsFinite
  <2>. HIDE DEF FinishNode
  <2>3. /\ mTotalTaskCount > 0
        /\ Cardinality((Nodes \ finished) \ {node[s]}) = mTotalTaskCount - 1
        /\ mTotalTaskCount = 1 => Nodes \ finished = {node[s]}
    BY <2>2, SizeOfRemoved DEF TotalInv
  <2>. QED
    BY <2>1, <2>3 DEF FinishNode, TypeOK
<1>1. TypeOK'
  BY <1>0 DEF TypeOK, mSuccessories
<1>2. \A m \in Nodes : Open(m)' = Open(m)
  <2>. SUFFICES ASSUME NEW m \in Nodes, NEW k \in Nodes, <<k, m>> \in edges
                PROVE  Pending(k, m)' <=> Pending(k, m)
    BY DEF Open, Dependencies
  <2>1. CASE k = node[s]
    BY <2>1 DEF Pending, TypeOK, mSuccessories
  <2>2. CASE k # node[s]
    BY <2>2 DEF Pending, TypeOK
  <2>. QED
    BY <2>1, <2>2
<1>3. CountInv'
  BY <1>2 DEF CountInv
<1>4. TotalInv'
  BY <1>0 DEF TotalInv
<1>5. RefInv' /\ GraphInv'
  <2>1. Active' = Active
    BY DEF Active, TypeOK
  <2>2. mRefCounted > 0
    BY HolderIsCounted DEF Active
  <2>3. /\ (pc[Caller] = "released")' <=> pc[Caller] = "released"
        /\ \A t \in Strands : t \notin Destroying => t \notin Destroying'
    BY GraphAssumption DEF TypeOK, Strands, Destroying
  <2>4. GraphInv'
    BY <2>2, <2>3, ExecutorInUse DEF TypeOK
  <2>. QED
    BY <2>1, <2>4 DEF RefInv
<1>6. AllStrands'
  <2>. SUFFICES ASSUME NEW t \in Strands PROVE StrandInv(t)'
    BY DEF AllStrands
  <2>1. StrandInv(t) /\ StrandInv(s)
    BY DEF AllStrands
  <2>2. CASE t = s
    BY <2>1, <2>2, <1>0 DEF StrandInv, TypeOK, Busy, mSuccessories
  <2>3. CASE t # s
    BY <2>1, <2>3, <1>0 DEF StrandInv, TypeOK, Busy, mSuccessories
  <2>. QED
    BY <2>2, <2>3
<1>7. AllNodes'
  <2>. SUFFICES ASSUME NEW m \in Nodes PROVE NodeInv(m)'
    BY DEF AllNodes
  <2>1. NodeInv(m) /\ Open(m)' = Open(m) /\ m \in Strands
    BY <1>2 DEF AllNodes, Strands
  <2>. QED
    BY <2>1 DEF NodeInv, TypeOK, Busy
<1>8. FinishMeansAllRan'
  BY DEF FinishMeansAllRan, TypeOK
<1>. QED
  BY <1>1, <1>3, <1>4, <1>5, <1>6, <1>7, <1>8

\* Counting a successor down closes this dependency there, and no other.
LEMMA CountDownIInv ==
  ASSUME IInv, NEW s \in Strands, NEW n \in Nodes, CountDown(s, n)
  PROVE  IInv'
<1>. USE DEF IInv, CountDown, history, refVars
<1>. node[s] \in finished /\ node[s] \in Nodes /\ <<node[s], n>> \in edges
  BY DEF AllStrands, StrandInv, Busy, mSuccessories
<1>0. node[s] \in Open(n)
  BY DEF Open, Pending, Dependencies
<1>1. \A m \in Nodes : m # n => Open(m)' = Open(m)
  BY DEF TypeOK, Open, Pending, Dependencies
<1>2. Open(n)' = Open(n) \ {node[s]}
  <2>1. \A t \in Strands : pc[t] = "successors" /\ node[t] = node[s] => t = s
    BY DEF AllStrands, StrandInv, Busy
  <2>2. ~ Pending(node[s], n)'
    BY <2>1 DEF Pending, TypeOK
  <2>3. \A k \in Nodes : k # node[s] => (Pending(k, n)' <=> Pending(k, n))
    BY DEF Pending, TypeOK
  <2>. QED
    BY <2>2, <2>3 DEF Open, Dependencies
<1>3. /\ mNodeCountInfo[n] \in Nat /\ mNodeCountInfo[n] > 0
      /\ Cardinality(Open(n)') = mNodeCountInfo[n] - 1
      /\ mNodeCountInfo[n] = 1 => Open(n)' = {}
  <2>1. IsFiniteSet(Open(n)) /\ mNodeCountInfo[n] = Cardinality(Open(n))
    BY CountedSetsFinite DEF CountInv
  <2>. HIDE DEF CountDown, IInv
  <2>2. /\ Cardinality(Open(n)) \in Nat /\ Cardinality(Open(n)) > 0
        /\ Cardinality(Open(n) \ {node[s]}) = Cardinality(Open(n)) - 1
        /\ Cardinality(Open(n)) = 1 => Open(n) = {node[s]}
    BY <1>0, <2>1, SizeOfRemoved
  <2>. QED
    BY <1>2, <2>1, <2>2
<1>4. TypeOK'
  BY <1>3 DEF TypeOK
<1>5. CountInv'
  <2>. SUFFICES ASSUME NEW m \in Nodes
                PROVE  mNodeCountInfo'[m] = Cardinality(Open(m)')
    BY DEF CountInv
  <2>1. CASE m = n
    BY <2>1, <1>3 DEF TypeOK
  <2>2. CASE m # n
    BY <2>2, <1>1 DEF TypeOK, CountInv
  <2>. QED
    BY <2>1, <2>2
<1>6. TotalInv'
  BY DEF TotalInv
<1>7. RefInv' /\ GraphInv'
  <2>1. Active' = Active
    BY DEF Active, TypeOK
  <2>2. mRefCounted > 0
    BY HolderIsCounted DEF Active
  <2>3. /\ (pc[Caller] = "released")' <=> pc[Caller] = "released"
        /\ \A t \in Strands : t \notin Destroying => t \notin Destroying'
    BY GraphAssumption DEF TypeOK, Strands, Destroying
  <2>4. GraphInv'
    BY <2>2, <2>3, ExecutorInUse DEF TypeOK
  <2>. QED
    BY <2>1, <2>4 DEF RefInv
<1>8. AllStrands'
  BY DEF AllStrands, StrandInv, TypeOK, Busy, mSuccessories
<1>9. AllNodes'
  <2>0. /\ NodeInv(n) /\ ran[n] = 0 /\ pc[n] \notin Busy
        /\ \A t \in Strands : n \notin ready[t]
    BY <1>0 DEF AllNodes, NodeInv, TypeOK, Strands
  <2>. SUFFICES ASSUME NEW m \in Nodes PROVE NodeInv(m)'
    BY DEF AllNodes
  <2>1. NodeInv(m) /\ m \in Strands
    BY DEF AllNodes, Strands
  <2>2. CASE m = n
    <3>1. s # n
      BY <2>0 DEF Busy
    <3>2. \A t \in Strands : n \in ready'[t] => t = s /\ Open(n)' = {}
      BY <2>0, <1>3 DEF TypeOK
    <3>3. ready'[n] = ready[n] /\ UNCHANGED <<ran, pc, finished>>
      BY <3>1, <2>1, <2>2 DEF TypeOK
    <3>. HIDE DEF CountDown, IInv
    <3>. QED
      BY <2>0, <2>1, <2>2, <3>1, <3>2, <3>3 DEF NodeInv
  <2>3. CASE m # n
    <3>1. Open(m)' = Open(m)
      BY <1>1, <2>3
    <3>2. \A t \in Strands : m \in ready'[t] <=> m \in ready[t]
      BY <2>3 DEF TypeOK
    <3>3. m \in ready[m] => m # s
      BY <2>1 DEF NodeInv, Busy
    <3>4. m \in ready[m] => ready'[m] = ready[m]
      BY <3>3, <2>1 DEF TypeOK
    <3>5. UNCHANGED <<ran, pc, finished>>
      OBVIOUS
    <3>. HIDE DEF CountDown, IInv
    <3>. QED
      BY <2>1, <3>1, <3>2, <3>4, <3>5 DEF NodeInv
  <2>. QED
    BY <2>2, <2>3
<1>10. FinishMeansAllRan'
  BY DEF FinishMeansAllRan
<1>. QED
  BY <1>4, <1>5, <1>6, <1>7, <1>8, <1>9, <1>10

\* The strand that resolves the chain has seen a total of one.
LEMMA EndOfNodeIInv ==
  ASSUME IInv, NEW s \in Strands, EndOfNode(s)
  PROVE  IInv'
<1>. USE DEF IInv, EndOfNode, Goto, refVars, history
<1>1. TypeOK'
  BY GraphAssumption DEF TypeOK, Strands
<1>2. \A m \in Nodes : Open(m)' = Open(m)
  BY GraphAssumption DEF TypeOK, Open, Pending, Dependencies, Strands
<1>3. CountInv' /\ TotalInv'
  BY <1>2 DEF CountInv, TotalInv
<1>4. RefInv' /\ GraphInv'
  <2>1. Active' = Active
    BY DEF Active, TypeOK
  <2>2. mRefCounted > 0
    BY HolderIsCounted DEF Active
  <2>3. /\ (pc[Caller] = "released")' <=> pc[Caller] = "released"
        /\ \A t \in Strands : t \notin Destroying => t \notin Destroying'
    BY GraphAssumption DEF TypeOK, Strands, Destroying
  <2>4. GraphInv'
    BY <2>2, <2>3, ExecutorInUse DEF TypeOK
  <2>. QED
    BY <2>1, <2>4 DEF RefInv
<1>5. AllStrands'
  BY GraphAssumption
  DEF AllStrands, StrandInv, TypeOK, Busy, mSuccessories, Strands
<1>6. AllNodes'
  <2>. SUFFICES ASSUME NEW m \in Nodes PROVE NodeInv(m)'
    BY DEF AllNodes
  <2>1. NodeInv(m) /\ Open(m)' = Open(m) /\ m \in Strands
    BY <1>2 DEF AllNodes, Strands
  <2>. QED
    BY <2>1 DEF NodeInv, TypeOK, Busy
<1>7. FinishMeansAllRan'
  BY DEF FinishMeansAllRan, AllStrands, StrandInv
<1>. QED
  BY <1>1, <1>3, <1>4, <1>5, <1>6, <1>7

\* A strand ends when its own node has run.
LEMMA EndOfStrandIInv ==
  ASSUME IInv, NEW s \in Strands, EndOfStrand(s)
  PROVE  IInv'
<1>. USE DEF IInv, EndOfStrand, Goto, executorVars, refVars, locals, history
<1>1. TypeOK'
  BY GraphAssumption DEF TypeOK, Strands
<1>2. \A m \in Nodes : Open(m)' = Open(m)
  BY GraphAssumption DEF TypeOK, Open, Pending, Dependencies, Strands
<1>3. CountInv' /\ TotalInv'
  BY <1>2 DEF CountInv, TotalInv
<1>4. RefInv' /\ GraphInv'
  <2>1. Active' = Active
    BY DEF Active, TypeOK
  <2>2. mRefCounted > 0
    BY HolderIsCounted DEF Active
  <2>3. /\ (pc[Caller] = "released")' <=> pc[Caller] = "released"
        /\ \A t \in Strands : t \notin Destroying => t \notin Destroying'
    BY GraphAssumption DEF TypeOK, Strands, Destroying
  <2>4. GraphInv'
    BY <2>2, <2>3, ExecutorInUse DEF TypeOK
  <2>. QED
    BY <2>1, <2>4 DEF RefInv
<1>5. AllStrands'
  BY GraphAssumption
  DEF AllStrands, StrandInv, TypeOK, Busy, mSuccessories, Strands
<1>6. AllNodes'
  <2>. SUFFICES ASSUME NEW m \in Nodes PROVE NodeInv(m)'
    BY DEF AllNodes
  <2>1. NodeInv(m) /\ Open(m)' = Open(m) /\ m \in Strands
    BY <1>2 DEF AllNodes, Strands
  <2>. QED
    BY <2>1 DEF NodeInv, TypeOK, Busy
<1>7. FinishMeansAllRan'
  BY DEF FinishMeansAllRan
<1>. QED
  BY <1>1, <1>3, <1>4, <1>5, <1>6, <1>7

\* Waiting changes nothing but the control point of the caller.
LEMMA AwaitIInv ==
  ASSUME IInv, Await
  PROVE  IInv'
<1>. USE DEF IInv, Await, Goto, executorVars, refVars, locals, history
<1>1. TypeOK'
  BY GraphAssumption DEF TypeOK, Strands
<1>2. \A m \in Nodes : Open(m)' = Open(m)
  BY GraphAssumption DEF TypeOK, Open, Pending, Dependencies, Strands
<1>3. CountInv' /\ TotalInv'
  BY <1>2 DEF CountInv, TotalInv
<1>4. RefInv' /\ GraphInv'
  <2>1. Active' = Active
    BY DEF Active, TypeOK
  <2>2. mRefCounted > 0
    BY HolderIsCounted, GraphAssumption DEF Active, Strands
  <2>3. /\ (pc[Caller] = "released")' <=> pc[Caller] = "released"
        /\ \A t \in Strands : t \notin Destroying => t \notin Destroying'
    BY GraphAssumption DEF TypeOK, Strands, Destroying
  <2>4. GraphInv'
    BY <2>2, <2>3, ExecutorInUse DEF TypeOK
  <2>. QED
    BY <2>1, <2>4 DEF RefInv
<1>5. AllStrands'
  BY GraphAssumption
  DEF AllStrands, StrandInv, TypeOK, Busy, mSuccessories, Strands
<1>6. AllNodes'
  <2>. SUFFICES ASSUME NEW m \in Nodes PROVE NodeInv(m)'
    BY DEF AllNodes
  <2>1. NodeInv(m) /\ Open(m)' = Open(m) /\ m \in Strands
    BY <1>2 DEF AllNodes, Strands
  <2>. QED
    BY <2>1 DEF NodeInv, TypeOK, Busy
<1>7. FinishMeansAllRan'
  BY DEF FinishMeansAllRan
<1>. QED
  BY <1>1, <1>3, <1>4, <1>5, <1>6, <1>7

\* A reference is dropped by a strand that has one; the strand that drops the
\* last one is the only one that goes on to Destroy.
LEMMA DropRefIInv ==
  ASSUME IInv, NEW s \in Strands, DropRef(s)
  PROVE  IInv'
<1>. USE DEF IInv, DropRef, Goto, executorVars, locals, history
<1>0. Active' = Active \ {s} /\ s \in Active
  BY DEF Active, TypeOK
<1>1. TypeOK'
  BY <1>0, HolderIsCounted, GraphAssumption DEF TypeOK, Strands
<1>2. \A m \in Nodes : Open(m)' = Open(m)
  BY GraphAssumption DEF TypeOK, Open, Pending, Dependencies, Strands
<1>3. CountInv' /\ TotalInv'
  BY <1>2 DEF CountInv, TotalInv
<1>4. RefInv' /\ GraphInv'
  <2>1. mRefCounted > 0 /\ Cardinality(Active') = mRefCounted - 1
    BY <1>0, CountedSetsFinite, SizeOfRemoved DEF RefInv
  <2>2. (pc[Caller] = "released")' <=> pc[Caller] = "released"
    BY GraphAssumption DEF TypeOK, Strands
  <2>3. CASE mRefCounted = 1
    <3>1. Destroying = {} /\ ExecutorHolds
      BY <2>1 DEF GraphInv, ExecutorHolds
    <3>2. Destroying' = {s} /\ ExecutorHolds' /\ mRefCounted' = 0
      BY <2>3, <3>1 DEF Destroying, ExecutorHolds, TypeOK
    <3>. QED
      BY <2>1, <2>2, <3>1, <3>2 DEF RefInv, GraphInv
  <2>4. CASE mRefCounted # 1
    <3>1. mRefCounted' > 0 /\ \A t \in Strands : t \notin Destroying => t \notin Destroying'
      BY <2>1, <2>4 DEF Destroying, TypeOK
    <3>2. GraphInv'
      BY <2>1, <2>2, <3>1, <1>1, ExecutorInUse DEF TypeOK
    <3>. QED
      BY <2>1, <3>2 DEF RefInv
  <2>. QED
    BY <2>3, <2>4
<1>5. AllStrands'
  BY GraphAssumption
  DEF AllStrands, StrandInv, TypeOK, Busy, mSuccessories, Strands
<1>6. AllNodes'
  <2>. SUFFICES ASSUME NEW m \in Nodes PROVE NodeInv(m)'
    BY DEF AllNodes
  <2>1. NodeInv(m) /\ Open(m)' = Open(m) /\ m \in Strands
    BY <1>2 DEF AllNodes, Strands
  <2>. QED
    BY <2>1 DEF NodeInv, TypeOK, Busy
<1>7. FinishMeansAllRan'
  BY DEF FinishMeansAllRan
<1>. QED
  BY <1>1, <1>3, <1>4, <1>5, <1>6, <1>7

\* The destructor gives back the one reference that the executor has.
LEMMA DestructorIInv ==
  ASSUME IInv, NEW s \in Strands, Destructor(s)
  PROVE  IInv'
<1>. USE DEF IInv, Destructor, Goto, executorVars, locals, history
<1>1. TypeOK'
  BY GraphAssumption DEF TypeOK, GraphInv, ExecutorHolds, Strands
<1>2. \A m \in Nodes : Open(m)' = Open(m)
  BY GraphAssumption DEF TypeOK, Open, Pending, Dependencies, Strands
<1>3. CountInv' /\ TotalInv'
  BY <1>2 DEF CountInv, TotalInv
<1>4. RefInv' /\ GraphInv'
  <2>1. Active' = Active /\ Destroying' = Destroying /\ s \in Destroying
    BY DEF Active, Destroying, TypeOK
  <2>2. mRefCounted = 0 /\ \A t \in Strands : pc[t] = "destructor" => t = s
    BY <2>1 DEF GraphInv, Destroying
  <2>3. ExecutorHolds /\ ~ ExecutorHolds'
    BY <2>2 DEF ExecutorHolds, TypeOK
  <2>4. (pc[Caller] = "released")' <=> pc[Caller] = "released"
    BY GraphAssumption DEF TypeOK, Strands
  <2>. QED
    BY <2>1, <2>3, <2>4 DEF RefInv, GraphInv, TypeOK
<1>5. AllStrands'
  BY GraphAssumption
  DEF AllStrands, StrandInv, TypeOK, Busy, mSuccessories, Strands
<1>6. AllNodes'
  <2>. SUFFICES ASSUME NEW m \in Nodes PROVE NodeInv(m)'
    BY DEF AllNodes
  <2>1. NodeInv(m) /\ Open(m)' = Open(m) /\ m \in Strands
    BY <1>2 DEF AllNodes, Strands
  <2>. QED
    BY <2>1 DEF NodeInv, TypeOK, Busy
<1>7. FinishMeansAllRan'
  BY DEF FinishMeansAllRan
<1>. QED
  BY <1>1, <1>3, <1>4, <1>5, <1>6, <1>7

\* Deallocate changes nothing but the control point of the strand.
LEMMA DeallocateIInv ==
  ASSUME IInv, NEW s \in Strands, Deallocate(s)
  PROVE  IInv'
<1>. USE DEF IInv, Deallocate, Goto, executorVars, refVars, locals, history
<1>1. TypeOK'
  BY GraphAssumption DEF TypeOK, Strands
<1>2. \A m \in Nodes : Open(m)' = Open(m)
  BY GraphAssumption DEF TypeOK, Open, Pending, Dependencies, Strands
<1>3. CountInv' /\ TotalInv'
  BY <1>2 DEF CountInv, TotalInv
<1>4. RefInv' /\ GraphInv'
  <2>1. Active' = Active /\ Destroying' = Destroying \ {s}
    BY DEF Active, Destroying, TypeOK
  <2>2. ExecutorHolds' <=> ExecutorHolds
    BY DEF ExecutorHolds, TypeOK
  <2>3. (pc[Caller] = "released")' <=> pc[Caller] = "released"
    BY GraphAssumption DEF TypeOK, Strands
  <2>. QED
    BY <2>1, <2>2, <2>3 DEF RefInv, GraphInv
<1>5. AllStrands'
  BY GraphAssumption
  DEF AllStrands, StrandInv, TypeOK, Busy, mSuccessories, Strands
<1>6. AllNodes'
  <2>. SUFFICES ASSUME NEW m \in Nodes PROVE NodeInv(m)'
    BY DEF AllNodes
  <2>1. NodeInv(m) /\ Open(m)' = Open(m) /\ m \in Strands
    BY <1>2 DEF AllNodes, Strands
  <2>. QED
    BY <2>1 DEF NodeInv, TypeOK, Busy
<1>7. FinishMeansAllRan'
  BY DEF FinishMeansAllRan
<1>. QED
  BY <1>1, <1>3, <1>4, <1>5, <1>6, <1>7

\* The user lets go of a reference that the executor does not count on.
LEMMA ReleaseGraphIInv ==
  ASSUME IInv, ReleaseGraph
  PROVE  IInv'
<1>. USE DEF IInv, ReleaseGraph, Goto, executorVars, locals, history
<1>1. TypeOK'
  BY GraphAssumption DEF TypeOK, GraphInv, Strands
<1>2. \A m \in Nodes : Open(m)' = Open(m)
  BY GraphAssumption DEF TypeOK, Open, Pending, Dependencies, Strands
<1>3. CountInv' /\ TotalInv'
  BY <1>2 DEF CountInv, TotalInv
<1>4. RefInv' /\ GraphInv'
  <2>1. Active' = Active /\ Destroying' = Destroying
    BY GraphAssumption DEF Active, Destroying, TypeOK, Strands
  <2>2. ExecutorHolds' <=> ExecutorHolds
    BY GraphAssumption DEF ExecutorHolds, TypeOK, Strands
  <2>. QED
    BY <2>1, <2>2, GraphAssumption DEF RefInv, GraphInv, TypeOK, Strands
<1>5. AllStrands'
  BY GraphAssumption
  DEF AllStrands, StrandInv, TypeOK, Busy, mSuccessories, Strands
<1>6. AllNodes'
  <2>. SUFFICES ASSUME NEW m \in Nodes PROVE NodeInv(m)'
    BY DEF AllNodes
  <2>1. NodeInv(m) /\ Open(m)' = Open(m) /\ m \in Strands
    BY <1>2 DEF AllNodes, Strands
  <2>. QED
    BY <2>1 DEF NodeInv, TypeOK, Busy
<1>7. FinishMeansAllRan'
  BY DEF FinishMeansAllRan
<1>. QED
  BY <1>1, <1>3, <1>4, <1>5, <1>6, <1>7
-------------------------------------------------------------------------------
(***************************************************************************)
(* The theorems.                                                           *)
(***************************************************************************)

\* The counters of the executor count what they are meant to, in every state.
THEOREM CountersExact == Spec => []IInv
<1>1. IInv /\ [Next]_vars => IInv'
  <2>. SUFFICES ASSUME IInv, [Next]_vars PROVE IInv'
    OBVIOUS
  <2>1. CASE \E s \in Strands : StrandStep(s)
    BY <2>1, EnqueueWorkIInv, RunNodeIInv, CountDownIInv, FinishNodeIInv,
       EndOfNodeIInv, EndOfStrandIInv, DropRefIInv, DestructorIInv,
       DeallocateIInv DEF StrandStep
  <2>2. CASE Await
    BY <2>2, AwaitIInv
  <2>3. CASE ReleaseGraph
    BY <2>3, ReleaseGraphIInv
  <2>4. CASE UNCHANGED vars
    <3>. USE <2>4 DEF vars, executorVars, refVars, locals, history
    <3>1. \A n \in Nodes : Open(n)' = Open(n)
      BY DEF Open, Pending, Dependencies
    <3>2. Active' = Active /\ Destroying' = Destroying /\ (ExecutorHolds' <=> ExecutorHolds)
      BY DEF Active, Destroying, ExecutorHolds
    <3>3. TypeOK' /\ FinishMeansAllRan'
      BY DEF IInv, TypeOK, FinishMeansAllRan
    <3>4. CountInv' /\ TotalInv' /\ RefInv' /\ GraphInv'
      BY <3>1, <3>2 DEF IInv, CountInv, TotalInv, RefInv, GraphInv
    <3>5. AllStrands'
      BY DEF IInv, AllStrands, StrandInv, mSuccessories
    <3>6. AllNodes'
      BY <3>1 DEF IInv, AllNodes, NodeInv
    <3>. QED
      BY <3>3, <3>4, <3>5, <3>6 DEF IInv
  <2>. QED
    BY <2>1, <2>2, <2>3, <2>4 DEF Next, Terminated
<1>. QED
  BY <1>1, InitIInv, PTL DEF Spec

\* No counter of the executor falls below zero, whatever the graph.
THEOREM TypeCorrect == Spec => []TypeOK
<1>1. IInv => TypeOK
  BY DEF IInv
<1>. QED
  BY <1>1, CountersExact, PTL

\* In any finite graph, a node runs once, after all that it depends on: it is
\* ready only when nothing is open at it, and open is what has not returned.
THEOREM NodesRunOnceInOrder == Spec => []RunsOnceInOrder
<1>1. IInv => RunsOnceInOrder
  BY DEF IInv, AllNodes, NodeInv, RunsOnceInOrder, Open, Pending, Dependencies
<1>. QED
  BY <1>1, CountersExact, PTL

\* In any finite graph, the chain that Await waits for is resolved after the
\* last node has returned, whichever strand ran that one.
THEOREM FinishAfterLast == Spec => []FinishMeansAllRan
<1>1. IInv => FinishMeansAllRan
  BY DEF IInv
<1>. QED
  BY <1>1, CountersExact, PTL

\* For any number of strands, the executor outlives those that work with it and is
\* destroyed by one of them, and the graph outlives the executor up to the end of
\* its destructor.  What Destroy reads of the graph after that is alive as long
\* as the user has the graph.
THEOREM OutlivesStrands == Spec => []AliveWhileUsed
<1>1. ASSUME IInv PROVE AliveWhileUsed
  <2>1. ASSUME NEW s \in Active
        PROVE  mRefCounted > 0 /\ Destroying = {} /\ graphRefs > 0
    <3>1. mRefCounted \in Nat /\ mRefCounted > 0
      BY <1>1, HolderIsCounted DEF IInv
    <3>. QED
      BY <1>1, <3>1 DEF IInv, GraphInv, ExecutorHolds
  <2>2. ASSUME NEW s \in Destroying, pc[s] = "destructor" \/ pc[Caller] # "released"
        PROVE  graphRefs > 0
    BY <1>1, <2>2 DEF IInv, GraphInv, ExecutorHolds, Destroying
  <2>3. \A s, t \in Destroying : s = t
    BY <1>1 DEF IInv, GraphInv
  <2>. QED
    BY <2>1, <2>2, <2>3 DEF AliveWhileUsed
<1>. QED
  BY <1>1, CountersExact, PTL
===============================================================================
