------------------------------- MODULE TaskQueue -------------------------------
(***************************************************************************)
(* TaskQueue (concurrent/task_queue.h): the bounded multi-producer,        *)
(* multi-consumer queue of a blocking worker.  Every element carries a     *)
(* ticket (state) that says whose turn it is; the indices are 32-bit       *)
(* counters, here counters modulo IndexMod, and tickets are compared as    *)
(* int64_t, that is, without wrapping.                                     *)
(*                                                                         *)
(* A step is one access to a shared word; a claimed element's task is      *)
(* moved in the same step as the store to its ticket.                      *)
(***************************************************************************)
EXTENDS Integers, Sequences, FiniteSets

CONSTANTS Threads,
          kCapacity,
          IndexMod,  \* number of values of an unsigned (2^32)
          Start,     \* tasks pushed and popped before the model begins
          MaxPush    \* bound: tasks pushed; task n is the n-th

ASSUME QueueAssumption ==
  /\ IsFiniteSet(Threads)
  /\ kCapacity \in Nat /\ kCapacity > 2
  /\ IndexMod \in Nat /\ IndexMod > kCapacity /\ IndexMod % kCapacity = 0
  /\ Start \in Nat /\ MaxPush \in Nat

VARIABLES
  mFront, mBack,
  elem,          \* mArray: [state, task]
  pc, task,      \* per thread: control point, task in its hands (0: none)
  index, other,  \* per thread: local front or back; Size: back
  pushed,        \* bound: PushFront calls
  order,         \* history: tasks in the order their element was claimed
  taken,         \* history: number of elements PopBack has claimed
  rank,          \* history, per thread: the number of its claim
  real           \* history, per thread in Size: fewest tasks since it read mFront

vars == <<mFront, mBack, elem, pc, task, index, other, pushed, order, taken,
          rank, real>>
shared  == <<mFront, mBack, elem>>
history == <<pushed, order, taken, rank, real>>

Slots == 0 .. kCapacity - 1
At(i) == i % kCapacity
Plus(i, n) == (i + n) % IndexMod

\* The ticket of an element that is free for its next turn after Start turns.
FirstTicket(i) == (Start + ((i - Start) % kCapacity)) % IndexMod

Init ==
  /\ mFront = Start % IndexMod /\ mBack = Start % IndexMod
  /\ elem = [i \in Slots |-> [state |-> FirstTicket(i), task |-> 0]]
  /\ pc = [t \in Threads |-> "idle"]
  /\ task = [t \in Threads |-> 0]
  /\ index = [t \in Threads |-> 0]
  /\ other = [t \in Threads |-> 0]
  /\ pushed = 0 /\ order = <<>> /\ taken = 0
  /\ rank = [t \in Threads |-> 0]
  /\ real = [t \in Threads |-> 0]

Goto(t, to) == pc' = [pc EXCEPT ![t] = to]
Load(t, i) == index' = [index EXCEPT ![t] = i]
\* The locals are dead between calls.
Return(t) ==
  /\ Goto(t, "idle")
  /\ index' = [index EXCEPT ![t] = 0]
  /\ other' = [other EXCEPT ![t] = 0]

(***************************************************************************)
(* PushFront.                                                              *)
(***************************************************************************)
PushFront(t) ==
  /\ pc[t] = "idle" /\ pushed < MaxPush
  /\ pushed' = pushed + 1
  /\ task' = [task EXCEPT ![t] = pushed + 1]
  /\ Load(t, mFront)
  /\ Goto(t, "push")
  /\ UNCHANGED <<shared, other, order, taken, rank, real>>

PushDiff(t) == elem[At(index[t])].state - index[t]

\* The element's ticket says: free, one turn behind (the queue is full and the
\* caller gets the task back), or ahead (another thread was faster).
PushLoad(t) ==
  /\ pc[t] = "push"
  /\ \/ PushDiff(t) = 0 /\ Goto(t, "pushCas") /\ UNCHANGED <<task, index, other>>
     \/ PushDiff(t) < 0 /\ Return(t) /\ task' = [task EXCEPT ![t] = 0]
     \/ PushDiff(t) > 0 /\ Load(t, mFront) /\ UNCHANGED <<pc, task, other>>
  /\ UNCHANGED <<shared, history>>

\* A failed exchange leaves the current index in the local.
PushCas(t) ==
  /\ pc[t] = "pushCas"
  /\ \/ /\ mFront = index[t]
        /\ mFront' = Plus(mFront, 1)
        /\ order' = Append(order, task[t])
        /\ Goto(t, "pushStore")
        /\ UNCHANGED index
     \/ /\ mFront # index[t]
        /\ Load(t, mFront)
        /\ Goto(t, "push")
        /\ UNCHANGED <<mFront, order>>
  /\ UNCHANGED <<mBack, elem, task, other, pushed, taken, rank, real>>

PushStore(t) ==
  /\ pc[t] = "pushStore"
  /\ elem' = [elem EXCEPT ![At(index[t])] =
                [state |-> Plus(index[t], 1), task |-> task[t]]]
  /\ task' = [task EXCEPT ![t] = 0]
  /\ Return(t)
  /\ UNCHANGED <<mFront, mBack, history>>

(***************************************************************************)
(* PopBack.                                                                *)
(***************************************************************************)
PopBack(t) ==
  /\ pc[t] = "idle"
  /\ Load(t, mBack)
  /\ Goto(t, "pop")
  /\ UNCHANGED <<shared, task, other, history>>

\* Mutant: a free element is taken for a ready one.
PopDiffFree(t) == elem[At(index[t])].state - index[t]

PopDiff(t) == elem[At(index[t])].state - Plus(index[t], 1)

PopLoad(t) ==
  /\ pc[t] = "pop"
  /\ \/ PopDiff(t) = 0 /\ Goto(t, "popCas") /\ UNCHANGED <<index, other>>
     \/ PopDiff(t) < 0 /\ Return(t)
     \/ PopDiff(t) > 0 /\ Load(t, mBack) /\ UNCHANGED <<pc, other>>
  /\ UNCHANGED <<shared, task, history>>

PopCas(t) ==
  /\ pc[t] = "popCas"
  /\ \/ /\ mBack = index[t]
        /\ mBack' = Plus(mBack, 1)
        /\ taken' = taken + 1
        /\ rank' = [rank EXCEPT ![t] = taken + 1]
        /\ Goto(t, "popStore")
        /\ UNCHANGED index
     \/ /\ mBack # index[t]
        /\ Load(t, mBack)
        /\ Goto(t, "pop")
        /\ UNCHANGED <<mBack, taken, rank>>
  /\ real' = [s \in Threads |->
                IF Len(order) - taken' < real[s] THEN Len(order) - taken' ELSE real[s]]
  /\ UNCHANGED <<mFront, elem, task, other, pushed, order>>

PopStore(t) ==
  /\ pc[t] = "popStore"
  /\ elem' = [elem EXCEPT ![At(index[t])] =
                [state |-> Plus(index[t], kCapacity), task |-> 0]]
  /\ rank' = [rank EXCEPT ![t] = 0]
  /\ Return(t)
  /\ UNCHANGED <<mFront, mBack, task, pushed, order, taken, real>>

(***************************************************************************)
(* Size: read front, back and front again until the reads of front agree.  *)
(***************************************************************************)
Size(t) ==
  /\ pc[t] = "idle"
  /\ Load(t, mFront)
  /\ real' = [real EXCEPT ![t] = Len(order) - taken]
  /\ Goto(t, "sizeBack")
  /\ UNCHANGED <<shared, task, other, pushed, order, taken, rank>>

SizeBack(t) ==
  /\ pc[t] = "sizeBack"
  /\ other' = [other EXCEPT ![t] = mBack]
  /\ Goto(t, "sizeFront")
  /\ UNCHANGED <<shared, task, index, history>>

\* Mutant: the snapshot of front and back is not checked for consistency.
SizeFrontOnce(t) ==
  /\ pc[t] = "sizeFront"
  /\ Goto(t, "sizeKnown")
  /\ UNCHANGED <<shared, task, index, other, history>>

SizeFront(t) ==
  /\ pc[t] = "sizeFront"
  /\ Load(t, mFront)
  /\ Goto(t, IF mFront = index[t] THEN "sizeKnown" ELSE "sizeBack")
  /\ UNCHANGED <<shared, task, other, history>>

SizeResult(t) ==
  LET n == (index[t] - other[t]) % IndexMod IN IF n < kCapacity THEN n ELSE kCapacity

SizeReturn(t) ==
  /\ pc[t] = "sizeKnown"
  /\ Return(t)
  /\ real' = [real EXCEPT ![t] = 0]
  /\ UNCHANGED <<shared, task, pushed, order, taken, rank>>

PushStep(t) == PushLoad(t) \/ PushCas(t) \/ PushStore(t)
PopStep(t)  == PopLoad(t) \/ PopCas(t) \/ PopStore(t)
SizeStep(t) == SizeBack(t) \/ SizeFront(t) \/ SizeReturn(t)
CallStep(t) == PushStep(t) \/ PopStep(t) \/ SizeStep(t)

Next == \E t \in Threads : PushFront(t) \/ PopBack(t) \/ Size(t) \/ CallStep(t)

Spec == Init /\ [][Next]_vars
-------------------------------------------------------------------------------
(***************************************************************************)
(* Properties                                                              *)
(***************************************************************************)

\* Every variable keeps its type: the indices and tickets are unsigned.
TypeOK ==
  /\ mFront \in 0 .. IndexMod - 1 /\ mBack \in 0 .. IndexMod - 1
  /\ elem \in [Slots -> [state : 0 .. IndexMod - 1, task : 0 .. MaxPush]]
  /\ task \in [Threads -> 0 .. MaxPush]
  /\ index \in [Threads -> 0 .. IndexMod - 1]
  /\ taken \in 0 .. MaxPush

\* First in, first out, nothing lost and nothing twice: the n-th PopBack to
\* claim an element finds in it the task of the n-th PushFront, whichever
\* threads raced for the indices and however often the ring went round.
FirstInFirstOut ==
  \A t \in Threads : pc[t] = "popStore" =>
    /\ rank[t] <= Len(order)
    /\ elem[At(index[t])].task = order[rank[t]]

\* "It never can be smaller" (the comment on Size): the answer is at least the
\* smallest number of tasks the queue had during the call.  Zero makes a worker
\* park.
SizeNeverSmaller ==
  /\ TypeOK
  /\ \A t \in Threads : pc[t] = "sizeKnown" => SizeResult(t) >= real[t]
===============================================================================
