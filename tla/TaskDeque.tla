------------------------------- MODULE TaskDeque -------------------------------
(***************************************************************************)
(* TaskDeque (concurrent/task_deque.h): the bounded run queue of a worker. *)
(* Its owner pushes and pops at the front without a lock; any other thread *)
(* pushes and pops at the back under mMutex; everybody may ask whether it  *)
(* is empty.                                                               *)
(*                                                                         *)
(* A step is one access to a shared word.  A load of a slot's state and    *)
(* the strong compare-exchange after it are one step (whatever the load    *)
(* saw, the operation either claims the slot in the exchange or gives up), *)
(* and so are the plain write or read of a claimed slot's task and the     *)
(* store that releases the slot.                                           *)
(***************************************************************************)
EXTENDS Integers, FiniteSets

CONSTANTS Owner,       \* the worker the deque belongs to
          Thieves,     \* all other threads
          kCapacity,   \* number of slots
          CounterMod,  \* values of the modification counter above the index
          BackOps,     \* what thieves call besides PushBack and Empty
          MaxPush,     \* bound: tasks pushed in all; task n is the n-th
          Nobody       \* mMutex is free

ASSUME CapacityAssumption ==
  /\ kCapacity \in Nat /\ kCapacity > 2
  /\ CounterMod \in Nat \ {0}
  /\ BackOps \subseteq {"PopBack", "PopBackHalf"}
  /\ MaxPush \in Nat
  /\ Owner \notin Thieves /\ Nobody \notin Thieves \cup {Owner}
  /\ IsFiniteSet(Thieves)

VARIABLES
  mFront, mBack,    \* rolling index (low bits) and modification counter
  slot,             \* mArray: [state, task]
  mMutex,           \* the thief that holds the lock, or Nobody
  pc, op,           \* per thread: control point and operation
  task,             \* per thread: the task in its hands (0: none)
  front, back,      \* per thread: local copies of the index words
  mid, start,       \* per thread: locals of PopBackHalf
  pushed,           \* bound and names: tasks offered so far
  popped,           \* history: how often each task was taken out or refused
  sawEmpty          \* history, per thread inside Empty: the deque has been
                    \* empty at some moment of the call

vars == <<mFront, mBack, slot, mMutex, pc, op, task, front, back, mid, start,
          pushed, popped, sawEmpty>>
shared == <<mFront, mBack, slot, mMutex>>
locals == <<front, back, mid, start>>
history == <<pushed, popped, sawEmpty>>

Threads == Thieves \cup {Owner}
Tasks == 1 .. MaxPush
kMask2 == 2 * kCapacity                     \* index values; the mask is one less
IndexMod == kMask2 * CounterMod             \* 2^32 in the code
kIncrement == kMask2 + 1
Slots == 0 .. kCapacity - 1
At(i) == i % kCapacity                      \* & kMask

\* One index further with a counter tick, and one index back without.
Advance(i) == (i + kIncrement) % IndexMod
Retreat(i) == ((i - 1) % kMask2) + (i \div kMask2) * kMask2

Init ==
  /\ mFront = 0 /\ mBack = 0
  /\ slot = [i \in Slots |-> [state |-> "kEmpty", task |-> 0]]
  /\ mMutex = Nobody
  /\ pc = [t \in Threads |-> "idle"]
  /\ op = [t \in Threads |-> "none"]
  /\ task = [t \in Threads |-> 0]
  /\ front = [t \in Threads |-> 0]
  /\ back = [t \in Threads |-> 0]
  /\ mid = [t \in Threads |-> 0]
  /\ start = [t \in Threads |-> 0]
  /\ pushed = 0
  /\ popped = [x \in Tasks |-> 0]
  /\ sawEmpty = [t \in Threads |-> FALSE]

Goto(t, to) == pc' = [pc EXCEPT ![t] = to]
\* The locals are dead between operations.
Return(t) ==
  /\ Goto(t, "idle")
  /\ op' = [op EXCEPT ![t] = "none"]
  /\ front' = [front EXCEPT ![t] = 0]
  /\ back' = [back EXCEPT ![t] = 0]
  /\ mid' = [mid EXCEPT ![t] = 0]
  /\ start' = [start EXCEPT ![t] = 0]

SetSlot(i, s, x) == slot' = [slot EXCEPT ![i] = [state |-> s, task |-> x]]
InDeque == {x \in Tasks : \E i \in Slots : slot[i] = [state |-> "kReady", task |-> x]}

\* A claimed task is no longer in the deque.
Claimed(i) ==
  sawEmpty' = [t \in Threads |->
    \/ sawEmpty[t]
    \/ pc[t] \in {"readBack", "readFront"} /\ InDeque \subseteq {slot[i].task}]
Take(t, x) ==
  /\ task' = [task EXCEPT ![t] = 0]
  /\ popped' = [popped EXCEPT ![x] = @ + 1]

(***************************************************************************)
(* PushFront and PushBack: claim the slot (or hand the task back to the    *)
(* caller), move the index, publish the task.                              *)
(***************************************************************************)
Offer(t) ==
  /\ pushed < MaxPush
  /\ pushed' = pushed + 1

PushFrontClaim ==
  /\ pc[Owner] = "idle"
  /\ Offer(Owner)
  /\ LET i == At(mFront) IN
     \/ /\ slot[i].state = "kEmpty"
        /\ SetSlot(i, "kBusy", 0)
        /\ task' = [task EXCEPT ![Owner] = pushed']
        /\ front' = [front EXCEPT ![Owner] = mFront]
        /\ Goto(Owner, "pushFront")
        /\ UNCHANGED popped
     \/ /\ slot[i].state # "kEmpty"
        /\ popped' = [popped EXCEPT ![pushed'] = @ + 1]
        /\ UNCHANGED <<slot, task, front, pc>>
  /\ UNCHANGED <<mFront, mBack, mMutex, op, back, mid, start, sawEmpty>>

PushFrontMove ==
  /\ pc[Owner] = "pushFront"
  /\ mFront' = Advance(front[Owner])
  /\ Goto(Owner, "publishFront")
  /\ UNCHANGED <<mBack, slot, mMutex, op, task, locals, history>>

PushFrontPublish ==
  /\ pc[Owner] = "publishFront"
  /\ SetSlot(At(front[Owner]), "kReady", task[Owner])
  /\ task' = [task EXCEPT ![Owner] = 0]
  /\ Return(Owner)
  /\ UNCHANGED <<mFront, mBack, mMutex, history>>

PushFront == PushFrontClaim \/ PushFrontMove \/ PushFrontPublish

PushBackClaim(t) ==
  /\ pc[t] = "idle" /\ mMutex = Nobody
  /\ Offer(t)
  /\ LET i == At(mBack - 1) IN
     \/ /\ slot[i].state = "kEmpty"
        /\ SetSlot(i, "kBusy", 0)
        /\ mMutex' = t
        /\ task' = [task EXCEPT ![t] = pushed']
        /\ back' = [back EXCEPT ![t] = Retreat(mBack)]
        /\ Goto(t, "pushBack")
        /\ UNCHANGED popped
     \/ /\ slot[i].state # "kEmpty"
        /\ popped' = [popped EXCEPT ![pushed'] = @ + 1]
        /\ UNCHANGED <<slot, mMutex, task, back, pc>>
  /\ UNCHANGED <<mFront, mBack, op, front, mid, start, sawEmpty>>

PushBackMove(t) ==
  /\ pc[t] = "pushBack"
  /\ mBack' = back[t]
  /\ Goto(t, "publishBack")
  /\ UNCHANGED <<mFront, slot, mMutex, op, task, locals, history>>

PushBackPublish(t) ==
  /\ pc[t] = "publishBack"
  /\ SetSlot(At(back[t]), "kReady", task[t])
  /\ task' = [task EXCEPT ![t] = 0]
  /\ mMutex' = Nobody
  /\ Return(t)
  /\ UNCHANGED <<mFront, mBack, history>>

PushBack(t) == PushBackClaim(t) \/ PushBackMove(t) \/ PushBackPublish(t)

(***************************************************************************)
(* PopFront: claim the slot before the front, empty it, move the index.    *)
(***************************************************************************)
PopFrontClaim ==
  /\ pc[Owner] = "idle"
  /\ LET i == At(mFront - 1) IN
     /\ slot[i].state = "kReady"
     /\ SetSlot(i, "kBusy", slot[i].task)
     /\ Claimed(i)
  /\ front' = [front EXCEPT ![Owner] = Retreat(mFront)]
  /\ Goto(Owner, "popFront")
  /\ UNCHANGED <<mFront, mBack, mMutex, op, task, back, mid, start, pushed, popped>>

PopFrontTake ==
  /\ pc[Owner] = "popFront"
  /\ LET i == At(front[Owner]) IN Take(Owner, slot[i].task) /\ SetSlot(i, "kEmpty", 0)
  /\ Goto(Owner, "popFrontMove")
  /\ UNCHANGED <<mFront, mBack, mMutex, op, locals, pushed, sawEmpty>>

PopFrontMove ==
  /\ pc[Owner] = "popFrontMove"
  /\ mFront' = front[Owner]
  /\ Return(Owner)
  /\ UNCHANGED <<mBack, slot, mMutex, task, history>>

PopFront == PopFrontClaim \/ PopFrontTake \/ PopFrontMove

(***************************************************************************)
(* SizeOrNotEmpty: read front, back and front again until the two reads of *)
(* the front agree.                                                        *)
(***************************************************************************)
CalculateSize(f, b) ==
  LET size == (f % kMask2) - (b % kMask2)
  IN IF size < 0 THEN size + kMask2 ELSE size

MaybeZero(f, b) == (f % kMask2) = (b % kMask2)

EmptyCall(t, o) ==
  /\ pc[t] = "idle"
  /\ op' = [op EXCEPT ![t] = o]
  /\ front' = [front EXCEPT ![t] = mFront]
  /\ sawEmpty' = [sawEmpty EXCEPT ![t] = InDeque = {}]
  /\ Goto(t, "readBack")
  /\ UNCHANGED <<shared, task, back, mid, start, pushed, popped>>

EmptyReadBack(t) ==
  /\ pc[t] = "readBack"
  /\ back' = [back EXCEPT ![t] = mBack]
  /\ Goto(t, "readFront")
  /\ UNCHANGED <<shared, op, task, front, mid, start, history>>

\* Mutant: front and back are not compared with a second look at the front.
EmptyReadFrontOnce(t) ==
  /\ pc[t] = "readFront"
  /\ Goto(t, IF MaybeZero(front[t], back[t]) THEN "saysEmpty" ELSE "saysNotEmpty")
  /\ UNCHANGED <<shared, op, task, locals, history>>

EmptyReadFront(t) ==
  /\ pc[t] = "readFront"
  /\ front' = [front EXCEPT ![t] = mFront]
  /\ Goto(t, IF front[t] # mFront THEN "readBack"
             ELSE IF MaybeZero(front[t], back[t]) THEN "saysEmpty"
             ELSE "saysNotEmpty")
  /\ UNCHANGED <<shared, op, task, back, mid, start, history>>

\* The answer, and what a pop at the back does with it.
EmptyReturn(t) ==
  /\ \/ /\ pc[t] = "saysEmpty" \/ (pc[t] = "saysNotEmpty" /\ op[t] = "Empty")
        /\ Return(t)
     \/ /\ pc[t] = "saysNotEmpty" /\ op[t] # "Empty"
        /\ Goto(t, "lock")
        /\ front' = [front EXCEPT ![t] = 0]
        /\ back' = [back EXCEPT ![t] = 0]
        /\ UNCHANGED <<op, mid, start>>
  /\ sawEmpty' = [sawEmpty EXCEPT ![t] = FALSE]
  /\ UNCHANGED <<shared, task, pushed, popped>>

Empty(t) == EmptyReadBack(t) \/ EmptyReadFront(t) \/ EmptyReturn(t)

(***************************************************************************)
(* PopBack, after its check of Empty.                                      *)
(***************************************************************************)
PopBackClaim(t) ==
  /\ pc[t] = "lock" /\ op[t] = "PopBack" /\ mMutex = Nobody
  /\ LET i == At(mBack) IN
     \/ /\ slot[i].state = "kReady"
        /\ SetSlot(i, "kBusy", slot[i].task)
        /\ Claimed(i)
        /\ mMutex' = t
        /\ back' = [back EXCEPT ![t] = mBack]
        /\ Goto(t, "popBack")
        /\ UNCHANGED <<op, front, mid, start>>
     \/ /\ slot[i].state # "kReady"
        /\ Return(t)
        /\ UNCHANGED <<slot, mMutex, sawEmpty>>
  /\ UNCHANGED <<mFront, mBack, task, pushed, popped>>

\* Mutant: the slot is released before the task has been moved out of it.
PopBackForget(t) ==
  /\ pc[t] = "popBack"
  /\ SetSlot(At(back[t]), "kEmpty", 0)
  /\ Goto(t, "popBackMove")
  /\ UNCHANGED <<mFront, mBack, mMutex, op, task, locals, history>>

PopBackTake(t) ==
  /\ pc[t] = "popBack"
  /\ LET i == At(back[t]) IN Take(t, slot[i].task) /\ SetSlot(i, "kEmpty", 0)
  /\ Goto(t, "popBackMove")
  /\ UNCHANGED <<mFront, mBack, mMutex, op, locals, pushed, sawEmpty>>

PopBackMove(t) ==
  /\ pc[t] = "popBackMove"
  /\ mBack' = Advance(back[t])
  /\ mMutex' = Nobody
  /\ Return(t)
  /\ UNCHANGED <<mFront, slot, task, history>>

PopBack(t) == PopBackClaim(t) \/ PopBackTake(t) \/ PopBackMove(t)

(***************************************************************************)
(* PopBackHalf, after its check of Empty: from the middle down to the      *)
(* back, claim the first ready slot, then empty it and all below it.       *)
(* Under the lock mBack is stable, so Size() is one look at mFront.        *)
(***************************************************************************)
HalfLock(t) ==
  /\ pc[t] = "lock" /\ op[t] = "PopBackHalf" /\ mMutex = Nobody
  /\ mMutex' = t
  /\ back' = [back EXCEPT ![t] = mBack]
  /\ LET size == CalculateSize(mFront, mBack)
         n == IF size > kCapacity THEN kCapacity ELSE size
     IN mid' = [mid EXCEPT ![t] = IF n > 1 THEN (n - 1) \div 2 ELSE 0]
  /\ start' = [start EXCEPT ![t] = -1]
  /\ Goto(t, "half")
  /\ UNCHANGED <<mFront, mBack, slot, op, task, front, history>>

\* mid and start are kept as offsets from back; start = -1 while n = 0.
HalfIndex(t) == At(back[t] + mid[t])

HalfClaim(t) ==
  /\ pc[t] = "half" /\ mid[t] >= 0 /\ start[t] = -1
  /\ LET i == HalfIndex(t) IN
     \/ /\ slot[i].state = "kReady"
        /\ SetSlot(i, "kBusy", slot[i].task)
        /\ Claimed(i)
        /\ start' = [start EXCEPT ![t] = mid[t]]
        /\ UNCHANGED mid
     \/ /\ slot[i].state # "kReady"
        /\ mid' = [mid EXCEPT ![t] = @ - 1]
        /\ UNCHANGED <<slot, start, sawEmpty>>
  /\ UNCHANGED <<mFront, mBack, mMutex, pc, op, task, front, back, pushed, popped>>

HalfTake(t) ==
  /\ pc[t] = "half" /\ mid[t] >= 0 /\ start[t] # -1
  /\ LET i == HalfIndex(t) IN
       Take(t, slot[i].task) /\ SetSlot(i, "kEmpty", 0) /\ Claimed(i)
  /\ mid' = [mid EXCEPT ![t] = @ - 1]
  /\ UNCHANGED <<mFront, mBack, mMutex, pc, op, front, back, start, pushed>>

HalfMove(t) ==
  /\ pc[t] = "half" /\ mid[t] < 0
  /\ mBack' = IF start[t] = -1 THEN mBack ELSE Advance(back[t] + start[t])
  /\ mMutex' = Nobody
  /\ Return(t)
  /\ UNCHANGED <<mFront, slot, task, history>>

PopBackHalf(t) == HalfLock(t) \/ HalfClaim(t) \/ HalfTake(t) \/ HalfMove(t)

ThiefStep(t) ==
  \/ PushBack(t) \/ PopBack(t) \/ PopBackHalf(t)
  \/ \E o \in BackOps \cup {"Empty"} : EmptyCall(t, o)
  \/ Empty(t)
OwnerStep == PushFront \/ PopFront \/ EmptyCall(Owner, "Empty") \/ Empty(Owner)

Next == OwnerStep \/ \E t \in Thieves : ThiefStep(t)
Spec == Init /\ [][Next]_vars
-------------------------------------------------------------------------------
(***************************************************************************)
(* Properties                                                              *)
(***************************************************************************)

\* Every variable keeps its type.
TypeOK ==
  /\ mFront \in 0 .. IndexMod - 1 /\ mBack \in 0 .. IndexMod - 1
  /\ slot \in [Slots -> [state : {"kEmpty", "kBusy", "kReady"}, task : 0 .. MaxPush]]
  /\ mMutex \in Thieves \cup {Nobody}
  /\ task \in [Threads -> 0 .. MaxPush]
  /\ pushed \in 0 .. MaxPush
  /\ popped \in [Tasks -> Nat]
  /\ sawEmpty \in [Threads -> BOOLEAN]

\* Where a task that was offered is now: with the thread that pushes it, in a
\* slot, or out again.
Places(x) ==
  Cardinality({t \in Threads : task[t] = x})
    + Cardinality({i \in Slots : slot[i].task = x}) + popped[x]

\* Neither the owner and a thief that meet at the last task, nor two that meet
\* at the last free slot, lose a task or take it twice.
NoTaskLostOrDuplicated == \A x \in 1 .. pushed : Places(x) = 1

\* Empty() never claims a non-empty deque is empty: it answers yes only if the
\* deque was empty at some moment of the call.  A worker parks on this answer.
\* PopFront steps mFront back without changing its modification counter, so this
\* is certain only while fewer than kCapacity tasks are pushed during a call
\* (EmptyCallIsHonest in RunQueueProofs).
NoFalseEmpty == \A t \in Threads : pc[t] = "saysEmpty" => sawEmpty[t]

\* Between operations the deque is a contiguous run of ready slots from mBack
\* up to mFront: what makes the next push and pop find the right slot.
ContiguousWhenQuiet ==
  (\A t \in Threads : pc[t] \in {"idle", "readBack", "readFront", "saysEmpty",
                                 "saysNotEmpty", "lock"}) =>
    LET size == CalculateSize(mFront, mBack) IN
    /\ size <= kCapacity
    /\ \A n \in 0 .. kCapacity - 1 :
         slot[At(mBack + n)].state = (IF n < size THEN "kReady" ELSE "kEmpty")

\* The deque stays intact: every task is in one place, and the slots and indices
\* fit together whenever no operation is half-way through.
DequeIntact == TypeOK /\ NoTaskLostOrDuplicated /\ ContiguousWhenQuiet
===============================================================================
