--------------------------- MODULE WorkQueueProofs ----------------------------
(***************************************************************************)
(* The non-blocking pool for any number of workers, any capacity and any   *)
(* number of tasks: the counters say what the workers do, no task is left  *)
(* behind with every worker asleep, and the destructor leaves nothing.     *)
(*                                                                         *)
(* The counts are sizes of sets of workers.  A worker that sleeps over a   *)
(* task is excluded queue by queue: as long as queue q holds a task,       *)
(* somebody is Attentive to q, that is, will look at q again before it     *)
(* parks or exits, or a signal or a wake-up is on its way.                 *)
(***************************************************************************)
EXTENDS WorkQueue, FiniteSetTheorems, TLAPS

WorkerPC == {"loop", "next", "run", "push", "notifyRequired", "notify", "steal", "spin",
             "last", "startSpinning", "startSpinningCas", "stopSpinning", "prewait",
             "check", "cancelWait", "checkCancelled", "stealVictim", "allBlocked",
             "notifyAllBlocked", "checkDone", "checkLast", "shutDown", "recheck",
             "commit", "parked", "unblock", "exited"}
MainPC == {"idle", "push", "notifyRequired", "notify", "quiesceSteal", "quiesceRun",
           "quiesceWait", "cancel", "cancelNotify", "destructNotify", "flush", "join",
           "destroyed"}
Adding == {"push", "notifyRequired", "notify"}

Types ==
  /\ queue \in [Workers -> 0 .. kCapacity]
  /\ mBlocked \in Nat
  /\ mSpinningState \in [mNumSpinning : Nat, mNumNoNotification : Nat]
  /\ signals \in Nat
  /\ status \in [Workers -> {"out", "pre", "parked", "woken"}]
  /\ pc \in [Threads -> WorkerPC \cup MainPC]
  /\ \A w \in Workers : pc[w] \in WorkerPC
  /\ pc[Main] \in MainPC
  /\ todo \in [Threads -> SUBSET Workers]
  /\ victim \in [Threads -> Threads]
  /\ \A w \in Workers : victim[w] \in Workers
  /\ pc[Main] = "push" => victim[Main] \in Workers
  /\ submitted \in 0 .. MaxTasks /\ executed \in Nat

\* The Boolean variables apart: the first two parts of the proof need no other.
Flags ==
  /\ mDone \in BOOLEAN /\ mCancelled \in BOOLEAN
  /\ hand \in [Workers -> BOOLEAN] /\ skipNotify \in [Workers -> BOOLEAN]
  /\ quiescing \in BOOLEAN

\* The word of the spinning threads.
SpinInv ==
  /\ mSpinningState.mNumNoNotification <= mSpinningState.mNumSpinning
  /\ mSpinningState.mNumSpinning = Cardinality(Spinning)

\* Who is counted in mBlocked for certain, and who may be: a worker that exits
\* from WaitForWork stays counted, one that leaves a cancelled pool does not.
Blocked == {w \in Workers :
              pc[w] \in {"allBlocked", "notifyAllBlocked", "checkDone", "checkLast",
                         "shutDown", "recheck", "commit", "parked", "unblock"}}
MaybeBlocked == Blocked \cup {w \in Workers : pc[w] = "exited"}

BlockInv ==
  /\ Cardinality(Blocked) <= mBlocked
  /\ mBlocked <= Cardinality(MaybeBlocked)

\* The event count sees a worker where the worker stands.
Waiting == {"check", "cancelWait", "allBlocked", "notifyAllBlocked", "checkDone",
            "checkLast", "shutDown", "commit"}
Pre == {w \in Workers : status[w] = "pre"}

StatusOf(w) ==
  /\ pc[w] \in Waiting <=> status[w] = "pre"
  /\ pc[w] = "parked" <=> status[w] \in {"parked", "woken"}

StatusInv ==
  /\ \A w \in Workers : StatusOf(w)
  /\ signals <= Cardinality(Pre)

\* What the control points say about the flags.
ControlInv ==
  /\ \A w \in Workers : /\ hand[w] => pc[w] = "stopSpinning"
                        /\ pc[w] \in {"checkLast", "shutDown", "recheck"} => mDone
                        /\ pc[w] = "exited" => mDone \/ mCancelled
  /\ mDone /\ ~mCancelled => pc[Main] \in {"destructNotify", "join", "destroyed"}
  /\ pc[Main] \in {"flush", "cancel", "cancelNotify"} => mCancelled
  /\ pc[Main] \in {"quiesceSteal", "quiesceRun", "quiesceWait"} => quiescing
  /\ quiescing => pc[Main] \in {"quiesceSteal", "quiesceRun", "quiesceWait"} \cup Adding
  /\ pc[Main] = "destroyed" => \A w \in Workers : pc[w] = "exited"

\* A task is in a deque, run by a thread, or on its way into a deque.
Slots == {s \in Workers \X (1 .. kCapacity) : s[2] <= queue[s[1]]}
Busy(t) == IF t = Main THEN pc[t] = "quiesceRun" \/ (quiescing /\ pc[t] \in Adding)
           ELSE pc[t] \in {"run"} \cup Adding \/ hand[t]
Running == {t \in Threads : Busy(t)}
Pushing == {t \in Threads : pc[t] = "push"}
InPool == Cardinality(Slots) + Cardinality(Running) + Cardinality(Pushing)

TaskInv ==
  /\ executed + InPool <= submitted
  /\ ~mCancelled => executed + InPool = submitted

\* Worker w looks at queue q again before it parks or exits.
Attentive(w, q) ==
  /\ pc[w] \in {"check", "recheck"} => q \in todo[w]
  /\ pc[w] \notin {"allBlocked", "notifyAllBlocked", "checkDone", "checkLast", "commit",
                   "parked", "exited"}

Covered(q) ==
  \/ pc[Main] \in {"notifyRequired", "notify"}
  \/ signals > 0
  \/ \E w \in Workers : Attentive(w, q) \/ status[w] = "woken"

AttentionInv == ~mCancelled => \A q \in Workers : queue[q] > 0 => Covered(q)

IInv ==
  /\ Types /\ Flags /\ SpinInv /\ BlockInv /\ StatusInv /\ ControlInv
  /\ TaskInv /\ AttentionInv
-------------------------------------------------------------------------------
(***************************************************************************)
(* Sizes of the sets that the counters stand for.                          *)
(***************************************************************************)

\* The constants, without the finiteness of Workers.
LEMMA PoolFacts ==
  /\ Main \notin Workers /\ Workers # {}
  /\ kCapacity \in Nat /\ kCapacity > 0 /\ MaxTasks \in Nat
BY PoolAssumption

\* What the proofs use of the size of a finite set.
LEMMA Sizes ==
  ASSUME NEW S, IsFiniteSet(S)
  PROVE  /\ Cardinality(S) \in Nat
         /\ \A x : x \notin S => Cardinality(S \cup {x}) = Cardinality(S) + 1
         /\ \A x \in S : Cardinality(S \ {x}) = Cardinality(S) - 1 /\ Cardinality(S) > 0
         /\ \A T \in SUBSET S : IsFiniteSet(T) /\ Cardinality(T) <= Cardinality(S)
         /\ \A T \in SUBSET S : Cardinality(T) = Cardinality(S) => T = S
<1>1. Cardinality(S) \in Nat
  BY FS_CardinalityType
<1>2. \A x : x \notin S => Cardinality(S \cup {x}) = Cardinality(S) + 1
  BY FS_AddElement
<1>3. ASSUME NEW x \in S
      PROVE  Cardinality(S \ {x}) = Cardinality(S) - 1 /\ Cardinality(S) > 0
  <2>1. Cardinality(S \ {x}) = Cardinality(S) - 1 /\ IsFiniteSet(S \ {x})
    BY FS_RemoveElement
  <2>2. Cardinality(S \ {x}) \in Nat
    BY <2>1, FS_CardinalityType
  <2>. QED
    BY <1>1, <2>1, <2>2
<1>4. \A T \in SUBSET S : IsFiniteSet(T) /\ Cardinality(T) <= Cardinality(S)
  BY FS_Subset
<1>5. \A T \in SUBSET S : Cardinality(T) = Cardinality(S) => T = S
  BY FS_Subset
<1>. QED
  BY <1>1, <1>2, <1>3, <1>4, <1>5

\* Workers, threads and places in the deques are finitely many.
LEMMA Finite ==
  IsFiniteSet(Workers) /\ IsFiniteSet(Threads) /\ IsFiniteSet(Workers \X (1 .. kCapacity))
<1>1. IsFiniteSet(Workers)
  BY PoolAssumption
<1>2. IsFiniteSet(Threads)
  BY <1>1, FS_AddElement DEF Threads
<1>3. IsFiniteSet(1 .. kCapacity)
  BY PoolFacts, FS_Interval
<1>. QED
  BY <1>1, <1>2, <1>3, FS_Product

\* So are all the sets of them that the invariant counts.
LEMMA FiniteParts ==
  /\ IsFiniteSet(Spinning) /\ IsFiniteSet(Blocked)
  /\ IsFiniteSet(MaybeBlocked) /\ IsFiniteSet(Pre) /\ IsFiniteSet(Slots)
  /\ IsFiniteSet(Running) /\ IsFiniteSet(Pushing)
<1>1. /\ Spinning \in SUBSET Workers /\ Blocked \in SUBSET Workers
      /\ MaybeBlocked \in SUBSET Workers
      /\ Pre \in SUBSET Workers
  BY DEF Spinning, Blocked, MaybeBlocked, Pre
<1>2. Slots \in SUBSET (Workers \X (1 .. kCapacity))
  BY DEF Slots
<1>3. Running \in SUBSET Threads /\ Pushing \in SUBSET Threads
  BY DEF Running, Pushing
<1>. QED
  BY <1>1, <1>2, <1>3, Finite, FS_Subset

\* The numbers in the equation of the tasks.
LEMMA Numbers ==
  /\ Cardinality(Slots) \in Nat /\ Cardinality(Running) \in Nat /\ Cardinality(Pushing) \in Nat
  /\ Cardinality(Spinning) \in Nat /\ Cardinality(Blocked) \in Nat
  /\ Cardinality(MaybeBlocked) \in Nat /\ Cardinality(Pre) \in Nat
BY FiniteParts, FS_CardinalityType

\* The event count and the invariant mean the same threads.
LEMMA PreIsWith ==
  /\ mEventCount!With("pre") = Pre
  /\ mEventCount!Cardinality(mEventCount!With("pre")) = Cardinality(Pre)
<1>1. mEventCount!With("pre") = Pre
  BY DEF mEventCount!With, Pre
<1>2. mEventCount!Cardinality(Pre) = Cardinality(Pre)
  BY DEF mEventCount!Cardinality, Cardinality
<1>. QED
  BY <1>1, <1>2

\* Taking a task from a deque empties its last place.
LEMMA TakeSlots ==
  ASSUME Types, NEW q \in Workers, queue[q] > 0, Take(q)
  PROVE  Cardinality(Slots') = Cardinality(Slots) - 1
<1>1. queue[q] \in 1 .. kCapacity
  BY PoolFacts DEF Types
<1>2. <<q, queue[q]>> \in Slots
  BY <1>1 DEF Slots
<1>3. ASSUME NEW u \in Workers, NEW i \in 1 .. kCapacity
      PROVE  i <= queue'[u] <=> i <= queue[u] /\ <<u, i>> # <<q, queue[q]>>
  BY PoolFacts DEF Take, Types
<1>4. Slots' = Slots \ {<<q, queue[q]>>}
  BY <1>3 DEF Slots
<1>5. ASSUME NEW s \in Slots PROVE Cardinality(Slots \ {s}) = Cardinality(Slots) - 1
  BY FiniteParts, Sizes
<1>. QED
  BY <1>2, <1>4, <1>5

\* Pushing a task fills the next place.
LEMMA PushSlots ==
  ASSUME Types, NEW q \in Workers, queue[q] < kCapacity,
         queue' = [queue EXCEPT ![q] = @ + 1]
  PROVE  Cardinality(Slots') = Cardinality(Slots) + 1
<1>1. queue[q] + 1 \in 1 .. kCapacity
  BY PoolFacts DEF Types
<1>2. <<q, queue[q] + 1>> \notin Slots
  BY <1>1 DEF Slots, Types
<1>3. ASSUME NEW u \in Workers, NEW i \in 1 .. kCapacity
      PROVE  i <= queue'[u] <=> i <= queue[u] \/ <<u, i>> = <<q, queue[q] + 1>>
  BY PoolFacts DEF Types
<1>4. Slots' = Slots \cup {<<q, queue[q] + 1>>}
  BY <1>1, <1>3 DEF Slots
<1>. QED
  BY <1>2, <1>4, FiniteParts, Sizes

\* A thread begins or ends a task, or an AddTask.
LEMMA BusyCounts ==
  ASSUME NEW t \in Threads, \A x \in Threads : x # t => (Busy(x)' <=> Busy(x))
  PROVE  /\ Busy(t) /\ ~Busy(t)' => Cardinality(Running') = Cardinality(Running) - 1
         /\ ~Busy(t) /\ Busy(t)' => Cardinality(Running') = Cardinality(Running) + 1
         /\ (Busy(t) <=> Busy(t)') => Running' = Running
<1>1. ASSUME Busy(t), ~Busy(t)'
      PROVE  Cardinality(Running') = Cardinality(Running) - 1
  <2>1. Running' = Running \ {t} /\ t \in Running
    BY <1>1 DEF Running, Threads
  <2>. QED
    BY <2>1, FiniteParts, Sizes
<1>2. ASSUME ~Busy(t), Busy(t)'
      PROVE  Cardinality(Running') = Cardinality(Running) + 1
  <2>1. Running' = Running \cup {t} /\ t \notin Running
    BY <1>2 DEF Running, Threads
  <2>. QED
    BY <2>1, FiniteParts, Sizes
<1>3. ASSUME Busy(t) <=> Busy(t)' PROVE Running' = Running
  BY <1>3 DEF Running, Threads
<1>. QED
  BY <1>1, <1>2, <1>3

-------------------------------------------------------------------------------
(***************************************************************************)
(* One lemma per action.                                                   *)
(***************************************************************************)

\* The head of the worker loop.
LEMMA LoopHeadIInv ==
  ASSUME IInv, NEW w \in Workers, LoopHead(w)
  PROVE  IInv'
<1>. USE PoolFacts
     DEF IInv, LoopHead, Goto, Threads, flags, eventVars, locals, mainVars, counts
<1>1. Types'
  BY DEF Types, WorkerPC, MainPC
<1>2. Flags'
  BY DEF Flags
<1>3. SpinInv'
  <2>1. Spinning' = Spinning
    BY DEF Spinning, Types
  <2>. QED
    BY <2>1 DEF SpinInv
<1>4. BlockInv'
  <2>1. Blocked' = Blocked /\ MaybeBlocked \subseteq MaybeBlocked'
    BY DEF Blocked, MaybeBlocked, Types
  <2>2. MaybeBlocked' \in SUBSET Workers
    BY DEF Blocked, MaybeBlocked
  <2>3. IsFiniteSet(MaybeBlocked')
    BY <2>2, Finite, Sizes
  <2>4. Cardinality(MaybeBlocked) <= Cardinality(MaybeBlocked') /\ Cardinality(MaybeBlocked') \in Nat
    BY <2>1, <2>3, Sizes
  <2>. QED
    BY <2>1, <2>4, Numbers DEF BlockInv, Types
<1>5. StatusInv'
  <2>1. Pre' = Pre
    BY DEF Pre
  <2>2. \A x \in Workers : pc[x] \in Waiting <=> pc'[x] \in Waiting
    BY DEF Waiting, Types
  <2>3. \A x \in Workers : pc[x] = "parked" <=> pc'[x] = "parked"
    BY DEF Types
  <2>. QED
    BY <2>1, <2>2, <2>3 DEF StatusInv, StatusOf
<1>6. ControlInv'
  BY DEF ControlInv, Types, Flags, Adding
<1>7. TaskInv'
  <2>1. Slots' = Slots
    BY DEF Slots
  <2>2. \A x \in Threads : (Busy(x)' <=> Busy(x)) /\ (pc'[x] = "push" <=> pc[x] = "push")
    BY DEF Busy, Adding, Types, ControlInv, Flags
  <2>3. Running' = Running /\ Pushing' = Pushing
    BY <2>2 DEF Running, Pushing
  <2>. QED
    BY <2>1, <2>3 DEF TaskInv, InPool
<1>8. AttentionInv'
  <2>. SUFFICES ASSUME ~mCancelled', NEW q \in Workers, queue'[q] > 0
                PROVE  Covered(q)'
    BY DEF AttentionInv
  <2>1. queue[q] > 0 /\ Covered(q)
    BY DEF AttentionInv, Types
  <2>2. \A x \in Workers : Attentive(x, q) => Attentive(x, q)'
    BY <2>1 DEF Attentive, Types
  <2>3. pc[Main] \in {"notifyRequired", "notify"} => pc'[Main] \in {"notifyRequired", "notify"}
    BY DEF Types
  <2>. QED
    BY <2>1, <2>2, <2>3 DEF Covered
<1>. QED
  BY <1>1, <1>2, <1>3, <1>4, <1>5, <1>6, <1>7, <1>8

\* A worker takes a task of its own queue, or begins to steal.
LEMMA NextTaskIInv ==
  ASSUME IInv, NEW w \in Workers, NextTask(w)
  PROVE  IInv'
<1>. USE PoolFacts
     DEF IInv, NextTask, Scan, Goto, Threads, flags, eventVars, locals, mainVars, counts
<1>1. Types'
  BY DEF Types, WorkerPC, MainPC, Take
<1>2. Flags'
  BY DEF Flags
<1>3. SpinInv'
  <2>1. Spinning' = Spinning
    BY DEF Spinning, Types
  <2>. QED
    BY <2>1 DEF SpinInv
<1>4. BlockInv'
  <2>1. Blocked' = Blocked /\ MaybeBlocked' = MaybeBlocked
    BY DEF Blocked, MaybeBlocked, Types
  <2>. QED
    BY <2>1 DEF BlockInv
<1>5. StatusInv'
  <2>1. Pre' = Pre
    BY DEF Pre
  <2>2. \A x \in Workers : pc[x] \in Waiting <=> pc'[x] \in Waiting
    BY DEF Waiting, Types
  <2>3. \A x \in Workers : pc[x] = "parked" <=> pc'[x] = "parked"
    BY DEF Types
  <2>. QED
    BY <2>1, <2>2, <2>3 DEF StatusInv, StatusOf
<1>6. ControlInv'
  BY DEF ControlInv, Types, Flags, Adding
<1>7. TaskInv'
  <2>0. \A x \in Threads : x # w => (Busy(x)' <=> Busy(x))
    BY DEF Busy, Types
  <2>00. Pushing' = Pushing
    BY DEF Pushing, Types
  <2>1. CASE queue[w] > 0
    <3>1. ~Busy(w) /\ Busy(w)'
      BY <2>1 DEF Busy, Types, ControlInv, Adding
    <3>2. /\ Cardinality(Slots') = Cardinality(Slots) - 1
          /\ Cardinality(Running') = Cardinality(Running) + 1
      BY <2>0, <2>1, <3>1, TakeSlots, BusyCounts DEF Types
    <3>. QED
      BY <2>00, <3>2, Numbers DEF TaskInv, InPool, Types
  <2>2. CASE queue[w] = 0
    <3>1. Busy(w)' <=> Busy(w)
      BY <2>2 DEF Busy, Types, Adding
    <3>2. Slots' = Slots /\ Running' = Running
      BY <2>0, <2>2, <3>1, BusyCounts DEF Slots
    <3>. QED
      BY <2>00, <3>2 DEF TaskInv, InPool
  <2>. QED
    BY <2>1, <2>2 DEF Types
<1>8. AttentionInv'
  <2>. SUFFICES ASSUME ~mCancelled', NEW q \in Workers, queue'[q] > 0
                PROVE  Covered(q)'
    BY DEF AttentionInv
  <2>1. Attentive(w, q)'
    BY DEF Attentive, Types
  <2>. QED
    BY <2>1 DEF Covered
<1>. QED
  BY <1>1, <1>2, <1>3, <1>4, <1>5, <1>6, <1>7, <1>8

\* A worker looks into one queue and takes what it finds.
LEMMA StealFromIInv ==
  ASSUME IInv, NEW w \in Workers, StealFrom(w)
  PROVE  IInv'
<1>. USE PoolFacts
     DEF IInv, StealFrom, Goto, Threads, flags, eventVars, locals, mainVars, counts
<1>0. PICK v \in todo[w] :
        \/ /\ queue[v] > 0 /\ Take(v) /\ Found(w)
           /\ hand' = [hand EXCEPT ![w] = pc[w] = "spin"]
           /\ pc' = [pc EXCEPT ![w] = IF pc[w] = "spin" THEN "stopSpinning" ELSE "run"]
        \/ /\ queue[v] = 0 /\ LookedAt(w, v)
           /\ UNCHANGED <<queue, pc, hand>>
  OBVIOUS
<1>00. v \in Workers /\ pc[w] \in {"steal", "spin", "last"}
  BY DEF Types
<1>000. /\ pc' = pc \/ pc' = [pc EXCEPT ![w] = IF pc[w] = "spin" THEN "stopSpinning" ELSE "run"]
        /\ UNCHANGED <<flags, mSpinningState, eventVars, victim, skipNotify, mainVars, counts>>
  BY <1>0
<1>. HIDE DEF StealFrom
<1>1. Types'
  <2>1. CASE queue[v] > 0 /\ Take(v) /\ Found(w)
    BY <1>00, <1>000, <2>1 DEF Types, WorkerPC, MainPC, Take, Found
  <2>2. CASE LookedAt(w, v) /\ UNCHANGED queue
    BY <1>00, <1>000, <2>2 DEF Types, WorkerPC, MainPC, LookedAt
  <2>. QED
    BY <1>0, <2>1, <2>2
<1>2. Flags'
  BY <1>0, <1>00, <1>000 DEF Flags
<1>3. SpinInv'
  <2>1. Spinning' = Spinning
    BY <1>00, <1>000 DEF Spinning, Types
  <2>. QED
    BY <1>000, <2>1 DEF SpinInv
<1>4. BlockInv'
  <2>1. Blocked' = Blocked /\ MaybeBlocked' = MaybeBlocked
    BY <1>00, <1>000 DEF Blocked, MaybeBlocked, Types
  <2>. QED
    BY <1>000, <2>1 DEF BlockInv
<1>5. StatusInv'
  <2>1. Pre' = Pre
    BY <1>00, <1>000 DEF Pre
  <2>2. \A x \in Workers : pc[x] \in Waiting <=> pc'[x] \in Waiting
    BY <1>00, <1>000 DEF Waiting, Types
  <2>3. \A x \in Workers : pc[x] = "parked" <=> pc'[x] = "parked"
    BY <1>00, <1>000 DEF Types
  <2>. QED
    BY <1>000, <2>1, <2>2, <2>3 DEF StatusInv, StatusOf
<1>6. ControlInv'
  <2>1. \A x \in Workers : hand'[x] => pc'[x] = "stopSpinning"
    BY <1>0, <1>00 DEF ControlInv, Types, Flags
  <2>. QED
    BY <1>00, <1>000, <2>1 DEF ControlInv, Types, Adding
<1>7. TaskInv'
  <2>0. \A x \in Threads : x # w => (Busy(x)' <=> Busy(x))
    BY <1>0, <1>000 DEF Busy, Types, Flags
  <2>00. Pushing' = Pushing
    BY <1>00, <1>000 DEF Pushing, Types
  <2>1. CASE queue[v] > 0 /\ pc' # pc
    <3>1. ~Busy(w) /\ Take(v)
      BY <1>0, <1>00, <2>1 DEF Busy, ControlInv, Adding
    <3>2. Busy(w)'
      BY <1>0, <1>00, <2>1 DEF Busy, Types, Flags, Adding
    <3>3. /\ Cardinality(Slots') = Cardinality(Slots) - 1
          /\ Cardinality(Running') = Cardinality(Running) + 1
      BY <1>00, <2>0, <2>1, <3>1, <3>2, TakeSlots, BusyCounts
    <3>. QED
      BY <1>000, <2>00, <3>3, Numbers DEF TaskInv, InPool, Types
  <2>2. CASE UNCHANGED <<queue, pc, hand>>
    <3>1. Busy(w)' <=> Busy(w)
      BY <1>000, <2>2 DEF Busy
    <3>2. Slots' = Slots /\ Running' = Running
      BY <2>0, <2>2, <3>1, BusyCounts DEF Slots
    <3>. QED
      BY <1>000, <2>00, <3>2 DEF TaskInv, InPool
  <2>3. (queue[v] > 0 /\ pc' # pc) \/ UNCHANGED <<queue, pc, hand>>
    BY <1>0, <1>00 DEF Types
  <2>. QED
    BY <2>1, <2>2, <2>3
<1>8. AttentionInv'
  <2>1. \A q \in Workers : Attentive(w, q)'
    BY <1>00, <1>000 DEF Attentive, Types
  <2>. QED
    BY <2>1 DEF AttentionInv, Covered
<1>. QED
  BY <1>1, <1>2, <1>3, <1>4, <1>5, <1>6, <1>7, <1>8

\* A scan that found nothing ends.
LEMMA StealNothingIInv ==
  ASSUME IInv, NEW w \in Workers, StealNothing(w)
  PROVE  IInv'
<1>. USE PoolFacts
     DEF IInv, StealNothing, Goto, Threads, flags, eventVars, locals, mainVars, counts
<1>1. Types'
  BY DEF Types, WorkerPC, MainPC
<1>2. Flags'
  BY DEF Flags
<1>3. SpinInv'
  <2>1. Spinning' = Spinning
    BY DEF Spinning, Types
  <2>. QED
    BY <2>1 DEF SpinInv
<1>4. BlockInv'
  <2>1. Blocked' = Blocked /\ MaybeBlocked' = MaybeBlocked
    BY DEF Blocked, MaybeBlocked, Types
  <2>. QED
    BY <2>1 DEF BlockInv
<1>5. StatusInv'
  <2>1. Pre' = Pre
    BY DEF Pre
  <2>2. \A x \in Workers : pc[x] \in Waiting <=> pc'[x] \in Waiting
    BY DEF Waiting, Types
  <2>3. \A x \in Workers : pc[x] = "parked" <=> pc'[x] = "parked"
    BY DEF Types
  <2>. QED
    BY <2>1, <2>2, <2>3 DEF StatusInv, StatusOf
<1>6. ControlInv'
  BY DEF ControlInv, Types, Flags, Adding
<1>7. TaskInv'
  <2>1. Slots' = Slots
    BY DEF Slots
  <2>2. \A x \in Threads : (Busy(x)' <=> Busy(x)) /\ (pc'[x] = "push" <=> pc[x] = "push")
    BY DEF Busy, Adding, Types, ControlInv, Flags
  <2>3. Running' = Running /\ Pushing' = Pushing
    BY <2>2 DEF Running, Pushing
  <2>. QED
    BY <2>1, <2>3 DEF TaskInv, InPool
<1>8. AttentionInv'
  <2>1. \A q \in Workers : Attentive(w, q)'
    BY DEF Attentive, Types
  <2>. QED
    BY <2>1 DEF AttentionInv, Covered
<1>. QED
  BY <1>1, <1>2, <1>3, <1>4, <1>5, <1>6, <1>7, <1>8

\* Another round of the spin loop.
LEMMA SpinAgainIInv ==
  ASSUME IInv, NEW w \in Workers, SpinAgain(w)
  PROVE  IInv'
<1>. USE PoolFacts
     DEF IInv, SpinAgain, Scan, Goto, Threads, flags, eventVars, locals, mainVars,
         counts
<1>1. Types'
  BY DEF Types, WorkerPC, MainPC
<1>2. Flags'
  BY DEF Flags
<1>3. SpinInv'
  <2>1. Spinning' = Spinning
    BY DEF Spinning, Types
  <2>. QED
    BY <2>1 DEF SpinInv
<1>4. BlockInv'
  <2>1. Blocked' = Blocked /\ MaybeBlocked' = MaybeBlocked
    BY DEF Blocked, MaybeBlocked, Types
  <2>. QED
    BY <2>1 DEF BlockInv
<1>5. StatusInv'
  <2>1. Pre' = Pre
    BY DEF Pre
  <2>2. \A x \in Workers : pc[x] \in Waiting <=> pc'[x] \in Waiting
    BY DEF Waiting, Types
  <2>3. \A x \in Workers : pc[x] = "parked" <=> pc'[x] = "parked"
    BY DEF Types
  <2>. QED
    BY <2>1, <2>2, <2>3 DEF StatusInv, StatusOf
<1>6. ControlInv'
  BY DEF ControlInv, Types, Flags, Adding
<1>7. TaskInv'
  <2>1. Slots' = Slots
    BY DEF Slots
  <2>2. \A x \in Threads : (Busy(x)' <=> Busy(x)) /\ (pc'[x] = "push" <=> pc[x] = "push")
    BY DEF Busy, Adding, Types, ControlInv, Flags
  <2>3. Running' = Running /\ Pushing' = Pushing
    BY <2>2 DEF Running, Pushing
  <2>. QED
    BY <2>1, <2>3 DEF TaskInv, InPool
<1>8. AttentionInv'
  <2>1. \A q \in Workers : Attentive(w, q)'
    BY DEF Attentive, Types
  <2>. QED
    BY <2>1 DEF AttentionInv, Covered
<1>. QED
  BY <1>1, <1>2, <1>3, <1>4, <1>5, <1>6, <1>7, <1>8

\* The number of active threads is read.
LEMMA StartSpinningCheckIInv ==
  ASSUME IInv, NEW w \in Workers, StartSpinningCheck(w)
  PROVE  IInv'
<1>. USE PoolFacts
     DEF IInv, StartSpinningCheck, Goto, Threads, flags, eventVars, locals, mainVars,
         counts
<1>1. Types'
  BY DEF Types, WorkerPC, MainPC
<1>2. Flags'
  BY DEF Flags
<1>3. SpinInv'
  <2>1. Spinning' = Spinning
    BY DEF Spinning, Types
  <2>. QED
    BY <2>1 DEF SpinInv
<1>4. BlockInv'
  <2>1. Blocked' = Blocked /\ MaybeBlocked' = MaybeBlocked
    BY DEF Blocked, MaybeBlocked, Types
  <2>. QED
    BY <2>1 DEF BlockInv
<1>5. StatusInv'
  <2>1. Pre' = Pre
    BY DEF Pre
  <2>2. \A x \in Workers : pc[x] \in Waiting <=> pc'[x] \in Waiting
    BY DEF Waiting, Types
  <2>3. \A x \in Workers : pc[x] = "parked" <=> pc'[x] = "parked"
    BY DEF Types
  <2>. QED
    BY <2>1, <2>2, <2>3 DEF StatusInv, StatusOf
<1>6. ControlInv'
  BY DEF ControlInv, Types, Flags, Adding
<1>7. TaskInv'
  <2>1. Slots' = Slots
    BY DEF Slots
  <2>2. \A x \in Threads : (Busy(x)' <=> Busy(x)) /\ (pc'[x] = "push" <=> pc[x] = "push")
    BY DEF Busy, Adding, Types, ControlInv, Flags
  <2>3. Running' = Running /\ Pushing' = Pushing
    BY <2>2 DEF Running, Pushing
  <2>. QED
    BY <2>1, <2>3 DEF TaskInv, InPool
<1>8. AttentionInv'
  <2>1. \A q \in Workers : Attentive(w, q)'
    BY DEF Attentive, Types
  <2>. QED
    BY <2>1 DEF AttentionInv, Covered
<1>. QED
  BY <1>1, <1>2, <1>3, <1>4, <1>5, <1>6, <1>7, <1>8

\* One more spinning thread, if there may be one.
LEMMA StartSpinningIInv ==
  ASSUME IInv, NEW w \in Workers, StartSpinning(w)
  PROVE  IInv'
<1>. USE PoolFacts
     DEF IInv, StartSpinning, Scan, Goto, Threads, flags, eventVars, locals, mainVars,
         counts
<1>1. Types'
  BY DEF Types, WorkerPC, MainPC
<1>2. Flags'
  BY DEF Flags
<1>3. SpinInv'
  <2>1. CASE MaySpin
    <3>1. Spinning' = Spinning \cup {w} /\ w \notin Spinning
      BY <2>1 DEF Spinning, Types
    <3>2. Cardinality(Spinning \cup {w}) = Cardinality(Spinning) + 1
      BY <3>1, FiniteParts, Sizes
    <3>3. /\ mSpinningState'.mNumSpinning = mSpinningState.mNumSpinning + 1
          /\ mSpinningState'.mNumNoNotification = mSpinningState.mNumNoNotification
      BY <2>1 DEF Types
    <3>. QED
      BY <3>1, <3>2, <3>3 DEF SpinInv, Types
  <2>2. CASE ~MaySpin
    <3>1. Spinning' = Spinning
      BY <2>2 DEF Spinning, Types
    <3>. QED
      BY <2>2, <3>1 DEF SpinInv
  <2>. QED
    BY <2>1, <2>2
<1>4. BlockInv'
  <2>1. Blocked' = Blocked /\ MaybeBlocked' = MaybeBlocked
    BY DEF Blocked, MaybeBlocked, Types
  <2>. QED
    BY <2>1 DEF BlockInv
<1>5. StatusInv'
  <2>1. Pre' = Pre
    BY DEF Pre
  <2>2. \A x \in Workers : pc[x] \in Waiting <=> pc'[x] \in Waiting
    BY DEF Waiting, Types
  <2>3. \A x \in Workers : pc[x] = "parked" <=> pc'[x] = "parked"
    BY DEF Types
  <2>. QED
    BY <2>1, <2>2, <2>3 DEF StatusInv, StatusOf
<1>6. ControlInv'
  BY DEF ControlInv, Types, Flags, Adding
<1>7. TaskInv'
  <2>1. Slots' = Slots
    BY DEF Slots
  <2>2. \A x \in Threads : (Busy(x)' <=> Busy(x)) /\ (pc'[x] = "push" <=> pc[x] = "push")
    BY DEF Busy, Adding, Types, ControlInv, Flags
  <2>3. Running' = Running /\ Pushing' = Pushing
    BY <2>2 DEF Running, Pushing
  <2>. QED
    BY <2>1, <2>3 DEF TaskInv, InPool
<1>8. AttentionInv'
  <2>1. \A q \in Workers : Attentive(w, q)'
    BY DEF Attentive, Types
  <2>. QED
    BY <2>1 DEF AttentionInv, Covered
<1>. QED
  BY <1>1, <1>2, <1>3, <1>4, <1>5, <1>6, <1>7, <1>8

\* A spinning thread stops; a task it had in its hand it runs.
LEMMA StopSpinningIInv ==
  ASSUME IInv, NEW w \in Workers, StopSpinning(w)
  PROVE  IInv'
<1>. USE PoolFacts
     DEF IInv, StopSpinning, Scan, StoppedSpinning, HasNoNotifyTask, Goto, Threads,
         flags, eventVars, locals, mainVars, counts
<1>0. /\ mSpinningState.mNumSpinning > 0 /\ Spinning' = Spinning \ {w}
      /\ Cardinality(Spinning \ {w}) = mSpinningState.mNumSpinning - 1
  <2>1. w \in Spinning /\ Spinning' = Spinning \ {w}
    BY DEF Spinning, Types
  <2>2. Cardinality(Spinning \ {w}) = Cardinality(Spinning) - 1 /\ Cardinality(Spinning) > 0
    BY <2>1, FiniteParts, Sizes
  <2>. QED
    BY <2>1, <2>2 DEF SpinInv
<1>1. Types'
  <2>1. mSpinningState' \in [mNumSpinning : Nat, mNumNoNotification : Nat]
    BY <1>0 DEF Types
  <2>. QED
    BY <2>1 DEF Types, WorkerPC, MainPC
<1>2. Flags'
  BY DEF Flags
<1>3. SpinInv'
  <2>1. /\ mSpinningState'.mNumSpinning = mSpinningState.mNumSpinning - 1
        /\ mSpinningState'.mNumNoNotification <= mSpinningState.mNumSpinning - 1
    BY <1>0 DEF SpinInv, Types
  <2>. QED
    BY <1>0, <2>1 DEF SpinInv
<1>4. BlockInv'
  <2>1. Blocked' = Blocked /\ MaybeBlocked' = MaybeBlocked
    BY DEF Blocked, MaybeBlocked, Types
  <2>. QED
    BY <2>1 DEF BlockInv
<1>5. StatusInv'
  <2>1. Pre' = Pre
    BY DEF Pre
  <2>2. \A x \in Workers : pc[x] \in Waiting <=> pc'[x] \in Waiting
    BY DEF Waiting, Types
  <2>3. \A x \in Workers : pc[x] = "parked" <=> pc'[x] = "parked"
    BY DEF Types
  <2>. QED
    BY <2>1, <2>2, <2>3 DEF StatusInv, StatusOf
<1>6. ControlInv'
  BY DEF ControlInv, Types, Flags, Adding
<1>7. TaskInv'
  <2>1. Slots' = Slots
    BY DEF Slots
  <2>2. \A x \in Threads : pc'[x] = "push" <=> pc[x] = "push"
    BY DEF Types
  <2>3. \A x \in Threads : x # w => (Busy(x)' <=> Busy(x))
    BY DEF Busy, Types, Flags
  <2>4. Busy(w)' <=> Busy(w)
    BY DEF Busy, Types, Flags, Adding
  <2>5. Running' = Running /\ Pushing' = Pushing
    BY <2>2, <2>3, <2>4 DEF Running, Pushing
  <2>. QED
    BY <2>1, <2>5 DEF TaskInv, InPool
<1>8. AttentionInv'
  <2>1. \A q \in Workers : Attentive(w, q)'
    BY DEF Attentive, Types
  <2>. QED
    BY <2>1 DEF AttentionInv, Covered
<1>. QED
  BY <1>1, <1>2, <1>3, <1>4, <1>5, <1>6, <1>7, <1>8

\* A worker announces its wait.
LEMMA PrewaitIInv ==
  ASSUME IInv, NEW w \in Workers, Prewait(w)
  PROVE  IInv'
<1>. USE PoolFacts
     DEF IInv, Prewait, Scan, mEventCount!Prewait, mEventCount!Move,
         mEventCount!Unsignaled, Goto, Threads, flags, eventVars, locals, mainVars,
         counts
<1>1. Types'
  BY DEF Types, WorkerPC, MainPC
<1>2. Flags'
  BY DEF Flags
<1>3. SpinInv'
  <2>1. Spinning' = Spinning
    BY DEF Spinning, Types
  <2>. QED
    BY <2>1 DEF SpinInv
<1>4. BlockInv'
  <2>1. Blocked' = Blocked /\ MaybeBlocked' = MaybeBlocked
    BY DEF Blocked, MaybeBlocked, Types
  <2>. QED
    BY <2>1 DEF BlockInv
<1>5. StatusInv'
  <2>1. Pre' = Pre \cup {w} /\ w \notin Pre
    BY DEF Pre, Types
  <2>2. Cardinality(Pre \cup {w}) = Cardinality(Pre) + 1
    BY <2>1, FiniteParts, Sizes
  <2>3. ASSUME NEW x \in Workers PROVE StatusOf(x)'
    <3>1. StatusOf(x)
      BY DEF StatusInv
    <3>. QED
      BY <3>1 DEF StatusOf, Waiting, Types
  <2>. QED
    BY <2>1, <2>2, <2>3, Numbers DEF StatusInv, Types
<1>6. ControlInv'
  BY DEF ControlInv, Types, Flags, Adding
<1>7. TaskInv'
  <2>1. Slots' = Slots
    BY DEF Slots
  <2>2. \A x \in Threads : (Busy(x)' <=> Busy(x)) /\ (pc'[x] = "push" <=> pc[x] = "push")
    BY DEF Busy, Adding, Types, ControlInv, Flags
  <2>3. Running' = Running /\ Pushing' = Pushing
    BY <2>2 DEF Running, Pushing
  <2>. QED
    BY <2>1, <2>3 DEF TaskInv, InPool
<1>8. AttentionInv'
  <2>1. \A q \in Workers : Attentive(w, q)'
    BY DEF Attentive, Types
  <2>. QED
    BY <2>1 DEF AttentionInv, Covered
<1>. QED
  BY <1>1, <1>2, <1>3, <1>4, <1>5, <1>6, <1>7, <1>8

\* A worker looks into one queue without taking from it.
LEMMA NonEmptyQueueIndexIInv ==
  ASSUME IInv, NEW w \in Workers, NonEmptyQueueIndex(w)
  PROVE  IInv'
<1>. USE PoolFacts
     DEF IInv, NonEmptyQueueIndex, Goto, Threads, flags, eventVars, locals, mainVars,
         counts
<1>0. PICK v \in todo[w] :
        \/ /\ queue[v] > 0 /\ Found(w)
           /\ victim' = [victim EXCEPT ![w] = IF pc[w] = "check" THEN v ELSE w]
           /\ pc' = [pc EXCEPT ![w] = IF pc[w] = "check" THEN "cancelWait" ELSE "unblock"]
        \/ queue[v] = 0 /\ LookedAt(w, v) /\ UNCHANGED <<victim, pc>>
  OBVIOUS
<1>00. /\ v \in Workers /\ pc[w] \in {"check", "recheck"}
       /\ pc' = pc \/ pc' = [pc EXCEPT ![w] = IF pc[w] = "check" THEN "cancelWait" ELSE "unblock"]
       /\ UNCHANGED <<queue, flags, mSpinningState, eventVars, hand, skipNotify, mainVars, counts>>
  BY <1>0 DEF Types
<1>. HIDE DEF NonEmptyQueueIndex
<1>1. Types'
  <2>1. CASE Found(w) /\ victim' = [victim EXCEPT ![w] = IF pc[w] = "check" THEN v ELSE w]
    BY <1>00, <2>1 DEF Types, WorkerPC, MainPC, Found
  <2>2. CASE LookedAt(w, v) /\ UNCHANGED victim
    BY <1>00, <2>2 DEF Types, WorkerPC, MainPC, LookedAt
  <2>. QED
    BY <1>0, <2>1, <2>2
<1>2. Flags'
  BY <1>00 DEF Flags
<1>3. SpinInv'
  <2>1. Spinning' = Spinning
    BY <1>00 DEF Spinning, Types
  <2>. QED
    BY <1>00, <2>1 DEF SpinInv
<1>4. BlockInv'
  <2>1. Blocked' = Blocked /\ MaybeBlocked' = MaybeBlocked
    BY <1>00 DEF Blocked, MaybeBlocked, Types
  <2>. QED
    BY <1>00, <2>1 DEF BlockInv
<1>5. StatusInv'
  <2>1. Pre' = Pre
    BY <1>00 DEF Pre
  <2>2. \A x \in Workers : pc[x] \in Waiting <=> pc'[x] \in Waiting
    BY <1>00 DEF Waiting, Types
  <2>3. \A x \in Workers : pc[x] = "parked" <=> pc'[x] = "parked"
    BY <1>00 DEF Types
  <2>. QED
    BY <1>00, <2>1, <2>2, <2>3 DEF StatusInv, StatusOf
<1>6. ControlInv'
  BY <1>00 DEF ControlInv, Types, Flags, Adding
<1>7. TaskInv'
  <2>1. Slots' = Slots
    BY <1>00 DEF Slots
  <2>2. \A x \in Threads : (Busy(x)' <=> Busy(x)) /\ (pc'[x] = "push" <=> pc[x] = "push")
    BY <1>00 DEF Busy, Adding, Types, ControlInv, Flags
  <2>3. Running' = Running /\ Pushing' = Pushing
    BY <2>2 DEF Running, Pushing
  <2>. QED
    BY <1>00, <2>1, <2>3 DEF TaskInv, InPool
<1>8. AttentionInv'
  <2>. SUFFICES ASSUME ~mCancelled', NEW q \in Workers, queue'[q] > 0
                PROVE  Covered(q)'
    BY DEF AttentionInv
  <2>1. queue[q] > 0 /\ Covered(q)
    BY <1>00 DEF AttentionInv, Types
  <2>2. \A x \in Workers : x # w => (Attentive(x, q) => Attentive(x, q)')
    BY <1>0, <1>00, <2>1 DEF Attentive, Types, Found, LookedAt
  <2>3. Attentive(w, q) => Attentive(w, q)'
    <3>1. CASE queue[v] = 0 /\ LookedAt(w, v) /\ UNCHANGED <<victim, pc>>
      <4>1. q # v
        BY <2>1, <3>1
      <4>2. todo'[w] = todo[w] \ {v}
        BY <3>1 DEF LookedAt, Types
      <4>. QED
        BY <1>00, <3>1, <4>1, <4>2 DEF Attentive
    <3>2. CASE pc' = [pc EXCEPT ![w] = IF pc[w] = "check" THEN "cancelWait" ELSE "unblock"]
      BY <1>00, <3>2 DEF Attentive, Types
    <3>. QED
      BY <1>0, <3>1, <3>2
  <2>4. pc'[Main] = pc[Main]
    BY <1>00 DEF Types
  <2>. QED
    BY <1>00, <2>1, <2>2, <2>3, <2>4 DEF Covered
<1>. QED
  BY <1>1, <1>2, <1>3, <1>4, <1>5, <1>6, <1>7, <1>8

\* A worker that found a task gives up its wait.
LEMMA CancelWaitIInv ==
  ASSUME IInv, NEW w \in Workers, CancelWait(w)
  PROVE  IInv'
<1>. USE PoolFacts
     DEF IInv, CancelWait, mEventCount!CancelWait, mEventCount!Move,
         mEventCount!Unsignaled, Goto, Threads, flags, eventVars, locals, mainVars,
         counts
<1>0. /\ mEventCount!With("pre") = Pre /\ w \in Pre /\ Cardinality(Pre) > 0
      /\ signals' = IF signals < Cardinality(Pre) THEN signals ELSE signals - 1
  <2>1. mEventCount!With("pre") = Pre /\ w \in Pre
    BY PreIsWith DEF Pre
  <2>2. Cardinality(Pre) > 0
    BY <2>1, FiniteParts, Sizes
  <2>. QED
    BY <2>1, <2>2, PreIsWith
<1>00. signals' \in Nat /\ signals' <= Cardinality(Pre) - 1
  BY <1>0, Numbers DEF StatusInv, Types
<1>1. Types'
  BY <1>00 DEF Types, WorkerPC, MainPC
<1>2. Flags'
  BY DEF Flags
<1>3. SpinInv'
  <2>1. Spinning' = Spinning
    BY DEF Spinning, Types
  <2>. QED
    BY <2>1 DEF SpinInv
<1>4. BlockInv'
  <2>1. Blocked' = Blocked /\ MaybeBlocked' = MaybeBlocked
    BY DEF Blocked, MaybeBlocked, Types
  <2>. QED
    BY <2>1 DEF BlockInv
<1>5. StatusInv'
  <2>1. Pre' = Pre \ {w} /\ w \in Pre
    BY DEF Pre, Types
  <2>2. Cardinality(Pre \ {w}) = Cardinality(Pre) - 1 /\ Cardinality(Pre) > 0
    BY <2>1, FiniteParts, Sizes
  <2>3. ASSUME NEW x \in Workers PROVE StatusOf(x)'
    <3>1. StatusOf(x)
      BY DEF StatusInv
    <3>. QED
      BY <3>1 DEF StatusOf, Waiting, Types
  <2>. QED
    BY <1>00, <2>1, <2>2, <2>3 DEF StatusInv
<1>6. ControlInv'
  BY DEF ControlInv, Types, Flags, Adding
<1>7. TaskInv'
  <2>1. Slots' = Slots
    BY DEF Slots
  <2>2. \A x \in Threads : (Busy(x)' <=> Busy(x)) /\ (pc'[x] = "push" <=> pc[x] = "push")
    BY DEF Busy, Adding, Types, ControlInv, Flags
  <2>3. Running' = Running /\ Pushing' = Pushing
    BY <2>2 DEF Running, Pushing
  <2>. QED
    BY <2>1, <2>3 DEF TaskInv, InPool
<1>8. AttentionInv'
  <2>1. \A q \in Workers : Attentive(w, q)'
    BY DEF Attentive, Types
  <2>. QED
    BY <2>1 DEF AttentionInv, Covered
<1>. QED
  BY <1>1, <1>2, <1>3, <1>4, <1>5, <1>6, <1>7, <1>8

\* The cancelled flag, once more.
LEMMA CheckCancelledIInv ==
  ASSUME IInv, NEW w \in Workers, CheckCancelled(w)
  PROVE  IInv'
<1>. USE PoolFacts
     DEF IInv, CheckCancelled, Goto, Threads, flags, eventVars, locals, mainVars, counts
<1>1. Types'
  BY DEF Types, WorkerPC, MainPC
<1>2. Flags'
  BY DEF Flags
<1>3. SpinInv'
  <2>1. Spinning' = Spinning
    BY DEF Spinning, Types
  <2>. QED
    BY <2>1 DEF SpinInv
<1>4. BlockInv'
  <2>1. Blocked' = Blocked /\ MaybeBlocked \subseteq MaybeBlocked'
    BY DEF Blocked, MaybeBlocked, Types
  <2>2. MaybeBlocked' \in SUBSET Workers
    BY DEF Blocked, MaybeBlocked
  <2>3. IsFiniteSet(MaybeBlocked')
    BY <2>2, Finite, Sizes
  <2>4. Cardinality(MaybeBlocked) <= Cardinality(MaybeBlocked') /\ Cardinality(MaybeBlocked') \in Nat
    BY <2>1, <2>3, Sizes
  <2>. QED
    BY <2>1, <2>4, Numbers DEF BlockInv, Types
<1>5. StatusInv'
  <2>1. Pre' = Pre
    BY DEF Pre
  <2>2. \A x \in Workers : pc[x] \in Waiting <=> pc'[x] \in Waiting
    BY DEF Waiting, Types
  <2>3. \A x \in Workers : pc[x] = "parked" <=> pc'[x] = "parked"
    BY DEF Types
  <2>. QED
    BY <2>1, <2>2, <2>3 DEF StatusInv, StatusOf
<1>6. ControlInv'
  BY DEF ControlInv, Types, Flags, Adding
<1>7. TaskInv'
  <2>1. Slots' = Slots
    BY DEF Slots
  <2>2. \A x \in Threads : (Busy(x)' <=> Busy(x)) /\ (pc'[x] = "push" <=> pc[x] = "push")
    BY DEF Busy, Adding, Types, ControlInv, Flags
  <2>3. Running' = Running /\ Pushing' = Pushing
    BY <2>2 DEF Running, Pushing
  <2>. QED
    BY <2>1, <2>3 DEF TaskInv, InPool
<1>8. AttentionInv'
  <2>. SUFFICES ASSUME ~mCancelled', NEW q \in Workers, queue'[q] > 0
                PROVE  Covered(q)'
    BY DEF AttentionInv
  <2>1. queue[q] > 0 /\ Covered(q)
    BY DEF AttentionInv, Types
  <2>2. \A x \in Workers : Attentive(x, q) => Attentive(x, q)'
    BY <2>1 DEF Attentive, Types
  <2>3. pc[Main] \in {"notifyRequired", "notify"} => pc'[Main] \in {"notifyRequired", "notify"}
    BY DEF Types
  <2>. QED
    BY <2>1, <2>2, <2>3 DEF Covered
<1>. QED
  BY <1>1, <1>2, <1>3, <1>4, <1>5, <1>6, <1>7, <1>8

\* The victim is robbed, if it still has something.
LEMMA StealVictimIInv ==
  ASSUME IInv, NEW w \in Workers, StealVictim(w)
  PROVE  IInv'
<1>. USE PoolFacts
     DEF IInv, StealVictim, Goto, Threads, flags, eventVars, locals, mainVars, counts
<1>0. PICK v \in Workers : v = victim[w]
  BY DEF Types
<1>1. Types'
  BY <1>0 DEF Types, WorkerPC, MainPC, Take
<1>2. Flags'
  BY DEF Flags
<1>3. SpinInv'
  <2>1. Spinning' = Spinning
    BY DEF Spinning, Types
  <2>. QED
    BY <2>1 DEF SpinInv
<1>4. BlockInv'
  <2>1. Blocked' = Blocked /\ MaybeBlocked' = MaybeBlocked
    BY DEF Blocked, MaybeBlocked, Types
  <2>. QED
    BY <2>1 DEF BlockInv
<1>5. StatusInv'
  <2>1. Pre' = Pre
    BY DEF Pre
  <2>2. \A x \in Workers : pc[x] \in Waiting <=> pc'[x] \in Waiting
    BY DEF Waiting, Types
  <2>3. \A x \in Workers : pc[x] = "parked" <=> pc'[x] = "parked"
    BY DEF Types
  <2>. QED
    BY <2>1, <2>2, <2>3 DEF StatusInv, StatusOf
<1>6. ControlInv'
  BY DEF ControlInv, Types, Flags, Adding
<1>7. TaskInv'
  <2>0. \A x \in Threads : x # w => (Busy(x)' <=> Busy(x))
    BY DEF Busy, Types
  <2>00. Pushing' = Pushing
    BY DEF Pushing, Types
  <2>1. CASE queue[v] > 0
    <3>1. ~Busy(w) /\ Busy(w)' /\ Take(v)
      BY <1>0, <2>1 DEF Busy, Types, ControlInv, Adding
    <3>2. /\ Cardinality(Slots') = Cardinality(Slots) - 1
          /\ Cardinality(Running') = Cardinality(Running) + 1
      BY <2>0, <2>1, <3>1, TakeSlots, BusyCounts DEF Types
    <3>. QED
      BY <2>00, <3>2, Numbers DEF TaskInv, InPool, Types
  <2>2. CASE queue[v] = 0
    <3>1. Busy(w)' <=> Busy(w)
      BY <1>0, <2>2 DEF Busy, Types, Adding
    <3>2. Slots' = Slots /\ Running' = Running
      BY <1>0, <2>0, <2>2, <3>1, BusyCounts DEF Slots
    <3>. QED
      BY <2>00, <3>2 DEF TaskInv, InPool
  <2>. QED
    BY <2>1, <2>2 DEF Types
<1>8. AttentionInv'
  <2>1. \A q \in Workers : Attentive(w, q)'
    BY DEF Attentive, Types
  <2>. QED
    BY <2>1 DEF AttentionInv, Covered
<1>. QED
  BY <1>1, <1>2, <1>3, <1>4, <1>5, <1>6, <1>7, <1>8

\* A worker counts itself as blocked.
LEMMA BlockIInv ==
  ASSUME IInv, NEW w \in Workers, Block(w)
  PROVE  IInv'
<1>. USE PoolFacts
     DEF IInv, Block, Goto, Threads, flags, eventVars, locals, mainVars, counts
<1>1. Types'
  BY DEF Types, WorkerPC, MainPC
<1>2. Flags'
  BY DEF Flags
<1>3. SpinInv'
  <2>1. Spinning' = Spinning
    BY DEF Spinning, Types
  <2>. QED
    BY <2>1 DEF SpinInv
<1>4. BlockInv'
  <2>1. /\ Blocked' = Blocked \cup {w} /\ w \notin Blocked
        /\ MaybeBlocked' = MaybeBlocked \cup {w} /\ w \notin MaybeBlocked
    BY DEF Blocked, MaybeBlocked, Types
  <2>2. /\ Cardinality(Blocked \cup {w}) = Cardinality(Blocked) + 1
        /\ Cardinality(MaybeBlocked \cup {w}) = Cardinality(MaybeBlocked) + 1
    BY <2>1, FiniteParts, Sizes
  <2>3. /\ Cardinality(Blocked') = Cardinality(Blocked) + 1
        /\ Cardinality(MaybeBlocked') = Cardinality(MaybeBlocked) + 1
    BY <2>1, <2>2
  <2>. QED
    BY <2>3, Numbers DEF BlockInv, Types
<1>5. StatusInv'
  <2>1. Pre' = Pre
    BY DEF Pre
  <2>2. \A x \in Workers : pc[x] \in Waiting <=> pc'[x] \in Waiting
    BY DEF Waiting, Types
  <2>3. \A x \in Workers : pc[x] = "parked" <=> pc'[x] = "parked"
    BY DEF Types
  <2>. QED
    BY <2>1, <2>2, <2>3 DEF StatusInv, StatusOf
<1>6. ControlInv'
  BY DEF ControlInv, Types, Flags, Adding
<1>7. TaskInv'
  <2>1. Slots' = Slots
    BY DEF Slots
  <2>2. \A x \in Threads : (Busy(x)' <=> Busy(x)) /\ (pc'[x] = "push" <=> pc[x] = "push")
    BY DEF Busy, Adding, Types, ControlInv, Flags
  <2>3. Running' = Running /\ Pushing' = Pushing
    BY <2>2 DEF Running, Pushing
  <2>. QED
    BY <2>1, <2>3 DEF TaskInv, InPool
<1>8. AttentionInv'
  <2>. SUFFICES ASSUME ~mCancelled', NEW q \in Workers, queue'[q] > 0
                PROVE  Covered(q)'
    BY DEF AttentionInv
  <2>1. queue[q] > 0 /\ Covered(q)
    BY DEF AttentionInv, Types
  <2>2. \A x \in Workers : Attentive(x, q) => Attentive(x, q)'
    BY <2>1 DEF Attentive, Types
  <2>3. pc[Main] \in {"notifyRequired", "notify"} => pc'[Main] \in {"notifyRequired", "notify"}
    BY DEF Types
  <2>. QED
    BY <2>1, <2>2, <2>3 DEF Covered
<1>. QED
  BY <1>1, <1>2, <1>3, <1>4, <1>5, <1>6, <1>7, <1>8

\* Are all blocked?
LEMMA CheckAllBlockedIInv ==
  ASSUME IInv, NEW w \in Workers, CheckAllBlocked(w)
  PROVE  IInv'
<1>. USE PoolFacts
     DEF IInv, CheckAllBlocked, Goto, Threads, flags, eventVars, locals, mainVars,
         counts
<1>1. Types'
  BY DEF Types, WorkerPC, MainPC
<1>2. Flags'
  BY DEF Flags
<1>3. SpinInv'
  <2>1. Spinning' = Spinning
    BY DEF Spinning, Types
  <2>. QED
    BY <2>1 DEF SpinInv
<1>4. BlockInv'
  <2>1. Blocked' = Blocked /\ MaybeBlocked' = MaybeBlocked
    BY DEF Blocked, MaybeBlocked, Types
  <2>. QED
    BY <2>1 DEF BlockInv
<1>5. StatusInv'
  <2>1. Pre' = Pre
    BY DEF Pre
  <2>2. \A x \in Workers : pc[x] \in Waiting <=> pc'[x] \in Waiting
    BY DEF Waiting, Types
  <2>3. \A x \in Workers : pc[x] = "parked" <=> pc'[x] = "parked"
    BY DEF Types
  <2>. QED
    BY <2>1, <2>2, <2>3 DEF StatusInv, StatusOf
<1>6. ControlInv'
  BY DEF ControlInv, Types, Flags, Adding
<1>7. TaskInv'
  <2>1. Slots' = Slots
    BY DEF Slots
  <2>2. \A x \in Threads : (Busy(x)' <=> Busy(x)) /\ (pc'[x] = "push" <=> pc[x] = "push")
    BY DEF Busy, Adding, Types, ControlInv, Flags
  <2>3. Running' = Running /\ Pushing' = Pushing
    BY <2>2 DEF Running, Pushing
  <2>. QED
    BY <2>1, <2>3 DEF TaskInv, InPool
<1>8. AttentionInv'
  <2>. SUFFICES ASSUME ~mCancelled', NEW q \in Workers, queue'[q] > 0
                PROVE  Covered(q)'
    BY DEF AttentionInv
  <2>1. queue[q] > 0 /\ Covered(q)
    BY DEF AttentionInv, Types
  <2>2. \A x \in Workers : Attentive(x, q) => Attentive(x, q)'
    BY <2>1 DEF Attentive, Types
  <2>3. pc[Main] \in {"notifyRequired", "notify"} => pc'[Main] \in {"notifyRequired", "notify"}
    BY DEF Types
  <2>. QED
    BY <2>1, <2>2, <2>3 DEF Covered
<1>. QED
  BY <1>1, <1>2, <1>3, <1>4, <1>5, <1>6, <1>7, <1>8

\* Main is told that all are blocked.
LEMMA NotifyAllBlockedIInv ==
  ASSUME IInv, NEW w \in Workers, NotifyAllBlocked(w)
  PROVE  IInv'
<1>. USE PoolFacts
     DEF IInv, NotifyAllBlocked, Goto, Threads, flags, eventVars, locals, mainVars,
         counts
<1>1. Types'
  BY DEF Types, WorkerPC, MainPC
<1>2. Flags'
  BY DEF Flags
<1>3. SpinInv'
  <2>1. Spinning' = Spinning
    BY DEF Spinning, Types
  <2>. QED
    BY <2>1 DEF SpinInv
<1>4. BlockInv'
  <2>1. Blocked' = Blocked /\ MaybeBlocked' = MaybeBlocked
    BY DEF Blocked, MaybeBlocked, Types
  <2>. QED
    BY <2>1 DEF BlockInv
<1>5. StatusInv'
  <2>1. Pre' = Pre
    BY DEF Pre
  <2>2. \A x \in Workers : pc[x] \in Waiting <=> pc'[x] \in Waiting
    BY DEF Waiting, Types
  <2>3. \A x \in Workers : pc[x] = "parked" <=> pc'[x] = "parked"
    BY DEF Types
  <2>. QED
    BY <2>1, <2>2, <2>3 DEF StatusInv, StatusOf
<1>6. ControlInv'
  BY DEF ControlInv, Types, Flags, Adding
<1>7. TaskInv'
  <2>1. Slots' = Slots
    BY DEF Slots
  <2>2. \A x \in Threads : (Busy(x)' <=> Busy(x)) /\ (pc'[x] = "push" <=> pc[x] = "push")
    BY DEF Busy, Adding, Types, ControlInv, Flags
  <2>3. Running' = Running /\ Pushing' = Pushing
    BY <2>2 DEF Running, Pushing
  <2>. QED
    BY <2>1, <2>3 DEF TaskInv, InPool
<1>8. AttentionInv'
  <2>. SUFFICES ASSUME ~mCancelled', NEW q \in Workers, queue'[q] > 0
                PROVE  Covered(q)'
    BY DEF AttentionInv
  <2>1. queue[q] > 0 /\ Covered(q)
    BY DEF AttentionInv, Types
  <2>2. \A x \in Workers : Attentive(x, q) => Attentive(x, q)'
    BY <2>1 DEF Attentive, Types
  <2>3. pc[Main] \in {"notifyRequired", "notify"} => pc'[Main] \in {"notifyRequired", "notify"}
    BY DEF Types
  <2>. QED
    BY <2>1, <2>2, <2>3 DEF Covered
<1>. QED
  BY <1>1, <1>2, <1>3, <1>4, <1>5, <1>6, <1>7, <1>8

\* Is the pool to shut down, and is this the last worker?
LEMMA CheckDoneIInv ==
  ASSUME IInv, NEW w \in Workers, CheckDone(w)
  PROVE  IInv'
<1>. USE PoolFacts
     DEF IInv, CheckDone, Goto, Threads, flags, eventVars, locals, mainVars, counts
<1>1. Types'
  BY DEF Types, WorkerPC, MainPC
<1>2. Flags'
  BY DEF Flags
<1>3. SpinInv'
  <2>1. Spinning' = Spinning
    BY DEF Spinning, Types
  <2>. QED
    BY <2>1 DEF SpinInv
<1>4. BlockInv'
  <2>1. Blocked' = Blocked /\ MaybeBlocked' = MaybeBlocked
    BY DEF Blocked, MaybeBlocked, Types
  <2>. QED
    BY <2>1 DEF BlockInv
<1>5. StatusInv'
  <2>1. Pre' = Pre
    BY DEF Pre
  <2>2. \A x \in Workers : pc[x] \in Waiting <=> pc'[x] \in Waiting
    BY DEF Waiting, Types
  <2>3. \A x \in Workers : pc[x] = "parked" <=> pc'[x] = "parked"
    BY DEF Types
  <2>. QED
    BY <2>1, <2>2, <2>3 DEF StatusInv, StatusOf
<1>6. ControlInv'
  BY DEF ControlInv, Types, Flags, Adding
<1>7. TaskInv'
  <2>1. Slots' = Slots
    BY DEF Slots
  <2>2. \A x \in Threads : (Busy(x)' <=> Busy(x)) /\ (pc'[x] = "push" <=> pc[x] = "push")
    BY DEF Busy, Adding, Types, ControlInv, Flags
  <2>3. Running' = Running /\ Pushing' = Pushing
    BY <2>2 DEF Running, Pushing
  <2>. QED
    BY <2>1, <2>3 DEF TaskInv, InPool
<1>8. AttentionInv'
  <2>. SUFFICES ASSUME ~mCancelled', NEW q \in Workers, queue'[q] > 0
                PROVE  Covered(q)'
    BY DEF AttentionInv
  <2>1. queue[q] > 0 /\ Covered(q)
    BY DEF AttentionInv, Types
  <2>2. \A x \in Workers : Attentive(x, q) => Attentive(x, q)'
    BY <2>1 DEF Attentive, Types
  <2>3. pc[Main] \in {"notifyRequired", "notify"} => pc'[Main] \in {"notifyRequired", "notify"}
    BY DEF Types
  <2>. QED
    BY <2>1, <2>2, <2>3 DEF Covered
<1>. QED
  BY <1>1, <1>2, <1>3, <1>4, <1>5, <1>6, <1>7, <1>8

\* The last worker to block gives up its wait.
LEMMA ShutDownIInv ==
  ASSUME IInv, NEW w \in Workers, ShutDown(w)
  PROVE  IInv'
<1>. USE PoolFacts
     DEF IInv, ShutDown, Scan, mEventCount!CancelWait, mEventCount!Move,
         mEventCount!Unsignaled, Goto, Threads, flags, eventVars, locals, mainVars,
         counts
<1>0. /\ mEventCount!With("pre") = Pre /\ w \in Pre /\ Cardinality(Pre) > 0
      /\ signals' = IF signals < Cardinality(Pre) THEN signals ELSE signals - 1
  <2>1. mEventCount!With("pre") = Pre /\ w \in Pre
    BY PreIsWith DEF Pre
  <2>2. Cardinality(Pre) > 0
    BY <2>1, FiniteParts, Sizes
  <2>. QED
    BY <2>1, <2>2, PreIsWith
<1>00. signals' \in Nat /\ signals' <= Cardinality(Pre) - 1
  BY <1>0, Numbers DEF StatusInv, Types
<1>1. Types'
  BY <1>00 DEF Types, WorkerPC, MainPC
<1>2. Flags'
  BY DEF Flags
<1>3. SpinInv'
  <2>1. Spinning' = Spinning
    BY DEF Spinning, Types
  <2>. QED
    BY <2>1 DEF SpinInv
<1>4. BlockInv'
  <2>1. Blocked' = Blocked /\ MaybeBlocked' = MaybeBlocked
    BY DEF Blocked, MaybeBlocked, Types
  <2>. QED
    BY <2>1 DEF BlockInv
<1>5. StatusInv'
  <2>1. Pre' = Pre \ {w} /\ w \in Pre
    BY DEF Pre, Types
  <2>2. Cardinality(Pre \ {w}) = Cardinality(Pre) - 1 /\ Cardinality(Pre) > 0
    BY <2>1, FiniteParts, Sizes
  <2>3. ASSUME NEW x \in Workers PROVE StatusOf(x)'
    <3>1. StatusOf(x)
      BY DEF StatusInv
    <3>. QED
      BY <3>1 DEF StatusOf, Waiting, Types
  <2>. QED
    BY <1>00, <2>1, <2>2, <2>3 DEF StatusInv
<1>6. ControlInv'
  BY DEF ControlInv, Types, Flags, Adding
<1>7. TaskInv'
  <2>1. Slots' = Slots
    BY DEF Slots
  <2>2. \A x \in Threads : (Busy(x)' <=> Busy(x)) /\ (pc'[x] = "push" <=> pc[x] = "push")
    BY DEF Busy, Adding, Types, ControlInv, Flags
  <2>3. Running' = Running /\ Pushing' = Pushing
    BY <2>2 DEF Running, Pushing
  <2>. QED
    BY <2>1, <2>3 DEF TaskInv, InPool
<1>8. AttentionInv'
  <2>1. \A q \in Workers : Attentive(w, q)'
    BY DEF Attentive, Types
  <2>. QED
    BY <2>1 DEF AttentionInv, Covered
<1>. QED
  BY <1>1, <1>2, <1>3, <1>4, <1>5, <1>6, <1>7, <1>8

\* The last worker leaves, still counted as blocked, and wakes the others.
LEMMA ExitIInv ==
  ASSUME IInv, NEW w \in Workers, Exit(w)
  PROVE  IInv'
<1>. USE PoolFacts
     DEF IInv, Exit, mEventCount!NotifyAll, mEventCount!Move, mEventCount!Unsignaled,
         Goto, Threads, flags, eventVars, locals, mainVars, counts
<1>1. Types'
  <2>1. signals' = Cardinality(Pre)
    BY PreIsWith
  <2>2. signals' \in Nat
    BY <2>1, Numbers
  <2>. QED
    BY <2>2 DEF Types, WorkerPC, MainPC
<1>2. Flags'
  BY DEF Flags
<1>3. SpinInv'
  <2>1. Spinning' = Spinning
    BY DEF Spinning, Types
  <2>. QED
    BY <2>1 DEF SpinInv
<1>4. BlockInv'
  <2>1. /\ Blocked' = Blocked \ {w} /\ w \in Blocked
        /\ MaybeBlocked' = MaybeBlocked
    BY DEF Blocked, MaybeBlocked, Types
  <2>2. Cardinality(Blocked \ {w}) = Cardinality(Blocked) - 1
    BY <2>1, FiniteParts, Sizes
  <2>3. /\ Cardinality(Blocked') = Cardinality(Blocked) - 1
        /\ Cardinality(MaybeBlocked') = Cardinality(MaybeBlocked)
    BY <2>1, <2>2
  <2>. QED
    BY <2>3, Numbers DEF BlockInv, Types
<1>5. StatusInv'
  <2>1. Pre' = Pre
    BY DEF Pre, Types
  <2>2. signals' = Cardinality(Pre')
    BY <2>1, PreIsWith
  <2>3. ASSUME NEW x \in Workers PROVE StatusOf(x)'
    <3>1. StatusOf(x)
      BY DEF StatusInv, Types
    <3>. QED
      BY <3>1 DEF StatusOf, Waiting, Types
  <2>. QED
    BY <1>1, <2>2, <2>3 DEF StatusInv, Types
<1>6. ControlInv'
  BY DEF ControlInv, Types, Flags, Adding
<1>7. TaskInv'
  <2>1. Slots' = Slots
    BY DEF Slots
  <2>2. \A x \in Threads : (Busy(x)' <=> Busy(x)) /\ (pc'[x] = "push" <=> pc[x] = "push")
    BY DEF Busy, Adding, Types, ControlInv, Flags
  <2>3. Running' = Running /\ Pushing' = Pushing
    BY <2>2 DEF Running, Pushing
  <2>. QED
    BY <2>1, <2>3 DEF TaskInv, InPool
<1>8. AttentionInv'
  <2>. SUFFICES ASSUME ~mCancelled', NEW q \in Workers, queue'[q] > 0
                PROVE  Covered(q)'
    BY DEF AttentionInv
  <2>1. queue[q] > 0 /\ Covered(q)
    BY DEF AttentionInv, Types
  <2>2. \A x \in Workers : Attentive(x, q) => Attentive(x, q)'
    BY <2>1 DEF Attentive, Types
  <2>3. pc'[Main] = pc[Main]
    BY DEF Types
  <2>4. \A x \in Workers : status[x] = "woken" => status'[x] = "woken"
    BY DEF Types
  <2>5. signals > 0 => signals' > 0
    BY PreIsWith, Numbers DEF StatusInv, Types
  <2>. QED
    BY <2>1, <2>2, <2>3, <2>4, <2>5 DEF Covered
<1>. QED
  BY <1>1, <1>2, <1>3, <1>4, <1>5, <1>6, <1>7, <1>8

\* A worker consumes a signal, or parks.
LEMMA CommitWaitIInv ==
  ASSUME IInv, NEW w \in Workers, CommitWait(w)
  PROVE  IInv'
<1>. USE PoolFacts
     DEF IInv, CommitWait, mEventCount!CommitConsume, mEventCount!CommitPark,
         mEventCount!Move, mEventCount!Unsignaled, Goto, Threads, flags, eventVars,
         locals, mainVars, counts
<1>1. Types'
  BY DEF Types, WorkerPC, MainPC
<1>2. Flags'
  BY DEF Flags
<1>3. SpinInv'
  <2>1. Spinning' = Spinning
    BY DEF Spinning, Types
  <2>. QED
    BY <2>1 DEF SpinInv
<1>4. BlockInv'
  <2>1. Blocked' = Blocked /\ MaybeBlocked' = MaybeBlocked
    BY DEF Blocked, MaybeBlocked, Types
  <2>. QED
    BY <2>1 DEF BlockInv
<1>5. StatusInv'
  <2>1. Pre' = Pre \ {w} /\ w \in Pre
    BY DEF Pre, Types
  <2>2. Cardinality(Pre \ {w}) = Cardinality(Pre) - 1 /\ Cardinality(Pre) > 0
    BY <2>1, FiniteParts, Sizes
  <2>3. ASSUME NEW x \in Workers PROVE StatusOf(x)'
    <3>1. StatusOf(x)
      BY DEF StatusInv
    <3>. QED
      BY <3>1 DEF StatusOf, Waiting, Types
  <2>4. signals' <= Cardinality(Pre) - 1
    BY <2>2, Numbers DEF StatusInv, Types
  <2>. QED
    BY <2>1, <2>2, <2>3, <2>4 DEF StatusInv
<1>6. ControlInv'
  BY DEF ControlInv, Types, Flags, Adding
<1>7. TaskInv'
  <2>1. Slots' = Slots
    BY DEF Slots
  <2>2. \A x \in Threads : (Busy(x)' <=> Busy(x)) /\ (pc'[x] = "push" <=> pc[x] = "push")
    BY DEF Busy, Adding, Types, ControlInv, Flags
  <2>3. Running' = Running /\ Pushing' = Pushing
    BY <2>2 DEF Running, Pushing
  <2>. QED
    BY <2>1, <2>3 DEF TaskInv, InPool
<1>8. AttentionInv'
  <2>1. CASE signals > 0
    <3>1. \A q \in Workers : Attentive(w, q)'
      BY <2>1 DEF Attentive, Types
    <3>. QED
      BY <3>1 DEF AttentionInv, Covered
  <2>2. CASE ~(signals > 0)
    <3>. SUFFICES ASSUME ~mCancelled', NEW q \in Workers, queue'[q] > 0
                  PROVE  Covered(q)'
      BY DEF AttentionInv
    <3>1. queue[q] > 0 /\ Covered(q)
      BY DEF AttentionInv, Types
    <3>2. \A x \in Workers : Attentive(x, q) => Attentive(x, q)'
      BY DEF Attentive, Types
    <3>3. pc'[Main] = pc[Main]
      BY DEF Types
    <3>4. \A x \in Workers : status[x] = "woken" => status'[x] = "woken"
      BY <2>2 DEF Types
    <3>. QED
      BY <2>2, <3>1, <3>2, <3>3, <3>4 DEF Covered
  <2>. QED
    BY <2>1, <2>2
<1>. QED
  BY <1>1, <1>2, <1>3, <1>4, <1>5, <1>6, <1>7, <1>8

\* A parked worker that was woken returns.
LEMMA WakeIInv ==
  ASSUME IInv, NEW w \in Workers, Wake(w)
  PROVE  IInv'
<1>. USE PoolFacts
     DEF IInv, Wake, mEventCount!Return, mEventCount!Move, mEventCount!Unsignaled, Goto,
         Threads, flags, eventVars, locals, mainVars, counts
<1>1. Types'
  BY DEF Types, WorkerPC, MainPC
<1>2. Flags'
  BY DEF Flags
<1>3. SpinInv'
  <2>1. Spinning' = Spinning
    BY DEF Spinning, Types
  <2>. QED
    BY <2>1 DEF SpinInv
<1>4. BlockInv'
  <2>1. Blocked' = Blocked /\ MaybeBlocked' = MaybeBlocked
    BY DEF Blocked, MaybeBlocked, Types
  <2>. QED
    BY <2>1 DEF BlockInv
<1>5. StatusInv'
  <2>1. Pre' = Pre
    BY DEF Pre, Types
  <2>2. ASSUME NEW x \in Workers PROVE StatusOf(x)'
    <3>1. StatusOf(x)
      BY DEF StatusInv
    <3>. QED
      BY <3>1 DEF StatusOf, Waiting, Types
  <2>. QED
    BY <2>1, <2>2 DEF StatusInv
<1>6. ControlInv'
  BY DEF ControlInv, Types, Flags, Adding
<1>7. TaskInv'
  <2>1. Slots' = Slots
    BY DEF Slots
  <2>2. \A x \in Threads : (Busy(x)' <=> Busy(x)) /\ (pc'[x] = "push" <=> pc[x] = "push")
    BY DEF Busy, Adding, Types, ControlInv, Flags
  <2>3. Running' = Running /\ Pushing' = Pushing
    BY <2>2 DEF Running, Pushing
  <2>. QED
    BY <2>1, <2>3 DEF TaskInv, InPool
<1>8. AttentionInv'
  <2>1. \A q \in Workers : Attentive(w, q)'
    BY DEF Attentive, Types
  <2>. QED
    BY <2>1 DEF AttentionInv, Covered
<1>. QED
  BY <1>1, <1>2, <1>3, <1>4, <1>5, <1>6, <1>7, <1>8

\* A worker is not blocked any more.
LEMMA UnblockIInv ==
  ASSUME IInv, NEW w \in Workers, Unblock(w)
  PROVE  IInv'
<1>. USE PoolFacts
     DEF IInv, Unblock, Goto, Threads, flags, eventVars, locals, mainVars, counts
<1>0. /\ Blocked' = Blocked \ {w} /\ w \in Blocked
      /\ MaybeBlocked' = MaybeBlocked \ {w} /\ w \in MaybeBlocked
  BY DEF Blocked, MaybeBlocked, Types
<1>00. /\ Cardinality(Blocked \ {w}) = Cardinality(Blocked) - 1
       /\ Cardinality(MaybeBlocked \ {w}) = Cardinality(MaybeBlocked) - 1
       /\ Cardinality(Blocked) > 0
  BY <1>0, FiniteParts, Sizes
<1>000. mBlocked > 0
  BY <1>00, Numbers DEF BlockInv, Types
<1>1. Types'
  BY <1>000 DEF Types, WorkerPC, MainPC
<1>2. Flags'
  BY DEF Flags
<1>3. SpinInv'
  <2>1. Spinning' = Spinning
    BY DEF Spinning, Types
  <2>. QED
    BY <2>1 DEF SpinInv
<1>4. BlockInv'
  <2>1. /\ Cardinality(Blocked') = Cardinality(Blocked) - 1
        /\ Cardinality(MaybeBlocked') = Cardinality(MaybeBlocked) - 1
    BY <1>0, <1>00
  <2>. QED
    BY <1>000, <2>1, Numbers DEF BlockInv, Types
<1>5. StatusInv'
  <2>1. Pre' = Pre
    BY DEF Pre
  <2>2. \A x \in Workers : pc[x] \in Waiting <=> pc'[x] \in Waiting
    BY DEF Waiting, Types
  <2>3. \A x \in Workers : pc[x] = "parked" <=> pc'[x] = "parked"
    BY DEF Types
  <2>. QED
    BY <2>1, <2>2, <2>3 DEF StatusInv, StatusOf
<1>6. ControlInv'
  BY DEF ControlInv, Types, Flags, Adding
<1>7. TaskInv'
  <2>1. Slots' = Slots
    BY DEF Slots
  <2>2. \A x \in Threads : (Busy(x)' <=> Busy(x)) /\ (pc'[x] = "push" <=> pc[x] = "push")
    BY DEF Busy, Adding, Types, ControlInv, Flags
  <2>3. Running' = Running /\ Pushing' = Pushing
    BY <2>2 DEF Running, Pushing
  <2>. QED
    BY <2>1, <2>3 DEF TaskInv, InPool
<1>8. AttentionInv'
  <2>1. \A q \in Workers : Attentive(w, q)'
    BY DEF Attentive, Types
  <2>. QED
    BY <2>1 DEF AttentionInv, Covered
<1>. QED
  BY <1>1, <1>2, <1>3, <1>4, <1>5, <1>6, <1>7, <1>8

\* A task ends.
LEMMA FinishTaskIInv ==
  ASSUME IInv, NEW w \in Workers, FinishTask(w)
  PROVE  IInv'
<1>. USE PoolFacts
     DEF IInv, FinishTask, Goto, Threads, flags, eventVars, locals, mainVars, counts
<1>1. Types'
  BY DEF Types, WorkerPC, MainPC
<1>2. Flags'
  BY DEF Flags
<1>3. SpinInv'
  <2>1. Spinning' = Spinning
    BY DEF Spinning, Types
  <2>. QED
    BY <2>1 DEF SpinInv
<1>4. BlockInv'
  <2>1. Blocked' = Blocked /\ MaybeBlocked' = MaybeBlocked
    BY DEF Blocked, MaybeBlocked, Types
  <2>. QED
    BY <2>1 DEF BlockInv
<1>5. StatusInv'
  <2>1. Pre' = Pre
    BY DEF Pre
  <2>2. \A x \in Workers : pc[x] \in Waiting <=> pc'[x] \in Waiting
    BY DEF Waiting, Types
  <2>3. \A x \in Workers : pc[x] = "parked" <=> pc'[x] = "parked"
    BY DEF Types
  <2>. QED
    BY <2>1, <2>2, <2>3 DEF StatusInv, StatusOf
<1>6. ControlInv'
  BY DEF ControlInv, Types, Flags, Adding
<1>7. TaskInv'
  <2>0. \A x \in Threads : x # w => (Busy(x)' <=> Busy(x))
    BY DEF Busy, Types
  <2>00. Pushing' = Pushing
    BY DEF Pushing, Types
  <2>1. Busy(w) /\ ~Busy(w)'
    BY DEF Busy, Types, ControlInv, Adding
  <2>2. Slots' = Slots /\ Cardinality(Running') = Cardinality(Running) - 1
    BY <2>0, <2>1, BusyCounts DEF Slots
  <2>. QED
    BY <2>00, <2>2, Numbers DEF TaskInv, InPool, Types
<1>8. AttentionInv'
  <2>1. \A q \in Workers : Attentive(w, q)'
    BY DEF Attentive, Types
  <2>. QED
    BY <2>1 DEF AttentionInv, Covered
<1>. QED
  BY <1>1, <1>2, <1>3, <1>4, <1>5, <1>6, <1>7, <1>8

\* A task submits a task.
LEMMA AddTaskIInv ==
  ASSUME IInv, NEW w \in Workers, AddTask(w)
  PROVE  IInv'
<1>. USE PoolFacts
     DEF IInv, AddTask, Goto, Threads, flags, eventVars, locals, mainVars, counts
<1>1. Types'
  BY DEF Types, WorkerPC, MainPC
<1>2. Flags'
  BY DEF Flags
<1>3. SpinInv'
  <2>1. Spinning' = Spinning
    BY DEF Spinning, Types
  <2>. QED
    BY <2>1 DEF SpinInv
<1>4. BlockInv'
  <2>1. Blocked' = Blocked /\ MaybeBlocked' = MaybeBlocked
    BY DEF Blocked, MaybeBlocked, Types
  <2>. QED
    BY <2>1 DEF BlockInv
<1>5. StatusInv'
  <2>1. Pre' = Pre
    BY DEF Pre
  <2>2. \A x \in Workers : pc[x] \in Waiting <=> pc'[x] \in Waiting
    BY DEF Waiting, Types
  <2>3. \A x \in Workers : pc[x] = "parked" <=> pc'[x] = "parked"
    BY DEF Types
  <2>. QED
    BY <2>1, <2>2, <2>3 DEF StatusInv, StatusOf
<1>6. ControlInv'
  BY DEF ControlInv, Types, Flags, Adding
<1>7. TaskInv'
  <2>1. \A x \in Threads : Busy(x)' <=> Busy(x)
    BY DEF Busy, Types, Adding
  <2>2. Slots' = Slots /\ Running' = Running
    BY <2>1 DEF Slots, Running
  <2>3. Pushing' = Pushing \cup {w} /\ w \notin Pushing
    BY DEF Pushing, Types
  <2>4. Cardinality(Pushing \cup {w}) = Cardinality(Pushing) + 1
    BY <2>3, FiniteParts, Sizes
  <2>5. Cardinality(Pushing') = Cardinality(Pushing) + 1
    BY <2>3, <2>4
  <2>. QED
    BY <2>2, <2>5, Numbers DEF TaskInv, InPool, Types
<1>8. AttentionInv'
  <2>1. \A q \in Workers : Attentive(w, q)'
    BY DEF Attentive, Types
  <2>. QED
    BY <2>1 DEF AttentionInv, Covered
<1>. QED
  BY <1>1, <1>2, <1>3, <1>4, <1>5, <1>6, <1>7, <1>8

\* A thread pushes the task, or runs it on the spot.
LEMMA PushIInv ==
  ASSUME IInv, NEW t \in Threads, Push(t)
  PROVE  IInv'
<1>. USE PoolFacts
     DEF IInv, Push, Caller, Goto, Threads, flags, eventVars, locals, mainVars, counts
<1>0. PICK v \in Workers : v = victim[t]
  BY DEF Types
<1>00. PICK to \in {"run", "quiesceRun", "idle", "notifyRequired"} :
         /\ pc' = [pc EXCEPT ![t] = to]
         /\ t \in Workers => to \in {"run", "notifyRequired"}
         /\ t = Main => to # "run"
         /\ t = Main /\ to # "notifyRequired" => (to = "quiesceRun" <=> quiescing)
         /\ t = Main /\ queue[v] < kCapacity => to = "notifyRequired"
  <2>1. CASE t \in Workers
    BY <1>0, <2>1 DEF SkipsNotify
  <2>2. CASE t = Main
    BY <1>0, <2>2 DEF SkipsNotify
  <2>. QED
    BY <2>1, <2>2
<1>000. /\ pc[t] = "push"
        /\ \/ queue[v] < kCapacity /\ queue' = [queue EXCEPT ![v] = @ + 1] /\ executed' = executed
           \/ queue[v] = kCapacity /\ queue' = queue /\ executed' = executed + 1
        /\ victim' = [victim EXCEPT ![t] = t]
        /\ UNCHANGED <<flags, mSpinningState, eventVars, todo, hand, mainVars, submitted>>
  BY <1>0
<1>0000. skipNotify' = [u \in Workers |-> skipNotify[u] /\ u # t]
  OBVIOUS
<1>. HIDE DEF Push, Caller
<1>1. Types'
  BY <1>00, <1>000 DEF Types, WorkerPC, MainPC
<1>2. Flags'
  BY <1>000, <1>0000 DEF Flags
<1>3. SpinInv'
  <2>1. Spinning' = Spinning
    BY <1>00, <1>000 DEF Spinning, Types
  <2>. QED
    BY <1>000, <2>1 DEF SpinInv
<1>4. BlockInv'
  <2>1. Blocked' = Blocked /\ MaybeBlocked' = MaybeBlocked
    BY <1>00, <1>000 DEF Blocked, MaybeBlocked, Types
  <2>. QED
    BY <1>000, <2>1 DEF BlockInv
<1>5. StatusInv'
  <2>1. Pre' = Pre
    BY <1>000 DEF Pre
  <2>2. \A x \in Workers : /\ pc[x] \in Waiting <=> pc'[x] \in Waiting
                           /\ pc[x] = "parked" <=> pc'[x] = "parked"
    BY <1>00, <1>000 DEF Waiting, Types
  <2>. QED
    BY <1>000, <2>1, <2>2 DEF StatusInv, StatusOf
<1>6. ControlInv'
  BY <1>00, <1>000 DEF ControlInv, Types, Flags, Adding
<1>7. TaskInv'
  <2>1. \A x \in Threads : Busy(x)' <=> Busy(x)
    BY <1>00, <1>000 DEF Busy, Types, Adding
  <2>2. Running' = Running
    BY <2>1 DEF Running
  <2>3. Pushing' = Pushing \ {t} /\ t \in Pushing
    BY <1>00, <1>000 DEF Pushing, Types
  <2>4. Cardinality(Pushing \ {t}) = Cardinality(Pushing) - 1
    BY <2>3, FiniteParts, Sizes
  <2>5. Cardinality(Pushing') = Cardinality(Pushing) - 1
    BY <2>3, <2>4
  <2>6. CASE queue[v] < kCapacity
    <3>1. Cardinality(Slots') = Cardinality(Slots) + 1 /\ executed' = executed
      BY <1>000, <2>6, PushSlots DEF Types
    <3>. QED
      BY <1>000, <2>2, <2>5, <3>1, Numbers DEF TaskInv, InPool, Types
  <2>7. CASE ~(queue[v] < kCapacity)
    <3>1. Slots' = Slots /\ executed' = executed + 1
      BY <1>000, <2>7 DEF Slots
    <3>. QED
      BY <1>000, <2>2, <2>5, <3>1, Numbers DEF TaskInv, InPool, Types
  <2>. QED
    BY <2>6, <2>7
<1>8. AttentionInv'
  <2>1. CASE t \in Workers
    <3>1. \A q \in Workers : Attentive(t, q)'
      BY <1>00, <2>1 DEF Attentive, Types
    <3>. QED
      BY <2>1, <3>1 DEF AttentionInv, Covered
  <2>2. CASE t = Main /\ queue[v] < kCapacity
    <3>1. pc'[Main] = "notifyRequired"
      BY <1>00, <2>2 DEF Types
    <3>. QED
      BY <3>1 DEF AttentionInv, Covered
  <2>3. CASE t = Main /\ ~(queue[v] < kCapacity)
    <3>. SUFFICES ASSUME ~mCancelled', NEW q \in Workers, queue'[q] > 0
                  PROVE  Covered(q)'
      BY DEF AttentionInv
    <3>1. queue[q] > 0 /\ Covered(q)
      BY <1>000, <2>3 DEF AttentionInv, Types
    <3>2. \A x \in Workers : Attentive(x, q) => Attentive(x, q)'
      BY <1>00, <1>000, <2>3 DEF Attentive, Types
    <3>3. pc[Main] \notin {"notifyRequired", "notify"}
      BY <1>000, <2>3
    <3>. QED
      BY <1>000, <3>1, <3>2, <3>3 DEF Covered
  <2>. QED
    BY <2>1, <2>2, <2>3
<1>. QED
  BY <1>1, <1>2, <1>3, <1>4, <1>5, <1>6, <1>7, <1>8

\* Somebody spins, or a parked thread is to be notified.
LEMMA IsNotifyParkedThreadRequiredIInv ==
  ASSUME IInv, NEW t \in Threads, IsNotifyParkedThreadRequired(t)
  PROVE  IInv'
<1>. USE PoolFacts
     DEF IInv, IsNotifyParkedThreadRequired, Goto, Threads, flags, eventVars, locals,
         mainVars, counts
<1>00. PICK to \in {"run", "quiesceRun", "idle", "notify"} :
         /\ pc' = [pc EXCEPT ![t] = to]
         /\ t \in Workers => to \in {"run", "notify"}
         /\ t = Main => to # "run"
         /\ t = Main /\ to \notin Adding => (to = "quiesceRun" <=> quiescing)
  BY DEF Caller, Adding
<1>1. Types'
  BY <1>00 DEF Types, WorkerPC, MainPC
<1>2. Flags'
  BY DEF Flags
<1>3. SpinInv'
  <2>1. Spinning' = Spinning
    BY <1>00 DEF Spinning, Types
  <2>2. CASE NotifyRequired
    BY <2>1, <2>2 DEF SpinInv, NotifyRequired
  <2>3. CASE ~NotifyRequired
    <3>1. /\ mSpinningState'.mNumSpinning = mSpinningState.mNumSpinning
          /\ mSpinningState'.mNumNoNotification = mSpinningState.mNumNoNotification + 1
      BY <2>3 DEF Types
    <3>. QED
      BY <2>1, <2>3, <3>1 DEF SpinInv, NotifyRequired, Types
  <2>. QED
    BY <2>2, <2>3
<1>4. BlockInv'
  <2>1. Blocked' = Blocked /\ MaybeBlocked' = MaybeBlocked
    BY <1>00 DEF Blocked, MaybeBlocked, Types
  <2>. QED
    BY <2>1 DEF BlockInv
<1>5. StatusInv'
  <2>1. Pre' = Pre
    BY <1>00 DEF Pre
  <2>2. \A x \in Workers : pc[x] \in Waiting <=> pc'[x] \in Waiting
    BY <1>00 DEF Waiting, Types
  <2>3. \A x \in Workers : pc[x] = "parked" <=> pc'[x] = "parked"
    BY <1>00 DEF Types
  <2>. QED
    BY <2>1, <2>2, <2>3 DEF StatusInv, StatusOf
<1>6. ControlInv'
  BY <1>00 DEF ControlInv, Types, Flags, Adding
<1>7. TaskInv'
  <2>1. \A x \in Threads : Busy(x)' <=> Busy(x)
    BY <1>00 DEF Busy, Types, Adding
  <2>2. Slots' = Slots /\ Running' = Running
    BY <2>1 DEF Slots, Running
  <2>3. Pushing' = Pushing
    BY <1>00 DEF Pushing, Types
  <2>. QED
    BY <2>2, <2>3 DEF TaskInv, InPool
<1>8. AttentionInv'
  <2>1. CASE t \in Workers
    <3>1. \A q \in Workers : Attentive(t, q)'
      BY <1>00, <2>1 DEF Attentive, Types
    <3>. QED
      BY <2>1, <3>1 DEF AttentionInv, Covered
  <2>2. CASE t = Main /\ NotifyRequired
    <3>1. pc'[Main] = "notify"
      BY <2>2 DEF Types
    <3>. QED
      BY <3>1 DEF AttentionInv, Covered
  <2>3. CASE t = Main /\ ~NotifyRequired
    <3>1. Cardinality(Spinning) > 0
      BY <2>3 DEF SpinInv, NotifyRequired, Types
    <3>2. Spinning # {}
      BY <3>1, FS_EmptySet
    <3>3. PICK x \in Workers : pc[x] \in {"spin", "stopSpinning"}
      BY <3>2 DEF Spinning
    <3>4. \A q \in Workers : Attentive(x, q)'
      BY <1>00, <2>3, <3>3 DEF Attentive, Types
    <3>. QED
      BY <3>4 DEF AttentionInv, Covered
  <2>. QED
    BY <2>1, <2>2, <2>3
<1>. QED
  BY <1>1, <1>2, <1>3, <1>4, <1>5, <1>6, <1>7, <1>8

\* A waiting thread gets a signal, or a parked one is woken, or all are up already.
LEMMA NotifyIInv ==
  ASSUME IInv, NEW t \in Threads, Notify(t)
  PROVE  IInv'
<1>. USE PoolFacts
     DEF IInv, Notify, Goto, Threads, flags, eventVars, locals, mainVars, counts
<1>0. /\ \/ signals < Cardinality(Pre) /\ signals' = signals + 1 /\ status' = status
         \/ /\ ~(signals < Cardinality(Pre)) /\ signals' = signals
            /\ \E x \in Workers : status[x] = "parked" /\ status' = [status EXCEPT ![x] = "woken"]
         \/ /\ ~(signals < Cardinality(Pre)) /\ signals' = signals /\ status' = status
            /\ \A x \in Workers : status[x] # "parked"
  BY PreIsWith
  DEF mEventCount!NotifyOne, mEventCount!Move, mEventCount!Unsignaled, mEventCount!With,
      
     mEventCount!vars
<1>00. PICK to \in {"run", "quiesceRun", "idle"} :
         /\ pc' = [pc EXCEPT ![t] = to]
         /\ t \in Workers => to \in {"run"}
         /\ t = Main => to # "run"
         /\ t = Main /\ to \notin Adding => (to = "quiesceRun" <=> quiescing)
  BY DEF Caller, Adding
<1>01. Pre' = Pre /\ \A x \in Workers : status[x] = "woken" => status'[x] = "woken"
  BY <1>0 DEF Pre, Types
<1>1. Types'
  BY <1>0, <1>00 DEF Types, WorkerPC, MainPC
<1>2. Flags'
  BY DEF Flags
<1>3. SpinInv'
  <2>1. Spinning' = Spinning
    BY <1>00 DEF Spinning, Types
  <2>. QED
    BY <2>1 DEF SpinInv
<1>4. BlockInv'
  <2>1. Blocked' = Blocked /\ MaybeBlocked' = MaybeBlocked
    BY <1>00 DEF Blocked, MaybeBlocked, Types
  <2>. QED
    BY <2>1 DEF BlockInv
<1>5. StatusInv'
  <2>1. signals' <= Cardinality(Pre)
    BY <1>0, Numbers DEF StatusInv, Types
  <2>2. ASSUME NEW x \in Workers PROVE StatusOf(x)'
    <3>1. StatusOf(x)
      BY DEF StatusInv
    <3>2. /\ status'[x] = status[x] \/ (status[x] = "parked" /\ status'[x] = "woken")
          /\ pc'[x] = pc[x] \/ (pc[x] = "notify" /\ pc'[x] = "run")
      BY <1>0, <1>00 DEF Types
    <3>. QED
      BY <3>1, <3>2 DEF StatusOf, Waiting
  <2>. QED
    BY <1>01, <2>1, <2>2 DEF StatusInv
<1>6. ControlInv'
  BY <1>00 DEF ControlInv, Types, Flags, Adding
<1>7. TaskInv'
  <2>1. \A x \in Threads : Busy(x)' <=> Busy(x)
    BY <1>00 DEF Busy, Types, Adding
  <2>2. Slots' = Slots /\ Running' = Running
    BY <2>1 DEF Slots, Running
  <2>3. Pushing' = Pushing
    BY <1>00 DEF Pushing, Types
  <2>. QED
    BY <2>2, <2>3 DEF TaskInv, InPool
<1>8. AttentionInv'
  <2>1. CASE t \in Workers
    <3>1. \A q \in Workers : Attentive(t, q)'
      BY <1>00, <2>1 DEF Attentive, Types
    <3>. QED
      BY <2>1, <3>1 DEF AttentionInv, Covered
  <2>2. CASE t = Main
    <3>. SUFFICES ASSUME ~mCancelled', NEW q \in Workers,
                         ~(signals' > 0), \A x \in Workers : ~Attentive(x, q)',
                         \A x \in Workers : status'[x] # "woken"
                  PROVE  FALSE
      BY DEF AttentionInv, Covered
    <3>1. ~mDone /\ pc[Main] = "notify"
      BY <2>2 DEF ControlInv, Flags
    <3>2. \A x \in Workers : pc'[x] = pc[x] /\ pc[x] # "exited" /\ pc[x] # "recheck"
      BY <1>00, <2>2, <3>1 DEF ControlInv, Types, Flags
    <3>3. \A x \in Workers : pc[x] \in Waiting \/ pc[x] = "parked"
      BY <3>2 DEF Attentive, Waiting
    <3>4. \A x \in Workers : status[x] = "pre" \/ status[x] = "parked"
      BY <3>3, <1>01 DEF StatusInv, StatusOf
    <3>5. signals' = signals /\ ~(signals < Cardinality(Pre)) /\ status' = status
      BY <1>0 DEF Types
    <3>6. Workers \subseteq Pre
      BY <1>0, <3>4, <3>5 DEF Pre, Types
    <3>7. \A x \in Pre : Cardinality(Pre) > 0
      BY FiniteParts, Sizes
    <3>. QED
      BY <3>5, <3>6, <3>7 DEF Types
  <2>. QED
    BY <2>1, <2>2
<1>. QED
  BY <1>1, <1>2, <1>3, <1>4, <1>5, <1>6, <1>7, <1>8

\* Main submits a task.
LEMMA AddTaskFromOutsideIInv ==
  ASSUME IInv, AddTaskFromOutside
  PROVE  IInv'
<1>. USE PoolFacts
     DEF IInv, AddTaskFromOutside, Goto, Threads, flags, eventVars, locals, mainVars,
         counts
<1>0. PICK v \in Workers : victim' = [victim EXCEPT ![Main] = v]
  OBVIOUS
<1>1. Types'
  BY <1>0 DEF Types, WorkerPC, MainPC
<1>2. Flags'
  BY DEF Flags
<1>3. SpinInv'
  <2>1. Spinning' = Spinning
    BY DEF Spinning, Types
  <2>. QED
    BY <2>1 DEF SpinInv
<1>4. BlockInv'
  <2>1. Blocked' = Blocked /\ MaybeBlocked' = MaybeBlocked
    BY DEF Blocked, MaybeBlocked, Types
  <2>. QED
    BY <2>1 DEF BlockInv
<1>5. StatusInv'
  <2>1. Pre' = Pre
    BY DEF Pre
  <2>2. \A x \in Workers : pc[x] \in Waiting <=> pc'[x] \in Waiting
    BY DEF Waiting, Types
  <2>3. \A x \in Workers : pc[x] = "parked" <=> pc'[x] = "parked"
    BY DEF Types
  <2>. QED
    BY <2>1, <2>2, <2>3 DEF StatusInv, StatusOf
<1>6. ControlInv'
  BY DEF ControlInv, Types, Flags, Adding
<1>7. TaskInv'
  <2>1. \A x \in Threads : Busy(x)' <=> Busy(x)
    BY DEF Busy, Types, Adding, ControlInv
  <2>2. Slots' = Slots /\ Running' = Running
    BY <2>1 DEF Slots, Running
  <2>3. Pushing' = Pushing \cup {Main} /\ Main \notin Pushing
    BY DEF Pushing, Types
  <2>4. Cardinality(Pushing \cup {Main}) = Cardinality(Pushing) + 1
    BY <2>3, FiniteParts, Sizes
  <2>5. Cardinality(Pushing') = Cardinality(Pushing) + 1
    BY <2>3, <2>4
  <2>. QED
    BY <2>2, <2>5, Numbers DEF TaskInv, InPool, Types
<1>8. AttentionInv'
  <2>. SUFFICES ASSUME ~mCancelled', NEW q \in Workers, queue'[q] > 0
                PROVE  Covered(q)'
    BY DEF AttentionInv
  <2>1. queue[q] > 0 /\ Covered(q)
    BY DEF AttentionInv, Types
  <2>2. \A x \in Workers : Attentive(x, q) => Attentive(x, q)'
    BY <2>1 DEF Attentive, Types
  <2>3. pc[Main] \in {"notifyRequired", "notify"} => pc'[Main] \in {"notifyRequired", "notify"}
    BY DEF Types
  <2>. QED
    BY <2>1, <2>2, <2>3 DEF Covered
<1>. QED
  BY <1>1, <1>2, <1>3, <1>4, <1>5, <1>6, <1>7, <1>8

\* Quiesce begins.
LEMMA QuiesceIInv ==
  ASSUME IInv, Quiesce
  PROVE  IInv'
<1>. USE PoolFacts
     DEF IInv, Quiesce, Scan, Goto, Threads, flags, eventVars, locals, mainVars, counts
<1>1. Types'
  BY DEF Types, WorkerPC, MainPC
<1>2. Flags'
  BY DEF Flags
<1>3. SpinInv'
  <2>1. Spinning' = Spinning
    BY DEF Spinning, Types
  <2>. QED
    BY <2>1 DEF SpinInv
<1>4. BlockInv'
  <2>1. Blocked' = Blocked /\ MaybeBlocked' = MaybeBlocked
    BY DEF Blocked, MaybeBlocked, Types
  <2>. QED
    BY <2>1 DEF BlockInv
<1>5. StatusInv'
  <2>1. Pre' = Pre
    BY DEF Pre
  <2>2. \A x \in Workers : pc[x] \in Waiting <=> pc'[x] \in Waiting
    BY DEF Waiting, Types
  <2>3. \A x \in Workers : pc[x] = "parked" <=> pc'[x] = "parked"
    BY DEF Types
  <2>. QED
    BY <2>1, <2>2, <2>3 DEF StatusInv, StatusOf
<1>6. ControlInv'
  BY DEF ControlInv, Types, Flags, Adding
<1>7. TaskInv'
  <2>1. Slots' = Slots
    BY DEF Slots
  <2>2. \A x \in Threads : (Busy(x)' <=> Busy(x)) /\ (pc'[x] = "push" <=> pc[x] = "push")
    BY DEF Busy, Adding, Types, ControlInv, Flags
  <2>3. Running' = Running /\ Pushing' = Pushing
    BY <2>2 DEF Running, Pushing
  <2>. QED
    BY <2>1, <2>3 DEF TaskInv, InPool
<1>8. AttentionInv'
  <2>. SUFFICES ASSUME ~mCancelled', NEW q \in Workers, queue'[q] > 0
                PROVE  Covered(q)'
    BY DEF AttentionInv
  <2>1. queue[q] > 0 /\ Covered(q)
    BY DEF AttentionInv, Types
  <2>2. \A x \in Workers : Attentive(x, q) => Attentive(x, q)'
    BY <2>1 DEF Attentive, Types
  <2>3. pc[Main] \in {"notifyRequired", "notify"} => pc'[Main] \in {"notifyRequired", "notify"}
    BY DEF Types
  <2>. QED
    BY <2>1, <2>2, <2>3 DEF Covered
<1>. QED
  BY <1>1, <1>2, <1>3, <1>4, <1>5, <1>6, <1>7, <1>8

\* Main steals in Quiesce.
LEMMA QuiesceStealIInv ==
  ASSUME IInv, QuiesceSteal
  PROVE  IInv'
<1>. USE PoolFacts
     DEF IInv, QuiesceSteal, Goto, Threads, flags, eventVars, locals, mainVars, counts
<1>0. PICK v \in todo[Main] :
        \/ queue[v] > 0 /\ Take(v) /\ Found(Main) /\ pc' = [pc EXCEPT ![Main] = "quiesceRun"]
        \/ queue[v] = 0 /\ LookedAt(Main, v) /\ UNCHANGED <<queue, pc>>
  OBVIOUS
<1>00. /\ v \in Workers /\ pc[Main] = "quiesceSteal"
       /\ pc' = pc \/ pc' = [pc EXCEPT ![Main] = "quiesceRun"]
       /\ UNCHANGED <<flags, mSpinningState, eventVars, victim, hand, skipNotify, mainVars, counts>>
  BY <1>0 DEF Types
<1>01. \A q \in Workers : queue'[q] <= queue[q]
  BY <1>0 DEF Types, Take
<1>. HIDE DEF QuiesceSteal
<1>1. Types'
  <2>1. CASE queue[v] > 0 /\ Take(v) /\ Found(Main)
    BY <1>00, <2>1 DEF Types, WorkerPC, MainPC, Take, Found
  <2>2. CASE LookedAt(Main, v) /\ UNCHANGED queue
    BY <1>00, <2>2 DEF Types, WorkerPC, MainPC, LookedAt
  <2>. QED
    BY <1>0, <2>1, <2>2
<1>2. Flags'
  BY <1>00 DEF Flags
<1>3. SpinInv'
  <2>1. Spinning' = Spinning
    BY <1>00 DEF Spinning, Types
  <2>. QED
    BY <1>00, <2>1 DEF SpinInv
<1>4. BlockInv'
  <2>1. Blocked' = Blocked /\ MaybeBlocked' = MaybeBlocked
    BY <1>00 DEF Blocked, MaybeBlocked, Types
  <2>. QED
    BY <1>00, <2>1 DEF BlockInv
<1>5. StatusInv'
  <2>1. Pre' = Pre
    BY <1>00 DEF Pre
  <2>2. \A x \in Workers : pc[x] \in Waiting <=> pc'[x] \in Waiting
    BY <1>00 DEF Waiting, Types
  <2>3. \A x \in Workers : pc[x] = "parked" <=> pc'[x] = "parked"
    BY <1>00 DEF Types
  <2>. QED
    BY <1>00, <2>1, <2>2, <2>3 DEF StatusInv, StatusOf
<1>6. ControlInv'
  BY <1>00 DEF ControlInv, Types, Flags, Adding
<1>7. TaskInv'
  <2>0. \A x \in Threads : x # Main => (Busy(x)' <=> Busy(x))
    BY <1>00 DEF Busy, Types
  <2>00. Pushing' = Pushing
    BY <1>00 DEF Pushing, Types
  <2>1. CASE queue[v] > 0 /\ Take(v) /\ pc' = [pc EXCEPT ![Main] = "quiesceRun"]
    <3>1. ~Busy(Main) /\ Busy(Main)'
      BY <1>00, <2>1 DEF Busy, Types, Adding
    <3>2. /\ Cardinality(Slots') = Cardinality(Slots) - 1
          /\ Cardinality(Running') = Cardinality(Running) + 1
      BY <1>00, <2>0, <2>1, <3>1, TakeSlots, BusyCounts
    <3>. QED
      BY <1>00, <2>00, <3>2, Numbers DEF TaskInv, InPool, Types
  <2>2. CASE UNCHANGED <<queue, pc>>
    <3>1. Busy(Main)' <=> Busy(Main)
      BY <1>00, <2>2 DEF Busy
    <3>2. Slots' = Slots /\ Running' = Running
      BY <2>0, <2>2, <3>1, BusyCounts DEF Slots
    <3>. QED
      BY <1>00, <2>00, <3>2 DEF TaskInv, InPool
  <2>. QED
    BY <1>0, <2>1, <2>2
<1>8. AttentionInv'
  <2>. SUFFICES ASSUME ~mCancelled', NEW q \in Workers, queue'[q] > 0
                PROVE  Covered(q)'
    BY DEF AttentionInv
  <2>1. queue[q] > 0
    <3>1. queue[q] \in Int /\ queue'[q] \in Int
      BY <1>1 DEF Types
    <3>. QED
      BY <1>01, <3>1
  <2>2. Covered(q)
    BY <1>00, <2>1 DEF AttentionInv
  <2>3. \A x \in Workers : Attentive(x, q) => Attentive(x, q)'
    BY <1>0, <1>00 DEF Attentive, Types, Found, LookedAt
  <2>. QED
    BY <1>00, <2>2, <2>3 DEF Covered
<1>. QED
  BY <1>1, <1>2, <1>3, <1>4, <1>5, <1>6, <1>7, <1>8

\* A task that Main stole ends.
LEMMA QuiesceFinishTaskIInv ==
  ASSUME IInv, QuiesceFinishTask
  PROVE  IInv'
<1>. USE PoolFacts
     DEF IInv, QuiesceFinishTask, Scan, Goto, Threads, flags, eventVars, locals,
         mainVars, counts
<1>1. Types'
  BY DEF Types, WorkerPC, MainPC
<1>2. Flags'
  BY DEF Flags
<1>3. SpinInv'
  <2>1. Spinning' = Spinning
    BY DEF Spinning, Types
  <2>. QED
    BY <2>1 DEF SpinInv
<1>4. BlockInv'
  <2>1. Blocked' = Blocked /\ MaybeBlocked' = MaybeBlocked
    BY DEF Blocked, MaybeBlocked, Types
  <2>. QED
    BY <2>1 DEF BlockInv
<1>5. StatusInv'
  <2>1. Pre' = Pre
    BY DEF Pre
  <2>2. \A x \in Workers : pc[x] \in Waiting <=> pc'[x] \in Waiting
    BY DEF Waiting, Types
  <2>3. \A x \in Workers : pc[x] = "parked" <=> pc'[x] = "parked"
    BY DEF Types
  <2>. QED
    BY <2>1, <2>2, <2>3 DEF StatusInv, StatusOf
<1>6. ControlInv'
  BY DEF ControlInv, Types, Flags, Adding
<1>7. TaskInv'
  <2>0. \A x \in Threads : x # Main => (Busy(x)' <=> Busy(x))
    BY DEF Busy, Types
  <2>00. Pushing' = Pushing
    BY DEF Pushing, Types
  <2>1. Busy(Main) /\ ~Busy(Main)'
    BY DEF Busy, Types, Adding
  <2>2. Slots' = Slots /\ Cardinality(Running') = Cardinality(Running) - 1
    BY <2>0, <2>1, BusyCounts DEF Slots
  <2>. QED
    BY <2>00, <2>2, Numbers DEF TaskInv, InPool, Types
<1>8. AttentionInv'
  <2>. SUFFICES ASSUME ~mCancelled', NEW q \in Workers, queue'[q] > 0
                PROVE  Covered(q)'
    BY DEF AttentionInv
  <2>1. queue[q] > 0 /\ Covered(q)
    BY DEF AttentionInv, Types
  <2>2. \A x \in Workers : Attentive(x, q) => Attentive(x, q)'
    BY <2>1 DEF Attentive, Types
  <2>3. pc[Main] \in {"notifyRequired", "notify"} => pc'[Main] \in {"notifyRequired", "notify"}
    BY DEF Types
  <2>. QED
    BY <2>1, <2>2, <2>3 DEF Covered
<1>. QED
  BY <1>1, <1>2, <1>3, <1>4, <1>5, <1>6, <1>7, <1>8

\* Quiesce returns, or Main sleeps.
LEMMA QuiesceWaitIInv ==
  ASSUME IInv, QuiesceWait
  PROVE  IInv'
<1>. USE PoolFacts
     DEF IInv, QuiesceWait, Goto, Threads, flags, eventVars, locals, mainVars, counts
<1>1. Types'
  BY DEF Types, WorkerPC, MainPC
<1>2. Flags'
  BY DEF Flags
<1>3. SpinInv'
  <2>1. Spinning' = Spinning
    BY DEF Spinning, Types
  <2>. QED
    BY <2>1 DEF SpinInv
<1>4. BlockInv'
  <2>1. Blocked' = Blocked /\ MaybeBlocked' = MaybeBlocked
    BY DEF Blocked, MaybeBlocked, Types
  <2>. QED
    BY <2>1 DEF BlockInv
<1>5. StatusInv'
  <2>1. Pre' = Pre
    BY DEF Pre
  <2>2. \A x \in Workers : pc[x] \in Waiting <=> pc'[x] \in Waiting
    BY DEF Waiting, Types
  <2>3. \A x \in Workers : pc[x] = "parked" <=> pc'[x] = "parked"
    BY DEF Types
  <2>. QED
    BY <2>1, <2>2, <2>3 DEF StatusInv, StatusOf
<1>6. ControlInv'
  BY DEF ControlInv, Types, Flags, Adding
<1>7. TaskInv'
  <2>1. Slots' = Slots
    BY DEF Slots
  <2>2. \A x \in Threads : (Busy(x)' <=> Busy(x)) /\ (pc'[x] = "push" <=> pc[x] = "push")
    BY DEF Busy, Adding, Types, ControlInv, Flags
  <2>3. Running' = Running /\ Pushing' = Pushing
    BY <2>2 DEF Running, Pushing
  <2>. QED
    BY <2>1, <2>3 DEF TaskInv, InPool
<1>8. AttentionInv'
  <2>. SUFFICES ASSUME ~mCancelled', NEW q \in Workers, queue'[q] > 0
                PROVE  Covered(q)'
    BY DEF AttentionInv
  <2>1. queue[q] > 0 /\ Covered(q)
    BY DEF AttentionInv, Types
  <2>2. \A x \in Workers : Attentive(x, q) => Attentive(x, q)'
    BY <2>1 DEF Attentive, Types
  <2>3. pc[Main] \in {"notifyRequired", "notify"} => pc'[Main] \in {"notifyRequired", "notify"}
    BY DEF Types
  <2>. QED
    BY <2>1, <2>2, <2>3 DEF Covered
<1>. QED
  BY <1>1, <1>2, <1>3, <1>4, <1>5, <1>6, <1>7, <1>8

\* A spurious wake-up.
LEMMA SpuriousWakeupIInv ==
  ASSUME IInv, SpuriousWakeup
  PROVE  IInv'
<1>. USE PoolFacts
     DEF IInv, SpuriousWakeup, Goto, Threads, flags, eventVars, locals, mainVars, counts
<1>1. Types'
  BY DEF Types, WorkerPC, MainPC
<1>2. Flags'
  BY DEF Flags
<1>3. SpinInv'
  <2>1. Spinning' = Spinning
    BY DEF Spinning, Types
  <2>. QED
    BY <2>1 DEF SpinInv
<1>4. BlockInv'
  <2>1. Blocked' = Blocked /\ MaybeBlocked' = MaybeBlocked
    BY DEF Blocked, MaybeBlocked, Types
  <2>. QED
    BY <2>1 DEF BlockInv
<1>5. StatusInv'
  <2>1. Pre' = Pre
    BY DEF Pre
  <2>2. \A x \in Workers : pc[x] \in Waiting <=> pc'[x] \in Waiting
    BY DEF Waiting, Types
  <2>3. \A x \in Workers : pc[x] = "parked" <=> pc'[x] = "parked"
    BY DEF Types
  <2>. QED
    BY <2>1, <2>2, <2>3 DEF StatusInv, StatusOf
<1>6. ControlInv'
  BY DEF ControlInv, Types, Flags, Adding
<1>7. TaskInv'
  <2>1. Slots' = Slots
    BY DEF Slots
  <2>2. \A x \in Threads : (Busy(x)' <=> Busy(x)) /\ (pc'[x] = "push" <=> pc[x] = "push")
    BY DEF Busy, Adding, Types, ControlInv, Flags
  <2>3. Running' = Running /\ Pushing' = Pushing
    BY <2>2 DEF Running, Pushing
  <2>. QED
    BY <2>1, <2>3 DEF TaskInv, InPool
<1>8. AttentionInv'
  <2>. SUFFICES ASSUME ~mCancelled', NEW q \in Workers, queue'[q] > 0
                PROVE  Covered(q)'
    BY DEF AttentionInv
  <2>1. queue[q] > 0 /\ Covered(q)
    BY DEF AttentionInv, Types
  <2>2. \A x \in Workers : Attentive(x, q) => Attentive(x, q)'
    BY <2>1 DEF Attentive, Types
  <2>3. pc[Main] \in {"notifyRequired", "notify"} => pc'[Main] \in {"notifyRequired", "notify"}
    BY DEF Types
  <2>. QED
    BY <2>1, <2>2, <2>3 DEF Covered
<1>. QED
  BY <1>1, <1>2, <1>3, <1>4, <1>5, <1>6, <1>7, <1>8

\* The three steps of Cancel.
LEMMA CancelIInv ==
  ASSUME IInv, Cancel
  PROVE  IInv'
<1>. USE PoolFacts
     DEF IInv, Cancel, Goto, Threads, flags, eventVars, locals, mainVars, counts
<1>0. /\ pc[Main] \in {"idle", "cancel", "cancelNotify"} /\ mCancelled'
      /\ \E to \in {"idle", "cancel", "cancelNotify"} : pc' = [pc EXCEPT ![Main] = to]
      /\ UNCHANGED <<queue, mBlocked, mSpinningState, locals, mainVars, counts>>
      /\ mDone' = mDone \/ mDone' = TRUE
      /\ mCancelled' = mCancelled \/ mCancelled' = TRUE
  BY DEF ControlInv
<1>00. UNCHANGED eventVars \/ mEventCount!NotifyAll
  OBVIOUS
<1>01. /\ signals' = signals \/ signals' = Cardinality(Pre)
       /\ \A x \in Workers :
            status'[x] = status[x] \/ (status[x] = "parked" /\ status'[x] = "woken")
       /\ status' \in [Workers -> {"out", "pre", "parked", "woken"}]
  <2>1. CASE UNCHANGED eventVars
    BY <2>1 DEF Types
  <2>2. CASE mEventCount!NotifyAll
    BY <2>2, PreIsWith DEF mEventCount!NotifyAll, Types
  <2>. QED
    BY <1>00, <2>1, <2>2
<1>02. Pre' = Pre
  BY <1>01 DEF Pre, Types
<1>. HIDE DEF Cancel
<1>1. Types'
  BY <1>0, <1>01, Numbers DEF Types, WorkerPC, MainPC
<1>2. Flags'
  BY <1>0 DEF Flags
<1>3. SpinInv'
  <2>1. Spinning' = Spinning
    BY <1>0 DEF Spinning, Types
  <2>. QED
    BY <1>0, <2>1 DEF SpinInv
<1>4. BlockInv'
  <2>1. Blocked' = Blocked /\ MaybeBlocked' = MaybeBlocked
    BY <1>0 DEF Blocked, MaybeBlocked, Types
  <2>. QED
    BY <1>0, <2>1 DEF BlockInv
<1>5. StatusInv'
  <2>1. signals' <= Cardinality(Pre')
    BY <1>01, <1>02, Numbers DEF StatusInv, Types
  <2>2. ASSUME NEW x \in Workers PROVE StatusOf(x)'
    <3>1. StatusOf(x) /\ pc'[x] = pc[x]
      BY <1>0 DEF StatusInv, Types
    <3>. QED
      BY <1>01, <3>1 DEF StatusOf
  <2>. QED
    BY <2>1, <2>2 DEF StatusInv
<1>6. ControlInv'
  BY <1>0 DEF ControlInv, Types, Flags, Adding
<1>7. TaskInv'
  <2>1. \A x \in Threads : (Busy(x)' <=> Busy(x)) /\ (pc'[x] = "push" <=> pc[x] = "push")
    BY <1>0 DEF Busy, Types, Adding, ControlInv
  <2>2. Slots' = Slots /\ Running' = Running /\ Pushing' = Pushing
    BY <1>0, <2>1 DEF Slots, Running, Pushing
  <2>. QED
    BY <1>0, <2>2 DEF TaskInv, InPool
<1>8. AttentionInv'
  BY <1>0 DEF AttentionInv
<1>. QED
  BY <1>1, <1>2, <1>3, <1>4, <1>5, <1>6, <1>7, <1>8

\* The destructor begins.
LEMMA DestructIInv ==
  ASSUME IInv, Destruct
  PROVE  IInv'
<1>. USE PoolFacts
     DEF IInv, Destruct, Scan, Goto, Threads, flags, eventVars, locals, mainVars, counts
<1>1. Types'
  BY DEF Types, WorkerPC, MainPC
<1>2. Flags'
  BY DEF Flags
<1>3. SpinInv'
  <2>1. Spinning' = Spinning
    BY DEF Spinning, Types
  <2>. QED
    BY <2>1 DEF SpinInv
<1>4. BlockInv'
  <2>1. Blocked' = Blocked /\ MaybeBlocked' = MaybeBlocked
    BY DEF Blocked, MaybeBlocked, Types
  <2>. QED
    BY <2>1 DEF BlockInv
<1>5. StatusInv'
  <2>1. Pre' = Pre
    BY DEF Pre
  <2>2. \A x \in Workers : pc[x] \in Waiting <=> pc'[x] \in Waiting
    BY DEF Waiting, Types
  <2>3. \A x \in Workers : pc[x] = "parked" <=> pc'[x] = "parked"
    BY DEF Types
  <2>. QED
    BY <2>1, <2>2, <2>3 DEF StatusInv, StatusOf
<1>6. ControlInv'
  BY DEF ControlInv, Types, Flags, Adding
<1>7. TaskInv'
  <2>1. Slots' = Slots
    BY DEF Slots
  <2>2. \A x \in Threads : (Busy(x)' <=> Busy(x)) /\ (pc'[x] = "push" <=> pc[x] = "push")
    BY DEF Busy, Adding, Types, ControlInv, Flags
  <2>3. Running' = Running /\ Pushing' = Pushing
    BY <2>2 DEF Running, Pushing
  <2>. QED
    BY <2>1, <2>3 DEF TaskInv, InPool
<1>8. AttentionInv'
  <2>. SUFFICES ASSUME ~mCancelled', NEW q \in Workers, queue'[q] > 0
                PROVE  Covered(q)'
    BY DEF AttentionInv
  <2>1. queue[q] > 0 /\ Covered(q)
    BY DEF AttentionInv, Types
  <2>2. \A x \in Workers : Attentive(x, q) => Attentive(x, q)'
    BY <2>1 DEF Attentive, Types
  <2>3. pc[Main] \in {"notifyRequired", "notify"} => pc'[Main] \in {"notifyRequired", "notify"}
    BY DEF Types
  <2>. QED
    BY <2>1, <2>2, <2>3 DEF Covered
<1>. QED
  BY <1>1, <1>2, <1>3, <1>4, <1>5, <1>6, <1>7, <1>8

\* The destructor wakes the workers.
LEMMA DestructNotifyIInv ==
  ASSUME IInv, DestructNotify
  PROVE  IInv'
<1>. USE PoolFacts
     DEF IInv, DestructNotify, Found, mEventCount!NotifyAll, mEventCount!Move,
         mEventCount!Unsignaled, Goto, Threads, flags, eventVars, locals, mainVars,
         counts
<1>1. Types'
  <2>1. signals' = Cardinality(Pre)
    BY PreIsWith
  <2>2. signals' \in Nat
    BY <2>1, Numbers
  <2>. QED
    BY <2>2 DEF Types, WorkerPC, MainPC
<1>2. Flags'
  BY DEF Flags
<1>3. SpinInv'
  <2>1. Spinning' = Spinning
    BY DEF Spinning, Types
  <2>. QED
    BY <2>1 DEF SpinInv
<1>4. BlockInv'
  <2>1. Blocked' = Blocked /\ MaybeBlocked' = MaybeBlocked
    BY DEF Blocked, MaybeBlocked, Types
  <2>. QED
    BY <2>1 DEF BlockInv
<1>5. StatusInv'
  <2>1. Pre' = Pre
    BY DEF Pre, Types
  <2>2. signals' = Cardinality(Pre')
    BY <2>1, PreIsWith
  <2>3. ASSUME NEW x \in Workers PROVE StatusOf(x)'
    <3>1. StatusOf(x)
      BY DEF StatusInv, Types
    <3>. QED
      BY <3>1 DEF StatusOf, Waiting, Types
  <2>. QED
    BY <1>1, <2>2, <2>3 DEF StatusInv, Types
<1>6. ControlInv'
  BY DEF ControlInv, Types, Flags, Adding
<1>7. TaskInv'
  <2>1. Slots' = Slots
    BY DEF Slots
  <2>2. \A x \in Threads : (Busy(x)' <=> Busy(x)) /\ (pc'[x] = "push" <=> pc[x] = "push")
    BY DEF Busy, Adding, Types, ControlInv, Flags
  <2>3. Running' = Running /\ Pushing' = Pushing
    BY <2>2 DEF Running, Pushing
  <2>. QED
    BY <2>1, <2>3 DEF TaskInv, InPool
<1>8. AttentionInv'
  <2>. SUFFICES ASSUME ~mCancelled', NEW q \in Workers, queue'[q] > 0
                PROVE  Covered(q)'
    BY DEF AttentionInv
  <2>1. queue[q] > 0 /\ Covered(q)
    BY DEF AttentionInv, Types
  <2>2. \A x \in Workers : Attentive(x, q) => Attentive(x, q)'
    BY <2>1 DEF Attentive, Types
  <2>3. pc[Main] \notin {"notifyRequired", "notify"}
    OBVIOUS
  <2>4. \A x \in Workers : status[x] = "woken" => status'[x] = "woken"
    BY DEF Types
  <2>5. signals > 0 => signals' > 0
    BY PreIsWith, Numbers DEF StatusInv, Types
  <2>. QED
    BY <2>1, <2>2, <2>3, <2>4, <2>5 DEF Covered
<1>. QED
  BY <1>1, <1>2, <1>3, <1>4, <1>5, <1>6, <1>7, <1>8

\* A cancelled pool has its queues flushed.
LEMMA FlushIInv ==
  ASSUME IInv, Flush
  PROVE  IInv'
<1>. USE PoolFacts
     DEF IInv, Flush, LookedAt, Goto, Threads, flags, eventVars, locals, mainVars,
         counts
<1>0. /\ pc[Main] = "flush" /\ mCancelled
      /\ pc' = pc \/ pc' = [pc EXCEPT ![Main] = "join"]
      /\ queue' = queue \/ \E v \in Workers : queue' = [queue EXCEPT ![v] = 0]
      /\ todo' \in [Threads -> SUBSET Workers]
      /\ UNCHANGED <<flags, mSpinningState, eventVars, victim, hand, skipNotify, mainVars, counts>>
  BY DEF Types, ControlInv
<1>. HIDE DEF Flush
<1>1. Types'
  BY <1>0 DEF Types, WorkerPC, MainPC
<1>2. Flags'
  BY <1>0 DEF Flags
<1>3. SpinInv'
  <2>1. Spinning' = Spinning
    BY <1>0 DEF Spinning, Types
  <2>. QED
    BY <1>0, <2>1 DEF SpinInv
<1>4. BlockInv'
  <2>1. Blocked' = Blocked /\ MaybeBlocked' = MaybeBlocked
    BY <1>0 DEF Blocked, MaybeBlocked, Types
  <2>. QED
    BY <1>0, <2>1 DEF BlockInv
<1>5. StatusInv'
  <2>1. Pre' = Pre
    BY <1>0 DEF Pre
  <2>2. \A x \in Workers : pc[x] \in Waiting <=> pc'[x] \in Waiting
    BY <1>0 DEF Waiting, Types
  <2>3. \A x \in Workers : pc[x] = "parked" <=> pc'[x] = "parked"
    BY <1>0 DEF Types
  <2>. QED
    BY <1>0, <2>1, <2>2, <2>3 DEF StatusInv, StatusOf
<1>6. ControlInv'
  BY <1>0 DEF ControlInv, Types, Flags, Adding
<1>7. TaskInv'
  <2>1. \A x \in Threads : (Busy(x)' <=> Busy(x)) /\ (pc'[x] = "push" <=> pc[x] = "push")
    BY <1>0 DEF Busy, Types, Adding, ControlInv
  <2>2. Running' = Running /\ Pushing' = Pushing
    BY <2>1 DEF Running, Pushing
  <2>3. Slots' \in SUBSET Slots
    <3>1. \A u \in Workers : queue'[u] <= queue[u] /\ queue[u] \in Int /\ queue'[u] \in Int
      BY <1>0 DEF Types
    <3>. QED
      BY <3>1 DEF Slots
  <2>4. Cardinality(Slots') <= Cardinality(Slots) /\ Cardinality(Slots') \in Nat
    BY <2>3, FiniteParts, Sizes
  <2>. QED
    BY <1>0, <2>2, <2>4, Numbers DEF TaskInv, InPool, Types
<1>8. AttentionInv'
  BY <1>0 DEF AttentionInv
<1>. QED
  BY <1>1, <1>2, <1>3, <1>4, <1>5, <1>6, <1>7, <1>8

\* All workers are joined.
LEMMA JoinIInv ==
  ASSUME IInv, Join
  PROVE  IInv'
<1>. USE PoolFacts DEF IInv, Join, Goto, Threads, flags, eventVars, locals, mainVars, counts
<1>1. Types'
  BY DEF Types, WorkerPC, MainPC
<1>2. Flags'
  BY DEF Flags
<1>3. SpinInv'
  <2>1. Spinning' = Spinning
    BY DEF Spinning, Types
  <2>. QED
    BY <2>1 DEF SpinInv
<1>4. BlockInv'
  <2>1. Blocked' = Blocked /\ MaybeBlocked' = MaybeBlocked
    BY DEF Blocked, MaybeBlocked, Types
  <2>. QED
    BY <2>1 DEF BlockInv
<1>5. StatusInv'
  <2>1. Pre' = Pre
    BY DEF Pre
  <2>2. \A x \in Workers : pc[x] \in Waiting <=> pc'[x] \in Waiting
    BY DEF Waiting, Types
  <2>3. \A x \in Workers : pc[x] = "parked" <=> pc'[x] = "parked"
    BY DEF Types
  <2>. QED
    BY <2>1, <2>2, <2>3 DEF StatusInv, StatusOf
<1>6. ControlInv'
  BY DEF ControlInv, Types, Flags, Adding
<1>7. TaskInv'
  <2>1. Slots' = Slots
    BY DEF Slots
  <2>2. \A x \in Threads : (Busy(x)' <=> Busy(x)) /\ (pc'[x] = "push" <=> pc[x] = "push")
    BY DEF Busy, Adding, Types, ControlInv, Flags
  <2>3. Running' = Running /\ Pushing' = Pushing
    BY <2>2 DEF Running, Pushing
  <2>. QED
    BY <2>1, <2>3 DEF TaskInv, InPool
<1>8. AttentionInv'
  <2>. SUFFICES ASSUME ~mCancelled', NEW q \in Workers, queue'[q] > 0
                PROVE  Covered(q)'
    BY DEF AttentionInv
  <2>1. queue[q] > 0 /\ Covered(q)
    BY DEF AttentionInv, Types
  <2>2. \A x \in Workers : Attentive(x, q) => Attentive(x, q)'
    BY <2>1 DEF Attentive, Types
  <2>3. pc[Main] \in {"notifyRequired", "notify"} => pc'[Main] \in {"notifyRequired", "notify"}
    BY DEF Types
  <2>. QED
    BY <2>1, <2>2, <2>3 DEF Covered
<1>. QED
  BY <1>1, <1>2, <1>3, <1>4, <1>5, <1>6, <1>7, <1>8

\* The pool is constructed: empty deques, and all workers at the head of their loop.
LEMMA InitIInv == Init => IInv
<1>. SUFFICES ASSUME Init PROVE IInv
  OBVIOUS
<1>. USE PoolFacts DEF Init, Threads, mEventCount!Init
<1>1. Types
  <2>1. mSpinningState \in [mNumSpinning : Nat, mNumNoNotification : Nat]
    OBVIOUS
  <2>2. /\ queue \in [Workers -> 0 .. kCapacity] /\ mBlocked \in Nat /\ signals \in Nat
        /\ submitted \in 0 .. MaxTasks /\ executed \in Nat
    OBVIOUS
  <2>3. /\ pc \in [Threads -> WorkerPC \cup MainPC]
        /\ \A w \in Workers : pc[w] \in WorkerPC
        /\ pc[Main] \in MainPC /\ pc[Main] # "push"
    BY DEF WorkerPC, MainPC
  <2>4. /\ status \in [Workers -> {"out", "pre", "parked", "woken"}]
        /\ todo \in [Threads -> SUBSET Workers] /\ victim \in [Threads -> Threads]
        /\ \A w \in Workers : victim[w] \in Workers
    OBVIOUS
  <2>. QED
    BY <2>1, <2>2, <2>3, <2>4 DEF Types
<1>2. Flags
  BY DEF Flags
<1>3. SpinInv
  <2>1. Spinning = {}
    BY DEF Spinning
  <2>. QED
    BY <2>1, FS_EmptySet DEF SpinInv
<1>4. BlockInv
  <2>1. Blocked = {} /\ MaybeBlocked = {}
    BY DEF Blocked, MaybeBlocked
  <2>. QED
    BY <2>1, FS_EmptySet DEF BlockInv
<1>5. StatusInv
  <2>1. Pre = {}
    BY DEF Pre
  <2>2. \A w \in Workers : StatusOf(w)
    BY DEF StatusOf, Waiting
  <2>. QED
    BY <2>1, <2>2, FS_EmptySet DEF StatusInv
<1>6. ControlInv
  BY DEF ControlInv
<1>7. TaskInv
  <2>1. Slots = {} /\ Running = {} /\ Pushing = {}
    BY DEF Slots, Running, Busy, Pushing, Adding
  <2>. QED
    BY <2>1, FS_EmptySet DEF TaskInv, InPool
<1>8. AttentionInv
  BY DEF AttentionInv
<1>. QED
  BY <1>1, <1>2, <1>3, <1>4, <1>5, <1>6, <1>7, <1>8 DEF IInv

\* Every step of a worker, of Main or of nobody keeps the invariant.
LEMMA IInvStep == IInv /\ [Next]_vars => IInv'
<1>. SUFFICES ASSUME IInv, [Next]_vars PROVE IInv'
  OBVIOUS
<1>1. ASSUME NEW w \in Workers, WaitForWork(w) PROVE IInv'
  BY <1>1, PrewaitIInv, NonEmptyQueueIndexIInv, CancelWaitIInv, CheckCancelledIInv,
     StealVictimIInv, BlockIInv, CheckAllBlockedIInv, NotifyAllBlockedIInv, CheckDoneIInv,
     ShutDownIInv, ExitIInv, CommitWaitIInv, WakeIInv, UnblockIInv DEF WaitForWork
<1>2. ASSUME NEW t \in Threads, Submit(t) PROVE IInv'
  BY <1>2, PushIInv, IsNotifyParkedThreadRequiredIInv, NotifyIInv DEF Submit
<1>3. ASSUME NEW w \in Workers, WorkerStep(w) \/ SpinAgain(w) \/ AddTask(w) PROVE IInv'
  BY <1>1, <1>2, <1>3, LoopHeadIInv, NextTaskIInv, StealFromIInv, StealNothingIInv,
     SpinAgainIInv, StartSpinningCheckIInv, StartSpinningIInv, StopSpinningIInv,
     FinishTaskIInv, AddTaskIInv DEF WorkerStep, Threads
<1>4. ASSUME MainStep PROVE IInv'
  BY <1>2, <1>4, QuiesceStealIInv, QuiesceFinishTaskIInv, QuiesceWaitIInv,
     DestructNotifyIInv, FlushIInv, JoinIInv DEF MainStep, Threads
<1>5. CASE UNCHANGED vars
  BY <1>5 DEF vars, IInv, Types, Flags, SpinInv, Spinning, BlockInv, Blocked, MaybeBlocked,
     StatusInv, StatusOf, Pre, ControlInv, TaskInv, InPool, Slots, Running, Busy, Pushing,
     AttentionInv, Covered, Attentive
<1>. QED
  BY <1>3, <1>4, <1>5, AddTaskFromOutsideIInv, QuiesceIInv, SpuriousWakeupIInv,
     CancelIInv, DestructIInv DEF Next, Terminated

\* The invariant holds in every state of every run of the pool.
THEOREM PoolInvariant == Spec => []IInv
<1>1. Init => IInv
  BY InitIInv
<1>2. IInv /\ [Next]_vars => IInv'
  BY IInvStep
<1>. QED
  BY <1>1, <1>2, PTL DEF Spec
-------------------------------------------------------------------------------
\* Whatever the number of workers and the order in which they spin, block, wake and
\* exit, mSpinningState and mBlocked mean what the code reads from them: AllBlocked is
\* true only when no worker runs or holds a task.
THEOREM CountersAreExact == Spec => []CountersMatchWorkers
<1>1. IInv => CountersMatchWorkers
  <2>. SUFFICES ASSUME IInv PROVE CountersMatchWorkers
    OBVIOUS
  <2>. USE PoolFacts DEF IInv
  <2>1. \A S \in SUBSET Workers : /\ Cardinality(S) \in Nat /\ Cardinality(S) <= mNumThreads
                                  /\ Cardinality(S) = mNumThreads => S = Workers
    BY Finite, Sizes DEF mNumThreads
  <2>2. /\ Spinning \in SUBSET Workers /\ MaybeBlocked \in SUBSET Workers
        /\ Pre \in SUBSET Workers /\ Workers \in SUBSET Workers
    BY DEF Spinning, MaybeBlocked, Blocked, Pre
  <2>3. /\ Cardinality(Spinning) <= mNumThreads /\ Cardinality(MaybeBlocked) <= mNumThreads
        /\ Cardinality(Pre) <= mNumThreads /\ mNumThreads \in Nat
    BY <2>1, <2>2 DEF mNumThreads
  <2>4. /\ mBlocked \in 0 .. mNumThreads /\ signals \in 0 .. mNumThreads
        /\ mSpinningState.mNumSpinning \in 0 .. mNumThreads
    BY <2>3, Numbers DEF Types, BlockInv, StatusInv, SpinInv
  <2>5. executed \in 0 .. MaxTasks
    BY Numbers DEF TaskInv, InPool, Types
  <2>6. TypeOK
    <3>1. mDone \in BOOLEAN /\ mCancelled \in BOOLEAN /\ hand \in [Workers -> BOOLEAN]
      BY DEF Flags
    <3>2. /\ queue \in [Workers -> 0 .. kCapacity]
          /\ status \in [Workers -> {"out", "pre", "parked", "woken"}]
          /\ todo \in [Threads -> SUBSET Workers]
      BY DEF Types
    <3>. QED
      BY <2>4, <2>5, <3>1, <3>2 DEF TypeOK
  <2>7. mSpinningState.mNumNoNotification \in 0 .. mSpinningState.mNumSpinning
    BY DEF SpinInv, Types
  <2>8. ASSUME AllBlocked, NEW w \in Workers
        PROVE  pc[w] \notin {"run", "push", "notifyRequired", "notify"} /\ ~hand[w]
    <3>1. Cardinality(MaybeBlocked) = mNumThreads
      BY <2>3, <2>8, Numbers DEF AllBlocked, BlockInv
    <3>2. w \in MaybeBlocked
      BY <2>1, <2>2, <3>1
    <3>. QED
      BY <3>2 DEF MaybeBlocked, Blocked, ControlInv
  <2>. QED
    BY <2>6, <2>7, <2>8 DEF CountersMatchWorkers, SpinInv
<1>. QED
  BY <1>1, PoolInvariant, PTL

\* A deque that is not empty has a place that is filled.
LEMMA QueuedMeans ==
  ASSUME Types
  PROVE  Queued > 0 <=> \E q \in Workers : queue[q] > 0
<1>1. Queued = Cardinality(Slots)
  BY DEF Queued, Slots
<1>2. ASSUME NEW q \in Workers, queue[q] > 0 PROVE Queued > 0
  <2>1. <<q, 1>> \in Slots
    BY <1>2, PoolFacts DEF Slots, Types
  <2>2. \A s \in Slots : Cardinality(Slots) > 0
    BY FiniteParts, Sizes
  <2>. QED
    BY <1>1, <2>1, <2>2
<1>3. ASSUME Queued > 0 PROVE \E q \in Workers : queue[q] > 0
  <2>1. Slots # {}
    BY <1>1, <1>3, FS_EmptySet
  <2>2. PICK s \in Workers \X (1 .. kCapacity) : s[2] <= queue[s[1]]
    BY <2>1 DEF Slots
  <2>. QED
    BY <2>2, PoolFacts DEF Types
<1>. QED
  BY <1>2, <1>3

\* No task sleeps with the workers, although AddTask skips the notification when a
\* worker pushes into its own empty queue or when somebody spins, and although a worker
\* looks at the queues one after the other while tasks are pushed behind its back.
THEOREM NobodySleepsOverWork == Spec => []NoSleepOverWork
<1>1. IInv => NoSleepOverWork
  <2>. SUFFICES ASSUME IInv, Queued > 0, ~mCancelled,
                       pc[Main] \notin {"notifyRequired", "notify"}
                PROVE  \E w \in Workers : pc[w] \notin {"parked", "exited"} \/ status[w] = "woken"
    BY DEF NoSleepOverWork
  <2>. USE PoolFacts DEF IInv
  <2>1. PICK q \in Workers : queue[q] > 0
    BY QueuedMeans
  <2>2. Covered(q)
    BY <2>1 DEF AttentionInv
  <2>3. CASE signals > 0
    <3>1. Cardinality(Pre) > 0
      BY <2>3, Numbers DEF StatusInv, Types
    <3>2. Pre # {}
      BY <3>1, FS_EmptySet
    <3>3. PICK w \in Workers : status[w] = "pre"
      BY <3>2 DEF Pre
    <3>4. pc[w] \in Waiting
      BY <3>3 DEF StatusInv, StatusOf
    <3>. QED
      BY <3>4 DEF Waiting
  <2>4. CASE \E w \in Workers : Attentive(w, q) \/ status[w] = "woken"
    BY <2>4 DEF Attentive
  <2>. QED
    BY <2>2, <2>3, <2>4 DEF Covered
<1>. QED
  BY <1>1, PoolInvariant, PTL

\* When the destructor has joined the workers, the event count has no waiter and no
\* signal, and a pool that was not cancelled has executed every task it was given.
THEOREM DestructorDrains == Spec => []DrainedWhenDestroyed
<1>1. IInv => DrainedWhenDestroyed
  <2>. SUFFICES ASSUME IInv, pc[Main] = "destroyed"
                PROVE  /\ signals = 0 /\ \A w \in Workers : status[w] = "out"
                       /\ mCancelled \/ (Queued = 0 /\ executed = submitted)
    BY DEF DrainedWhenDestroyed
  <2>. USE PoolFacts DEF IInv
  <2>1. \A w \in Workers : pc[w] = "exited"
    BY DEF ControlInv
  <2>2. \A w \in Workers : status[w] = "out"
    <3>. SUFFICES ASSUME NEW w \in Workers PROVE status[w] = "out"
      OBVIOUS
    <3>1. StatusOf(w) /\ status[w] \in {"out", "pre", "parked", "woken"}
      BY DEF StatusInv, Types
    <3>. QED
      BY <2>1, <3>1 DEF StatusOf, Waiting
  <2>3. signals = 0
    <3>1. Pre = {}
      BY <2>2 DEF Pre
    <3>. QED
      BY <3>1, FS_EmptySet DEF StatusInv, Types
  <2>4. ASSUME ~mCancelled PROVE Queued = 0 /\ executed = submitted
    <3>1. \A q \in Workers : ~Covered(q)
      BY <2>1, <2>2, <2>3 DEF Covered, Attentive
    <3>2. \A q \in Workers : ~(queue[q] > 0)
      BY <2>4, <3>1 DEF AttentionInv
    <3>3. ~(Queued > 0) /\ Queued = Cardinality(Slots)
      BY <3>2, QueuedMeans DEF Queued, Slots
    <3>4. Running = {} /\ Pushing = {}
      BY <2>1 DEF Running, Pushing, Busy, Threads, Adding, ControlInv
    <3>5. Cardinality(Slots) = 0 /\ Cardinality(Running) = 0 /\ Cardinality(Pushing) = 0
      BY <3>3, <3>4, Numbers, FS_EmptySet
    <3>. QED
      BY <2>4, <3>3, <3>5 DEF TaskInv, InPool, Types
  <2>. QED
    BY <2>2, <2>3, <2>4
<1>. QED
  BY <1>1, PoolInvariant, PTL
===============================================================================
