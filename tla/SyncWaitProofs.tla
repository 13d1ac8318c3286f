---------------------------- MODULE SyncWaitProofs ----------------------------
(***************************************************************************)
(* SyncWait over WhenAll for any number of tasks, of workers and of slots  *)
(* in a queue: what Main destroys is used by nobody any more, and SyncWait *)
(* returns or throws what the tasks left.                                  *)
(*                                                                         *)
(* A child is in one place, a thread or one slot of one queue, until it    *)
(* has ended; the count of WhenAll is the number of children that have not *)
(* been counted down, and one more until the root is registered.           *)
(***************************************************************************)
EXTENDS SyncWait, FiniteSetTheorems, SequenceTheorems, WellFoundedInduction, TLAPS

\* The thread is in the root, which it has resumed.
Root == {"collect", "set", "unset"}

\* Where Main is before the root is registered, and after Wait has returned.
Before == {"start", "body", "final", "notify"}
Behind == {"get", "destruct", "cancel", "join", "done"}

\* The child a thread is in, and how far that child is.
ThreadInv(t) ==
  /\ run[t] # NULL => run[t] \in 1 .. started
  /\ at[t] \in {"body", "final", "notify"} => run[t] # NULL
  /\ at[t] = "body" => mResultType[run[t]] = "kEmpty" /\ promise[run[t]] = "none"
  /\ at[t] = "final" => mResultType[run[t]] # "kEmpty" /\ promise[run[t]] = "none"
  /\ at[t] = "notify" => promise[run[t]] # "none"
  /\ at[t] \in Root /\ run[t] # NULL => promise[run[t]] # "none"
  /\ at[t] \notin InFrame \cup {"unset"} => run[t] = NULL

OneThread == \A t, u \in Threads : t # u /\ run[t] # NULL => run[t] # run[u]
PlaceInv == OneThread /\ \A t \in Threads : ThreadInv(t)

\* A child that waits on a queue is suspended in its body and on no thread.
Suspended(c) ==
  /\ c \in 1 .. started
  /\ mResultType[c] = "kEmpty" /\ promise[c] = "none"
  /\ \A t \in Threads : run[t] # c

QueueInv ==
  /\ \A w \in Workers : \A i \in 1 .. Len(queue[w]) : Suspended(queue[w][i])
  /\ \A v, w \in Workers : \A i \in 1 .. Len(queue[v]), j \in 1 .. Len(queue[w]) :
       queue[v][i] = queue[w][j] => v = w /\ i = j

\* What a child's WhenAllTask holds is what its Task left.
ChildInv ==
  \A c \in Coroutines :
    /\ c > started => mResultType[c] = "kEmpty" /\ promise[c] = "none"
    /\ promise[c] = "result" => mResultType[c] = "kAvaliable"
    /\ promise[c] = "exception" => mResultType[c] = "kException"

\* The children that have not been counted down.
Notifying(c) == \E t \in Threads : at[t] = "notify" /\ run[t] = c
Uncounted == {c \in Children : promise[c] = "none" \/ Notifying(c)}

CountInv ==
  m_count = Cardinality(Uncounted) + (IF mAwaitingCoroutine THEN 0 ELSE 1)

\* One thread is in the root, after the last child; the stages of the root.
RootInv ==
  /\ \A t \in Threads : at[t] \in Root =>
       /\ m_count = 0 /\ mAwaitingCoroutine
       /\ \A u \in Threads : at[u] \in Root => u = t
  /\ \A t \in Threads : at[t] = "collect" => rootResult = NoResult
  /\ \A t \in Threads : at[t] = "set" => rootResult # NoResult /\ ~mIsSet
  /\ \A t \in Threads : at[t] = "unset" <=> mMutex = t
  /\ mMutex # NULL => mIsSet
  /\ mIsSet => rootResult # NoResult
  /\ rootResult # NoResult => m_count = 0 /\ mAwaitingCoroutine

\* What the root stored is what WhenAll makes of the results of the children.
ResultInv == rootResult # NoResult => rootResult = WhenAll

\* Where Main is says how far SyncWait has come.
MainInv ==
  /\ at[Main] \notin WorkerPC
  /\ \A w \in Workers : at[w] \in InFrame \cup WorkerPC \cup {"unset"}
  /\ at[Main] \in Before => ~mAwaitingCoroutine
  /\ at[Main] \notin Before => mAwaitingCoroutine
  /\ at[Main] \in Behind => mIsSet /\ mMutex = NULL
  /\ IF at[Main] \in Behind \ {"get"} THEN ~event /\ got = rootResult
                                      ELSE event /\ got = NoResult
  /\ frames <=> at[Main] \notin Behind \ {"get", "destruct"}

IInv ==
  /\ TypeOK /\ PlaceInv /\ QueueInv /\ ChildInv /\ CountInv /\ RootInv
  /\ ResultInv /\ MainInv
-------------------------------------------------------------------------------
(***************************************************************************)
(* Sequences: where the elements of a queue are after a push or a pop.     *)
(***************************************************************************)

\* PushFront puts the element in the first slot and moves the others back.
LEMMA PushedFront ==
  ASSUME NEW S, NEW s \in Seq(S), NEW c \in S
  PROVE  /\ <<c>> \o s \in Seq(S)
         /\ Len(<<c>> \o s) = Len(s) + 1 /\ Len(s) \in Nat
         /\ (<<c>> \o s)[1] = c
         /\ \A i \in 2 .. Len(s) + 1 : (<<c>> \o s)[i] = s[i - 1]
<1>1. <<c>> \in Seq(S) /\ Len(<<c>>) = 1 /\ <<c>>[1] = c
  OBVIOUS
<1>2. Len(s) \in Nat
  BY LenProperties
<1>. QED
  BY <1>1, <1>2, ConcatProperties

\* PushBack puts it in a new last slot.
LEMMA PushedBack ==
  ASSUME NEW S, NEW s \in Seq(S), NEW c \in S
  PROVE  /\ Append(s, c) \in Seq(S)
         /\ Len(Append(s, c)) = Len(s) + 1 /\ Len(s) \in Nat
         /\ Append(s, c)[Len(s) + 1] = c
         /\ \A i \in 1 .. Len(s) : Append(s, c)[i] = s[i]
<1>1. Len(s) \in Nat
  BY LenProperties
<1>. QED
  BY <1>1, AppendProperties

\* PopFront takes the first slot and moves the others forward.
LEMMA PoppedFront ==
  ASSUME NEW S, NEW s \in Seq(S), s # <<>>
  PROVE  /\ Tail(s) \in Seq(S)
         /\ Len(s) \in Nat \ {0} /\ Len(Tail(s)) = Len(s) - 1
         /\ Head(s) \in S /\ Head(s) = s[1]
         /\ \A i \in 1 .. Len(s) - 1 : Tail(s)[i] = s[i + 1]
<1>1. Len(s) \in Nat \ {0}
  BY EmptySeq
<1>2. Head(s) = s[1]
  OBVIOUS
<1>. QED
  BY <1>1, <1>2, HeadTailProperties

\* PopBack takes the last slot.
LEMMA PoppedBack ==
  ASSUME NEW S, NEW s \in Seq(S), s # <<>>
  PROVE  LET r == SubSeq(s, 1, Len(s) - 1)
         IN  /\ r \in Seq(S)
             /\ Len(s) \in Nat \ {0} /\ Len(r) = Len(s) - 1
             /\ s[Len(s)] \in S
             /\ \A i \in 1 .. Len(s) - 1 : r[i] = s[i]
<1>1. Len(s) \in Nat \ {0}
  BY EmptySeq
<1>2. \A i \in 1 .. Len(s) : s[i] \in S
  BY ElementOfSeq
<1>3. s[Len(s)] \in S /\ \A i \in 1 .. Len(s) - 1 : s[i] \in S
  BY <1>1, <1>2
<1>4. /\ SubSeq(s, 1, Len(s) - 1) \in Seq(S)
      /\ Len(SubSeq(s, 1, Len(s) - 1)) = IF 1 <= Len(s) - 1 THEN Len(s) - 1 - 1 + 1 ELSE 0
      /\ \A i \in 1 .. Len(s) - 1 - 1 + 1 : SubSeq(s, 1, Len(s) - 1)[i] = s[1 + i - 1]
  <2>1. 1 \in Int /\ Len(s) - 1 \in Int
    BY <1>1
  <2>. QED
    BY <1>3, <2>1, SubSeqProperties
<1>5. Len(SubSeq(s, 1, Len(s) - 1)) = Len(s) - 1
  <2>1. \A n \in Nat \ {0} : (IF 1 <= n - 1 THEN n - 1 - 1 + 1 ELSE 0) = n - 1
    OBVIOUS
  <2>. QED
    BY <1>1, <1>4, <2>1, Zenon
<1>6. \A i \in 1 .. Len(s) - 1 : 1 + i - 1 = i /\ i \in 1 .. Len(s) - 1 - 1 + 1
  BY <1>1
<1>7. \A i \in 1 .. Len(s) - 1 : SubSeq(s, 1, Len(s) - 1)[i] = s[i]
  BY <1>4, <1>6
<1>. QED
  BY <1>1, <1>3, <1>4, <1>5, <1>7
-------------------------------------------------------------------------------
(***************************************************************************)
(* The count, and the smallest exception.                                  *)
(***************************************************************************)

\* The children that the count stands for are finitely many.
LEMMA UncountedFinite ==
  ASSUME size \in Nat
  PROVE  /\ IsFiniteSet(Uncounted) /\ Cardinality(Uncounted) \in 0 .. size
         /\ Cardinality(Uncounted) = 0 => Uncounted = {}
<1>1. IsFiniteSet(Children) /\ Cardinality(Children) = size
  <2>1. 1 \in Int /\ size \in Int
    OBVIOUS
  <2>. QED
    BY <2>1, FS_Interval DEF Children
<1>2. Uncounted \subseteq Children
  BY DEF Uncounted
<1>3. /\ IsFiniteSet(Uncounted) /\ Cardinality(Uncounted) \in Nat
      /\ Cardinality(Uncounted) <= size
  BY <1>1, <1>2, FS_Subset, FS_CardinalityType
<1>4. Cardinality(Uncounted) = 0 => Uncounted = {}
  BY <1>3, FS_EmptySet
<1>. QED
  BY <1>3, <1>4

\* A set of numbers that is not empty has a least one, which Min chooses.
LEMMA LeastOne ==
  ASSUME NEW S \in SUBSET Nat, S # {}
  PROVE  Min(S) \in S /\ \A y \in S : Min(S) <= y
<1>1. PICK x \in S : \A y \in S : ~(<<y, x>> \in OpToRel(<, Nat))
  BY NatLessThanWellFounded, WFMin, Zenon
<1>2. \A y \in S : <<y, x>> \in OpToRel(<, Nat) <=> y < x
  BY Zenon DEF OpToRel
<1>3. \A y \in S : ~(y < x)
  BY <1>1, <1>2, Zenon
<1>4. \A y \in S : x <= y
  BY <1>3
<1>. QED
  BY <1>4 DEF Min

\* What SyncWait makes of the results: no exception, or the first one.
LEMMA FirstException ==
  ASSUME size \in Nat
  PROVE  \/ WhenAll = AllValues /\ Failed = {}
         \/ WhenAll \in Failed /\ \A c \in Failed : WhenAll <= c
<1>1. Failed \in SUBSET Nat
  BY DEF Failed, Children
<1>. QED
  BY <1>1, LeastOne DEF WhenAll

\* When the count has come down to zero, every child has ended and has been
\* counted, so that nobody is in the frame of one and no queue holds one.
LEMMA AllEnded ==
  ASSUME IInv, m_count = 0
  PROVE  /\ \A c \in Children : promise[c] # "none"
         /\ \A t \in Threads : at[t] \notin {"body", "final", "notify"}
         /\ \A w \in Workers : queue[w] = <<>>
<1>. USE DEF IInv
<1>1. Uncounted = {} /\ mAwaitingCoroutine
  <2>1. size \in Nat
    BY DEF TypeOK
  <2>. QED
    BY <2>1, UncountedFinite DEF CountInv
<1>2. \A c \in Children : promise[c] # "none" /\ ~Notifying(c)
  BY <1>1 DEF Uncounted
<1>3. \A c \in 1 .. started : c \in Children
  BY DEF TypeOK, Children
<1>4. \A t \in Threads : at[t] \notin {"body", "final", "notify"}
  BY <1>2, <1>3 DEF PlaceInv, ThreadInv, Notifying
<1>5. ASSUME NEW w \in Workers, queue[w] # <<>> PROVE FALSE
  <2>1. queue[w] \in Seq(Coroutines)
    BY DEF TypeOK, PoolTypeOK
  <2>2. Len(queue[w]) \in Nat \ {0}
    BY <1>5, <2>1, EmptySeq
  <2>3. Suspended(queue[w][1])
    BY <2>2 DEF QueueInv
  <2>. QED
    BY <1>2, <1>3, <2>3 DEF Suspended
<1>. QED
  BY <1>2, <1>4, <1>5
-------------------------------------------------------------------------------
(***************************************************************************)
(* One lemma for each action.                                              *)
(***************************************************************************)

\* A step that touches no queue and no child on one keeps QueueInv.
LEMMA QueuesKept ==
  ASSUME QueueInv, queue' = queue,
         ASSUME NEW c, Suspended(c) PROVE Suspended(c)'
  PROVE  QueueInv'
  BY DEF QueueInv

\* try_await starts the next child on the stack of Main.
LEMMA StartTasksKeeps ==
  ASSUME IInv, start_tasks
  PROVE  IInv'
<1>. USE PoolAssumption, ChildrenAssumption
     DEF IInv, taskVars, countVars, eventVars, lifeVars
<1>1. TypeOK'
  BY DEF TypeOK, PoolTypeOK, InFrame, Threads, start_tasks, Goto
<1>2. PlaceInv'
  <2>1. /\ started + 1 \in Coroutines /\ started + 1 # NULL /\ started \in Nat
        /\ started' = started + 1 /\ run' = [run EXCEPT ![Main] = started + 1]
        /\ at' = [at EXCEPT ![Main] = "body"] /\ Main \in Threads
        /\ UNCHANGED <<mResultType, promise>>
    BY DEF start_tasks, Goto, TypeOK, Threads
  <2>2. mResultType[started + 1] = "kEmpty" /\ promise[started + 1] = "none"
    BY <2>1 DEF ChildInv
  <2>3. \A t \in Threads : ThreadInv(t)'
    BY <2>1, <2>2 DEF PlaceInv, ThreadInv, TypeOK, PoolTypeOK, Root, InFrame
  <2>4. \A t \in Threads : run[t] # started + 1
    BY <2>1 DEF PlaceInv, ThreadInv
  <2>5. OneThread'
    BY <2>1, <2>4 DEF PlaceInv, OneThread
  <2>. QED
    BY <2>3, <2>5 DEF PlaceInv
<1>3. QueueInv'
  <2>1. ASSUME NEW c, Suspended(c) PROVE Suspended(c)'
    BY <2>1 DEF Suspended, TypeOK, start_tasks
  <2>2. queue' = queue
    BY DEF start_tasks
  <2>. QED
    BY <2>1, <2>2, QueuesKept
<1>4. ChildInv'
  BY DEF ChildInv, TypeOK, start_tasks
<1>5. CountInv'
  <2>1. Uncounted' = Uncounted
    BY DEF Uncounted, Notifying, Children, start_tasks, Goto
  <2>. QED
    BY <2>1 DEF CountInv, start_tasks
<1>6. RootInv'
  BY DEF RootInv, Root, start_tasks, Goto
<1>7. ResultInv'
  BY DEF ResultInv, WhenAll, Failed, Children, start_tasks
<1>8. MainInv'
  BY DEF MainInv, Before, Behind, WorkerPC, start_tasks, Goto
<1>. QED
  BY <1>1, <1>2, <1>3, <1>4, <1>5, <1>6, <1>7, <1>8

\* The root is registered and gives up its own share of the count.
LEMMA TryAwaitKeeps ==
  ASSUME IInv, try_await
  PROVE  IInv'
<1>. USE PoolAssumption, ChildrenAssumption
     DEF IInv, taskVars, countVars, eventVars, lifeVars
<1>a. /\ ~mAwaitingCoroutine /\ m_count = Cardinality(Uncounted) + 1
      /\ Cardinality(Uncounted) \in 0 .. size /\ size \in Nat
      /\ m_count' = Cardinality(Uncounted) /\ mAwaitingCoroutine' = TRUE
      /\ at' = [at EXCEPT ![Main] = IF m_count > 1 THEN "wait" ELSE "collect"]
  <2>1. size \in Nat
    BY DEF TypeOK
  <2>2. ~mAwaitingCoroutine
    BY DEF MainInv, Before, try_await
  <2>. QED
    BY <2>1, <2>2, UncountedFinite DEF CountInv, try_await, CountDown, Goto
<1>1. TypeOK'
  BY <1>a DEF TypeOK, PoolTypeOK, InFrame, WorkerPC, Threads, try_await
<1>2. PlaceInv'
  BY DEF PlaceInv, OneThread, ThreadInv, InFrame, try_await, Goto
<1>3. QueueInv'
  <2>1. ASSUME NEW c, Suspended(c) PROVE Suspended(c)'
    BY <2>1 DEF Suspended, try_await
  <2>2. queue' = queue
    BY DEF try_await
  <2>. QED
    BY <2>1, <2>2, QueuesKept
<1>4. ChildInv'
  BY DEF ChildInv, try_await
<1>5. CountInv'
  <2>1. Uncounted' = Uncounted
    BY DEF Uncounted, Notifying, Children, try_await, Goto
  <2>. QED
    BY <1>a, <2>1 DEF CountInv
<1>6. RootInv'
  <2>1. /\ \A t \in Threads : at[t] \notin Root
        /\ rootResult = NoResult /\ mMutex = NULL /\ ~mIsSet
    BY <1>a DEF RootInv
  <2>2. UNCHANGED <<rootResult, mIsSet, mMutex>> /\ Main \in Threads
    BY DEF try_await, Threads
  <2>3. \A t \in Threads : at'[t] \in Root => t = Main /\ at'[t] = "collect" /\ m_count' = 0
    BY <1>a, <2>1 DEF Root
  <2>. QED
    BY <1>a, <2>1, <2>2, <2>3 DEF RootInv
<1>7. ResultInv'
  BY DEF ResultInv, WhenAll, Failed, Children, try_await
<1>8. MainInv'
  BY DEF MainInv, TypeOK, Threads, Before, Behind, WorkerPC, try_await, Goto
<1>. QED
  BY <1>1, <1>2, <1>3, <1>4, <1>5, <1>6, <1>7, <1>8

\* The body of a Task ends.
LEMMA TaskReturnKeeps ==
  ASSUME IInv, NEW t \in Threads, TaskReturn(t)
  PROVE  IInv'
<1>. USE PoolAssumption, ChildrenAssumption
     DEF IInv, taskVars, countVars, eventVars, lifeVars
<1>1. TypeOK'
  BY DEF TypeOK, PoolTypeOK, InFrame, TaskReturn, Goto
<1>2. PlaceInv'
  BY DEF PlaceInv, OneThread, ThreadInv, TypeOK, Root, InFrame, TaskReturn, Goto
<1>3. QueueInv'
  <2>1. ASSUME NEW c, Suspended(c) PROVE Suspended(c)'
    BY <2>1 DEF Suspended, TaskReturn
  <2>2. queue' = queue
    BY DEF TaskReturn
  <2>. QED
    BY <2>1, <2>2, QueuesKept
<1>4. ChildInv'
  BY DEF ChildInv, TypeOK, PlaceInv, ThreadInv, TaskReturn
<1>5. CountInv'
  <2>1. Uncounted' = Uncounted
    BY DEF Uncounted, Notifying, Children, TaskReturn, Goto
  <2>. QED
    BY <2>1 DEF CountInv, TaskReturn
<1>6. RootInv'
  BY DEF RootInv, Root, TaskReturn, Goto
<1>7. ResultInv'
  BY DEF ResultInv, WhenAll, Failed, Children, TaskReturn
<1>8. MainInv'
  BY DEF MainInv, Before, Behind, InFrame, WorkerPC, TaskReturn, Goto
<1>. QED
  BY <1>1, <1>2, <1>3, <1>4, <1>5, <1>6, <1>7, <1>8

\* The WhenAllTask takes the result of its Task.
LEMMA TaskContinueKeeps ==
  ASSUME IInv, NEW t \in Threads, TaskContinue(t)
  PROVE  IInv'
<1>. USE PoolAssumption, ChildrenAssumption
     DEF IInv, taskVars, countVars, eventVars, lifeVars
<1>1. TypeOK'
  BY DEF TypeOK, PoolTypeOK, InFrame, TaskContinue, TaskGet, Goto
<1>2. PlaceInv'
  BY DEF PlaceInv, OneThread, ThreadInv, TypeOK, InFrame, WorkerPC, TaskContinue,
         TaskGet, Goto
<1>3. QueueInv'
  <2>1. ASSUME NEW c, Suspended(c) PROVE Suspended(c)'
    BY <2>1 DEF Suspended, TaskContinue
  <2>2. queue' = queue
    BY DEF TaskContinue
  <2>. QED
    BY <2>1, <2>2, QueuesKept
<1>4. ChildInv'
  BY DEF ChildInv, TypeOK, PlaceInv, ThreadInv, TaskContinue, TaskGet
<1>5. CountInv'
  <2>1. Uncounted' = Uncounted
    BY DEF Uncounted, Notifying, Children, TypeOK, PlaceInv, ThreadInv, TaskContinue, Goto
  <2>. QED
    BY <2>1 DEF CountInv, TaskContinue
<1>6. RootInv'
  BY DEF RootInv, Root, TaskContinue, Goto
<1>7. ResultInv'
  <2>1. rootResult = NoResult
    BY AllEnded DEF RootInv, TaskContinue
  <2>. QED
    BY <2>1 DEF ResultInv, TaskContinue
<1>8. MainInv'
  BY DEF MainInv, Before, Behind, InFrame, WorkerPC, TaskContinue, Goto
<1>. QED
  BY <1>1, <1>2, <1>3, <1>4, <1>5, <1>6, <1>7, <1>8

\* The root stores what WhenAll makes of the results.
LEMMA FmapResumeKeeps ==
  ASSUME IInv, NEW t \in Threads, FmapResume(t)
  PROVE  IInv'
<1>. USE PoolAssumption, ChildrenAssumption
     DEF IInv, taskVars, countVars, eventVars, lifeVars
<1>a. /\ rootResult = NoResult /\ ~mIsSet /\ mMutex = NULL
      /\ m_count = 0 /\ mAwaitingCoroutine
      /\ \A u \in Threads : at[u] \in Root => u = t
  BY DEF RootInv, Root, FmapResume
<1>b. WhenAll \in 0 .. MaxTasks
  BY FirstException DEF TypeOK, Failed, Children, AllValues
<1>1. TypeOK'
  BY <1>b DEF TypeOK, PoolTypeOK, InFrame, NoResult, FmapResume, StoreResult, Goto
<1>2. PlaceInv'
  BY DEF PlaceInv, OneThread, ThreadInv, Root, InFrame, FmapResume, StoreResult, Goto
<1>3. QueueInv'
  <2>1. ASSUME NEW c, Suspended(c) PROVE Suspended(c)'
    BY <2>1 DEF Suspended, FmapResume
  <2>2. queue' = queue
    BY DEF FmapResume
  <2>. QED
    BY <2>1, <2>2, QueuesKept
<1>4. ChildInv'
  BY DEF ChildInv, FmapResume
<1>5. CountInv'
  <2>1. Uncounted' = Uncounted
    BY DEF Uncounted, Notifying, Children, FmapResume, StoreResult, Goto
  <2>. QED
    BY <2>1 DEF CountInv, FmapResume
<1>6. RootInv'
  <2>1. /\ at' = [at EXCEPT ![t] = "set"] /\ rootResult' = WhenAll
        /\ UNCHANGED <<mIsSet, mMutex, m_count, mAwaitingCoroutine>>
    BY DEF FmapResume, StoreResult, Goto
  <2>2. \A u \in Threads : at'[u] \in Root => u = t /\ at'[u] = "set"
    BY <1>a, <2>1 DEF TypeOK
  <2>3. WhenAll # NoResult
    BY <1>b DEF NoResult
  <2>4. t # NULL /\ \A u \in Threads : u # NULL
    BY DEF Threads
  <2>. QED
    BY <1>a, <2>1, <2>2, <2>3, <2>4 DEF RootInv, Root
<1>7. ResultInv'
  BY DEF ResultInv, WhenAll, Failed, Children, FmapResume, StoreResult
<1>8. MainInv'
  BY DEF MainInv, RootInv, Before, Behind, InFrame, WorkerPC, FmapResume, StoreResult, Goto
<1>. QED
  BY <1>1, <1>2, <1>3, <1>4, <1>5, <1>6, <1>7, <1>8

\* Set takes the mutex and sets the flag.
LEMMA SetNotifyKeeps ==
  ASSUME IInv, NEW t \in Threads, SetNotify(t)
  PROVE  IInv'
<1>. USE PoolAssumption, ChildrenAssumption
     DEF IInv, taskVars, countVars, eventVars, lifeVars
<1>1. TypeOK'
  BY DEF TypeOK, PoolTypeOK, SetNotify, SetLock
<1>2. PlaceInv'
  BY DEF PlaceInv, OneThread, ThreadInv, TypeOK, Root, InFrame, SetNotify
<1>3. QueueInv'
  <2>1. ASSUME NEW c, Suspended(c) PROVE Suspended(c)'
    BY <2>1 DEF Suspended, SetNotify
  <2>2. queue' = queue
    BY DEF SetNotify
  <2>. QED
    BY <2>1, <2>2, QueuesKept
<1>4. ChildInv'
  BY DEF ChildInv, SetNotify
<1>5. CountInv'
  <2>1. Uncounted' = Uncounted
    BY DEF Uncounted, Notifying, Children, TypeOK, SetNotify
  <2>. QED
    BY <2>1 DEF CountInv, SetNotify
<1>6. RootInv'
  <2>1. /\ m_count = 0 /\ mAwaitingCoroutine /\ rootResult # NoResult
        /\ \A u \in Threads : at[u] \in Root => u = t
    BY DEF RootInv, Root, SetNotify
  <2>2. /\ mMutex' = t /\ mIsSet' = TRUE
        /\ UNCHANGED <<rootResult, m_count, mAwaitingCoroutine>>
    BY DEF SetNotify, SetLock
  <2>3. /\ at'[t] = "unset"
        /\ \A u \in Threads : u # t => at'[u] \notin Root
    BY <2>1 DEF SetNotify, TypeOK, Root
  <2>. QED
    BY <2>1, <2>2, <2>3 DEF RootInv, Root
<1>7. ResultInv'
  BY DEF ResultInv, WhenAll, Failed, Children, SetNotify
<1>8. MainInv'
  BY DEF MainInv, RootInv, TypeOK, Threads, Before, Behind, InFrame, WorkerPC, SetNotify
<1>. QED
  BY <1>1, <1>2, <1>3, <1>4, <1>5, <1>6, <1>7, <1>8

\* Set gives the mutex back, its last access to the notifier.
LEMMA SetUnlockKeeps ==
  ASSUME IInv, NEW t \in Threads, SetUnlock(t)
  PROVE  IInv'
<1>. USE PoolAssumption, ChildrenAssumption
     DEF IInv, taskVars, countVars, eventVars, lifeVars
<1>1. TypeOK'
  BY DEF TypeOK, PoolTypeOK, WorkerPC, Threads, SetUnlock, Leave, ReturnTo, Goto
<1>2. PlaceInv'
  BY DEF PlaceInv, OneThread, ThreadInv, TypeOK, PoolTypeOK, Threads, SetUnlock, Leave,
         ReturnTo, Goto
<1>3. QueueInv'
  <2>1. ASSUME NEW c, Suspended(c) PROVE Suspended(c)'
    BY <2>1 DEF Suspended, TypeOK, Threads, SetUnlock, Leave, ReturnTo, Goto
  <2>2. queue' = queue
    BY DEF SetUnlock
  <2>. QED
    BY <2>1, <2>2, QueuesKept
<1>4. ChildInv'
  BY DEF ChildInv, SetUnlock
<1>5. CountInv'
  <2>1. Uncounted' = Uncounted
    BY DEF Uncounted, Notifying, Children, TypeOK, PoolTypeOK, SetUnlock, Leave, Goto
  <2>. QED
    BY <2>1 DEF CountInv, SetUnlock
<1>6. RootInv'
  BY DEF RootInv, TypeOK, Threads, Root, SetUnlock, Leave, ReturnTo, Goto
<1>7. ResultInv'
  BY DEF ResultInv, WhenAll, Failed, Children, SetUnlock
<1>8. MainInv'
  BY DEF MainInv, Before, Behind, WorkerPC, SetUnlock, Leave, ReturnTo, Goto
<1>. QED
  BY <1>1, <1>2, <1>3, <1>4, <1>5, <1>6, <1>7, <1>8

\* Main looks at the flag under the mutex.
LEMMA WaitKeeps ==
  ASSUME IInv, Wait
  PROVE  IInv'
<1>. USE PoolAssumption, ChildrenAssumption
     DEF IInv, taskVars, countVars, eventVars, lifeVars
<1>1. TypeOK'
  BY DEF TypeOK, PoolTypeOK, Wait, Goto
<1>2. PlaceInv'
  BY DEF PlaceInv, OneThread, ThreadInv, InFrame, Wait, Goto
<1>3. QueueInv'
  <2>1. ASSUME NEW c, Suspended(c) PROVE Suspended(c)'
    BY <2>1 DEF Suspended, Wait
  <2>2. queue' = queue
    BY DEF Wait
  <2>. QED
    BY <2>1, <2>2, QueuesKept
<1>4. ChildInv'
  BY DEF ChildInv, Wait
<1>5. CountInv'
  <2>1. Uncounted' = Uncounted
    BY DEF Uncounted, Notifying, Children, Wait, Goto
  <2>. QED
    BY <2>1 DEF CountInv, Wait
<1>6. RootInv'
  BY DEF RootInv, Root, Wait, Goto
<1>7. ResultInv'
  BY DEF ResultInv, WhenAll, Failed, Children, Wait
<1>8. MainInv'
  BY DEF MainInv, Before, Behind, WorkerPC, Wait, Goto
<1>. QED
  BY <1>1, <1>2, <1>3, <1>4, <1>5, <1>6, <1>7, <1>8

\* Main looks again.
LEMMA SpuriousWakeupKeeps ==
  ASSUME IInv, SpuriousWakeup
  PROVE  IInv'
<1>. USE PoolAssumption, ChildrenAssumption
     DEF IInv, taskVars, countVars, eventVars, lifeVars
<1>1. TypeOK'
  BY DEF TypeOK, PoolTypeOK, SpuriousWakeup, Goto
<1>2. PlaceInv'
  BY DEF PlaceInv, OneThread, ThreadInv, InFrame, SpuriousWakeup, Goto
<1>3. QueueInv'
  <2>1. ASSUME NEW c, Suspended(c) PROVE Suspended(c)'
    BY <2>1 DEF Suspended, SpuriousWakeup
  <2>2. queue' = queue
    BY DEF SpuriousWakeup
  <2>. QED
    BY <2>1, <2>2, QueuesKept
<1>4. ChildInv'
  BY DEF ChildInv, SpuriousWakeup
<1>5. CountInv'
  <2>1. Uncounted' = Uncounted
    BY DEF Uncounted, Notifying, Children, SpuriousWakeup, Goto
  <2>. QED
    BY <2>1 DEF CountInv, SpuriousWakeup
<1>6. RootInv'
  BY DEF RootInv, Root, SpuriousWakeup, Goto
<1>7. ResultInv'
  BY DEF ResultInv, WhenAll, Failed, Children, SpuriousWakeup
<1>8. MainInv'
  BY DEF MainInv, Before, Behind, WorkerPC, SpuriousWakeup, Goto
<1>. QED
  BY <1>1, <1>2, <1>3, <1>4, <1>5, <1>6, <1>7, <1>8

\* get returns or throws, and the notifier goes.
LEMMA GetKeeps ==
  ASSUME IInv, get
  PROVE  IInv'
<1>. USE PoolAssumption, ChildrenAssumption
     DEF IInv, taskVars, countVars, eventVars, lifeVars
<1>1. TypeOK'
  BY DEF TypeOK, PoolTypeOK, get, Goto
<1>2. PlaceInv'
  BY DEF PlaceInv, OneThread, ThreadInv, InFrame, get, Goto
<1>3. QueueInv'
  <2>1. ASSUME NEW c, Suspended(c) PROVE Suspended(c)'
    BY <2>1 DEF Suspended, get
  <2>2. queue' = queue
    BY DEF get
  <2>. QED
    BY <2>1, <2>2, QueuesKept
<1>4. ChildInv'
  BY DEF ChildInv, get
<1>5. CountInv'
  <2>1. Uncounted' = Uncounted
    BY DEF Uncounted, Notifying, Children, get, Goto
  <2>. QED
    BY <2>1 DEF CountInv, get
<1>6. RootInv'
  BY DEF RootInv, Root, get, Goto
<1>7. ResultInv'
  BY DEF ResultInv, WhenAll, Failed, Children, get
<1>8. MainInv'
  BY DEF MainInv, TypeOK, Threads, Before, Behind, WorkerPC, get, Goto
<1>. QED
  BY <1>1, <1>2, <1>3, <1>4, <1>5, <1>6, <1>7, <1>8

\* The frames go.
LEMMA DestructKeeps ==
  ASSUME IInv, Destruct
  PROVE  IInv'
<1>. USE PoolAssumption, ChildrenAssumption
     DEF IInv, taskVars, countVars, eventVars, lifeVars
<1>1. TypeOK'
  BY DEF TypeOK, PoolTypeOK, Destruct, Goto
<1>2. PlaceInv'
  BY DEF PlaceInv, OneThread, ThreadInv, InFrame, Destruct, Goto
<1>3. QueueInv'
  <2>1. ASSUME NEW c, Suspended(c) PROVE Suspended(c)'
    BY <2>1 DEF Suspended, Destruct
  <2>2. queue' = queue
    BY DEF Destruct
  <2>. QED
    BY <2>1, <2>2, QueuesKept
<1>4. ChildInv'
  BY DEF ChildInv, Destruct
<1>5. CountInv'
  <2>1. Uncounted' = Uncounted
    BY DEF Uncounted, Notifying, Children, Destruct, Goto
  <2>. QED
    BY <2>1 DEF CountInv, Destruct
<1>6. RootInv'
  BY DEF RootInv, Root, Destruct, Goto
<1>7. ResultInv'
  BY DEF ResultInv, WhenAll, Failed, Children, Destruct
<1>8. MainInv'
  BY DEF MainInv, TypeOK, Threads, Before, Behind, WorkerPC, Destruct, Goto
<1>. QED
  BY <1>1, <1>2, <1>3, <1>4, <1>5, <1>6, <1>7, <1>8

\* The pool is cancelled.
LEMMA CancelKeeps ==
  ASSUME IInv, PoolStep(Cancel)
  PROVE  IInv'
<1>. USE PoolAssumption, ChildrenAssumption
     DEF IInv, taskVars, countVars, eventVars, lifeVars
<1>1. TypeOK'
  BY DEF TypeOK, PoolTypeOK, PoolStep, Cancel, Goto
<1>2. PlaceInv'
  BY DEF PlaceInv, OneThread, ThreadInv, InFrame, PoolStep, Cancel, Goto
<1>3. QueueInv'
  <2>1. ASSUME NEW c, Suspended(c) PROVE Suspended(c)'
    BY <2>1 DEF Suspended, PoolStep, Cancel
  <2>2. queue' = queue
    BY DEF PoolStep, Cancel
  <2>. QED
    BY <2>1, <2>2, QueuesKept
<1>4. ChildInv'
  BY DEF ChildInv, PoolStep
<1>5. CountInv'
  <2>1. Uncounted' = Uncounted
    BY DEF Uncounted, Notifying, Children, PoolStep, Cancel, Goto
  <2>. QED
    BY <2>1 DEF CountInv, PoolStep
<1>6. RootInv'
  BY DEF RootInv, Root, PoolStep, Cancel, Goto
<1>7. ResultInv'
  BY DEF ResultInv, WhenAll, Failed, Children, PoolStep
<1>8. MainInv'
  BY DEF MainInv, Before, Behind, WorkerPC, PoolStep, Cancel, Goto
<1>. QED
  BY <1>1, <1>2, <1>3, <1>4, <1>5, <1>6, <1>7, <1>8

\* The workers have ended.
LEMMA JoinKeeps ==
  ASSUME IInv, PoolStep(Join)
  PROVE  IInv'
<1>. USE PoolAssumption, ChildrenAssumption
     DEF IInv, taskVars, countVars, eventVars, lifeVars
<1>1. TypeOK'
  BY DEF TypeOK, PoolTypeOK, PoolStep, Join, Goto
<1>2. PlaceInv'
  BY DEF PlaceInv, OneThread, ThreadInv, InFrame, PoolStep, Join, Goto
<1>3. QueueInv'
  <2>1. ASSUME NEW c, Suspended(c) PROVE Suspended(c)'
    BY <2>1 DEF Suspended, PoolStep, Join
  <2>2. queue' = queue
    BY DEF PoolStep, Join
  <2>. QED
    BY <2>1, <2>2, QueuesKept
<1>4. ChildInv'
  BY DEF ChildInv, PoolStep
<1>5. CountInv'
  <2>1. Uncounted' = Uncounted
    BY DEF Uncounted, Notifying, Children, PoolStep, Join, Goto
  <2>. QED
    BY <2>1 DEF CountInv, PoolStep
<1>6. RootInv'
  BY DEF RootInv, Root, PoolStep, Join, Goto
<1>7. ResultInv'
  BY DEF ResultInv, WhenAll, Failed, Children, PoolStep
<1>8. MainInv'
  BY DEF MainInv, Before, Behind, WorkerPC, PoolStep, Join, Goto
<1>. QED
  BY <1>1, <1>2, <1>3, <1>4, <1>5, <1>6, <1>7, <1>8

\* The queues after one of them was replaced.
LEMMA QueueReplaced ==
  ASSUME QueueInv, queue \in [Workers -> Seq(Coroutines)],
         NEW w \in Workers, NEW r, queue' = [queue EXCEPT ![w] = r],
         \A i, j \in 1 .. Len(r) : r[i] = r[j] => i = j,
         \A i \in 1 .. Len(r) : Suspended(r[i])',
         \A v \in Workers \ {w} : \A j \in 1 .. Len(queue[v]) :
           /\ Suspended(queue[v][j])'
           /\ \A i \in 1 .. Len(r) : queue[v][j] # r[i]
  PROVE  QueueInv'
<1>1. queue'[w] = r /\ \A v \in Workers \ {w} : queue'[v] = queue[v]
  OBVIOUS
<1>2. ASSUME NEW v \in Workers, NEW i \in 1 .. Len(queue'[v])
      PROVE  Suspended(queue[v][i])'
  BY <1>1, <1>2
<1>. QED
  BY <1>1, <1>2 DEF QueueInv

\* The last access of a child to the counter: whoever takes it to zero is a worker
\* and finds the root registered and all children ended.
LEMMA NotifyKeeps ==
  ASSUME IInv, NEW t \in Threads, notify_awaitable_completed(t)
  PROVE  IInv'
<1>. USE PoolAssumption, ChildrenAssumption
     DEF IInv, taskVars, countVars, eventVars, lifeVars
<1>1. /\ run[t] \in Coroutines /\ run[t] # NULL /\ run[t] \in Children
      /\ at[t] = "notify" /\ promise[run[t]] # "none" /\ size \in Nat
      /\ run[t] \in Uncounted
  <2>1. /\ at[t] = "notify" /\ run[t] # NULL /\ run[t] \in 1 .. started
        /\ promise[run[t]] # "none"
    BY DEF notify_awaitable_completed, PlaceInv, ThreadInv
  <2>2. run[t] \in Children /\ run[t] \in Coroutines /\ size \in Nat
    BY <2>1 DEF TypeOK, Children
  <2>. QED
    BY <2>1, <2>2 DEF Uncounted, Notifying
<1>2. /\ Cardinality(Uncounted) \in 1 .. size
      /\ Cardinality(Uncounted \ {run[t]}) = Cardinality(Uncounted) - 1
  <2>1. IsFiniteSet(Uncounted) /\ Cardinality(Uncounted) \in 0 .. size
    BY <1>1, UncountedFinite
  <2>2. /\ Cardinality(Uncounted) # 0
        /\ Cardinality(Uncounted \ {run[t]}) = Cardinality(Uncounted) - 1
    BY <1>1, <2>1, FS_EmptySet, FS_RemoveElement
  <2>. QED
    BY <1>1, <2>1, <2>2
<1>3. /\ m_count = Cardinality(Uncounted) + (IF mAwaitingCoroutine THEN 0 ELSE 1)
      /\ m_count \in 1 .. size + 1 /\ m_count' = m_count - 1
      /\ m_count = 1 => mAwaitingCoroutine
  BY <1>1, <1>2 DEF CountInv, notify_awaitable_completed, CountDown
<1>4. /\ t = Main => ~mAwaitingCoroutine
      /\ \A u \in Threads : at[u] \notin Root
      /\ rootResult = NoResult /\ mMutex = NULL /\ ~mIsSet
  BY <1>1, <1>3 DEF MainInv, Before, RootInv, TypeOK
<1>5. \/ /\ m_count = 1 /\ t \in Workers
         /\ at' = [at EXCEPT ![t] = "collect"] /\ run' = run
      \/ /\ m_count # 1 /\ run' = [run EXCEPT ![t] = NULL]
         /\ at' = [at EXCEPT ![t] = IF t \in Workers THEN "head" ELSE "start"]
  BY <1>3, <1>4 DEF notify_awaitable_completed, Leave, ReturnTo, Goto, Threads
<1>6. UNCHANGED <<queue, mCancelled, left, size, started, mAwaitingCoroutine, schedules,
                  mResultType, promise, rootResult, mIsSet, mMutex, event, frames, got>>
  BY DEF notify_awaitable_completed
<1>7. TypeOK'
  <2>1. m_count' \in 0 .. size + 1
    BY <1>1, <1>3
  <2>2. run' \in [Threads -> Coroutines \cup {NULL}]
    BY <1>5 DEF TypeOK, PoolTypeOK
  <2>3. at' \in [Threads -> InFrame \cup WorkerPC \cup
              {"unset", "start", "wait", "blocked", "get", "destruct", "cancel",
               "join", "done"}]
    BY <1>5 DEF TypeOK, InFrame, WorkerPC
  <2>. QED
    BY <1>6, <2>1, <2>2, <2>3 DEF TypeOK, PoolTypeOK
<1>8. PlaceInv'
  <2>1. OneThread'
    BY <1>5, <1>6 DEF PlaceInv, OneThread, TypeOK, PoolTypeOK
  <2>2. ASSUME NEW u \in Threads PROVE ThreadInv(u)'
    <3>1. CASE u = t
      BY <1>1, <1>5, <1>6, <3>1 DEF PlaceInv, ThreadInv, TypeOK, PoolTypeOK, Root, InFrame
    <3>2. CASE u # t
      <4>1. at'[u] = at[u] /\ run'[u] = run[u]
        BY <1>5, <3>2 DEF TypeOK, PoolTypeOK
      <4>. QED
        BY <1>6, <4>1 DEF PlaceInv, ThreadInv
    <3>. QED
      BY <3>1, <3>2
  <2>. QED
    BY <2>1, <2>2 DEF PlaceInv
<1>9. QueueInv'
  <2>1. ASSUME NEW c, Suspended(c) PROVE Suspended(c)'
    BY <1>5, <1>6, <2>1 DEF Suspended, TypeOK, PoolTypeOK
  <2>. QED
    BY <1>6, <2>1, QueuesKept
<1>10. ChildInv'
  BY <1>6 DEF ChildInv
<1>11. CountInv'
  <2>1. \A u \in Threads : u # t => run[u] # run[t]
    BY <1>1 DEF PlaceInv, OneThread
  <2>2. \A c : c # run[t] => (Notifying(c)' <=> Notifying(c))
    BY <1>1, <1>5 DEF Notifying, TypeOK, PoolTypeOK
  <2>3. \A u \in Threads : ~(at'[u] = "notify" /\ run'[u] = run[t])
    BY <1>5, <2>1 DEF TypeOK, PoolTypeOK
  <2>4. ASSUME NEW c \in Children
        PROVE  (promise'[c] = "none" \/ Notifying(c)') <=> c \in Uncounted \ {run[t]}
    <3>1. CASE c = run[t]
      BY <1>1, <1>6, <2>3, <3>1 DEF Notifying
    <3>2. CASE c # run[t]
      BY <1>6, <2>2, <3>2 DEF Uncounted
    <3>. QED
      BY <3>1, <3>2
  <2>5. Uncounted' = Uncounted \ {run[t]}
    BY <1>6, <2>4 DEF Uncounted, Children
  <2>. QED
    BY <1>2, <1>3, <1>6, <2>5 DEF CountInv
<1>12. RootInv'
  <2>1. \A u \in Threads : at'[u] \in Root =>
          u = t /\ at'[u] = "collect" /\ m_count' = 0 /\ mAwaitingCoroutine
    BY <1>3, <1>4, <1>5 DEF TypeOK, Root
  <2>2. \A u \in Threads : u # NULL
    BY DEF Threads
  <2>. QED
    BY <1>4, <1>6, <2>1, <2>2 DEF RootInv, Root
<1>13. ResultInv'
  BY <1>4, <1>6 DEF ResultInv
<1>14. MainInv'
  BY <1>1, <1>4, <1>5, <1>6
  DEF MainInv, Threads, Before, Behind, InFrame, WorkerPC, TypeOK
<1>. QED
  BY <1>7, <1>8, <1>9, <1>10, <1>11, <1>12, <1>13, <1>14

\* Schedule: the child goes from its thread to a queue, or stays on the thread when
\* that queue is full.
LEMMA ScheduleKeeps ==
  ASSUME IInv, NEW t \in Threads, Schedule(t)
  PROVE  IInv'
<1>. USE PoolAssumption, ChildrenAssumption
     DEF IInv, taskVars, countVars, eventVars, lifeVars
<1>. DEFINE c == run[t]
            After == IF t \in Workers THEN "head" ELSE "start"
<1>1. /\ at[t] = "body" /\ c # NULL /\ c \in Coroutines /\ c \in 1 .. started
      /\ mResultType[c] = "kEmpty" /\ promise[c] = "none"
      /\ schedules[c] < MaxSchedules /\ schedules' = [schedules EXCEPT ![c] = @ + 1]
  BY DEF Schedule, PlaceInv, ThreadInv, TypeOK, PoolTypeOK
<1>2. UNCHANGED <<mCancelled, left, size, started, m_count, mAwaitingCoroutine, mResultType,
                  promise, rootResult, mIsSet, mMutex, event, frames, got>>
  BY DEF Schedule, AddTask
<1>3. ReturnTo(t) = After
  BY <1>1 DEF ReturnTo, MainInv, Before, Threads
<1>4. PICK w \in Workers :
        \/ UNCHANGED <<queue, run>> /\ at' = [at EXCEPT ![t] = "body"]
        \/ /\ ~Full(w) /\ at' = [at EXCEPT ![t] = After] /\ run' = [run EXCEPT ![t] = NULL]
           /\ \/ queue' = [queue EXCEPT ![w] = <<c>> \o queue[w]]
              \/ queue' = [queue EXCEPT ![w] = Append(queue[w], c)]
  BY <1>3 DEF Schedule, AddTask, PushFront, PushBack, Goto
<1>5. schedules' \in [Coroutines -> 0 .. MaxSchedules]
  BY <1>1 DEF TypeOK
<1>6. CASE UNCHANGED <<queue, run>> /\ at' = [at EXCEPT ![t] = "body"]
  <2>1. at' = at
    BY <1>1, <1>6 DEF TypeOK
  <2>2. TypeOK'
    BY <1>2, <1>5, <1>6, <2>1 DEF TypeOK, PoolTypeOK
  <2>3. PlaceInv'
    BY <1>2, <1>6, <2>1 DEF PlaceInv, OneThread, ThreadInv
  <2>4. QueueInv' /\ ChildInv'
    BY <1>2, <1>6, <2>1 DEF QueueInv, Suspended, ChildInv
  <2>5. CountInv'
    BY <1>2, <1>6, <2>1 DEF CountInv, Uncounted, Notifying, Children
  <2>6. RootInv' /\ MainInv'
    BY <1>2, <1>6, <2>1 DEF RootInv, MainInv
  <2>7. ResultInv'
    BY <1>2 DEF ResultInv, WhenAll, Failed, Children
  <2>. QED
    BY <2>2, <2>3, <2>4, <2>5, <2>6, <2>7
<1>7. CASE /\ ~Full(w) /\ at' = [at EXCEPT ![t] = After] /\ run' = [run EXCEPT ![t] = NULL]
           /\ \/ queue' = [queue EXCEPT ![w] = <<c>> \o queue[w]]
              \/ queue' = [queue EXCEPT ![w] = Append(queue[w], c)]
  <2>1. /\ queue \in [Workers -> Seq(Coroutines)] /\ queue[w] \in Seq(Coroutines)
        /\ Len(queue[w]) \in Nat /\ Len(queue[w]) + 1 <= kCapacity
    <3>1. queue \in [Workers -> Seq(Coroutines)] /\ Len(queue[w]) <= kCapacity
      BY DEF TypeOK, PoolTypeOK
    <3>2. queue[w] \in Seq(Coroutines)
      BY <3>1
    <3>3. Len(queue[w]) \in Nat
      BY <3>2, LenProperties
    <3>. QED
      BY <1>7, <3>1, <3>2, <3>3 DEF Full
  <2>2. \A v \in Workers : \A i \in 1 .. Len(queue[v]) : queue[v][i] # c
    BY DEF QueueInv, Suspended
  <2>3. \A i, j \in 1 .. Len(queue[w]) : queue[w][i] = queue[w][j] => i = j
    BY DEF QueueInv
  <2>4. PICK r : /\ queue' = [queue EXCEPT ![w] = r]
                 /\ r = <<c>> \o queue[w] \/ r = Append(queue[w], c)
    BY <1>7
  <2>5. /\ r \in Seq(Coroutines) /\ Len(r) = Len(queue[w]) + 1
        /\ \A i \in 1 .. Len(r) : r[i] = c \/ \E j \in 1 .. Len(queue[w]) : r[i] = queue[w][j]
        /\ \A i, j \in 1 .. Len(r) : r[i] = r[j] => i = j
    <3>1. CASE r = <<c>> \o queue[w]
      <4>1. /\ r \in Seq(Coroutines) /\ Len(r) = Len(queue[w]) + 1 /\ r[1] = c
            /\ \A i \in 2 .. Len(queue[w]) + 1 : r[i] = queue[w][i - 1]
        BY <1>1, <2>1, <3>1, PushedFront
      <4>2. \A i \in 1 .. Len(r) :
              i = 1 \/ (i - 1 \in 1 .. Len(queue[w]) /\ i \in 2 .. Len(queue[w]) + 1)
        BY <2>1, <4>1
      <4>3. ASSUME NEW i \in 1 .. Len(r), NEW j \in 1 .. Len(r), r[i] = r[j] PROVE i = j
        <5>1. CASE i = 1 \/ j = 1
          BY <2>2, <4>1, <4>2, <4>3, <5>1
        <5>2. CASE i # 1 /\ j # 1
          <6>1. i - 1 = j - 1
            BY <2>3, <4>1, <4>2, <4>3, <5>2
          <6>. QED
            BY <6>1
        <5>. QED
          BY <5>1, <5>2
      <4>. QED
        BY <4>1, <4>2, <4>3
    <3>2. CASE r = Append(queue[w], c)
      <4>1. /\ r \in Seq(Coroutines) /\ Len(r) = Len(queue[w]) + 1
            /\ r[Len(queue[w]) + 1] = c
            /\ \A i \in 1 .. Len(queue[w]) : r[i] = queue[w][i]
        BY <1>1, <2>1, <3>2, PushedBack
      <4>2. \A i \in 1 .. Len(r) : i \in 1 .. Len(queue[w]) \/ i = Len(queue[w]) + 1
        BY <2>1, <4>1
      <4>. QED
        BY <2>1, <2>2, <2>3, <4>1, <4>2
    <3>. QED
      BY <2>4, <3>1, <3>2
  <2>6. TypeOK'
    <3>1. queue' \in [Workers -> Seq(Coroutines)]
      BY <2>1, <2>4, <2>5
    <3>2. \A v \in Workers : Len(queue'[v]) <= kCapacity
      BY <2>1, <2>4, <2>5 DEF TypeOK, PoolTypeOK
    <3>3. run' \in [Threads -> Coroutines \cup {NULL}]
      BY <1>7 DEF TypeOK, PoolTypeOK
    <3>4. at' \in [Threads -> InFrame \cup WorkerPC \cup
                    {"unset", "start", "wait", "blocked", "get", "destruct", "cancel",
                     "join", "done"}]
      BY <1>7 DEF TypeOK, InFrame, WorkerPC
    <3>. QED
      BY <1>2, <1>5, <3>1, <3>2, <3>3, <3>4 DEF TypeOK, PoolTypeOK
  <2>7. /\ at'[t] = After /\ run'[t] = NULL
        /\ \A u \in Threads \ {t} : at'[u] = at[u] /\ run'[u] = run[u]
    BY <1>7 DEF TypeOK, PoolTypeOK
  <2>8. PlaceInv'
    BY <1>2, <2>7 DEF PlaceInv, OneThread, ThreadInv, Root, InFrame
  <2>9. QueueInv'
    <3>1. \A u \in Threads : run'[u] # c
      BY <1>1, <2>7 DEF PlaceInv, OneThread
    <3>2. ASSUME NEW d, Suspended(d) PROVE Suspended(d)'
      <4>1. d # NULL
        BY <3>2 DEF Suspended, TypeOK
      <4>. QED
        BY <1>2, <2>7, <3>2, <4>1 DEF Suspended
    <3>3. ASSUME NEW d, d = c PROVE Suspended(d)'
      BY <1>1, <1>2, <3>1, <3>3 DEF Suspended
    <3>4. \A v \in Workers \ {w} : queue'[v] = queue[v]
      BY <2>1, <2>4
    <3>5. ASSUME NEW v \in Workers \ {w}, NEW j \in 1 .. Len(queue[v])
          PROVE  /\ Suspended(queue[v][j])'
                 /\ \A i \in 1 .. Len(r) : queue[v][j] # r[i]
      <4>1. \A i \in 1 .. Len(queue[w]) : queue[v][j] # queue[w][i]
        BY DEF QueueInv
      <4>2. Suspended(queue[v][j])
        BY DEF QueueInv
      <4>. QED
        BY <2>2, <2>5, <3>2, <3>4, <4>1, <4>2
    <3>6. ASSUME NEW i \in 1 .. Len(r) PROVE Suspended(r[i])'
      <4>1. Suspended(r[i]) \/ r[i] = c
        BY <2>5 DEF QueueInv
      <4>. QED
        BY <3>2, <3>3, <4>1
    <3>. QED
      BY <2>1, <2>4, <2>5, <3>5, <3>6, QueueReplaced
  <2>10. ChildInv'
    BY <1>2 DEF ChildInv
  <2>11. CountInv'
    <3>1. Uncounted' = Uncounted
      BY <1>1, <1>2, <2>7 DEF Uncounted, Notifying, Children
    <3>. QED
      BY <1>2, <3>1 DEF CountInv
  <2>12. RootInv'
    BY <1>1, <1>2, <2>7 DEF RootInv, Root
  <2>13. ResultInv'
    BY <1>2 DEF ResultInv, WhenAll, Failed, Children
  <2>14. MainInv'
    BY <1>1, <1>2, <2>7 DEF MainInv, Threads, Before, Behind, InFrame, WorkerPC
  <2>. QED
    BY <2>6, <2>8, <2>9, <2>10, <2>11, <2>12, <2>13, <2>14
<1>. QED
  BY <1>4, <1>6, <1>7

\* A worker that looks for a task and finds none changes nothing but its place.
LEMMA SearchKeeps ==
  ASSUME IInv, NEW w \in Workers, NEW to \in WorkerPC,
         at[w] \in {"head", "next", "steal"}, at' = [at EXCEPT ![w] = to],
         left' \in [Workers -> SUBSET Workers],
         UNCHANGED <<queue, mCancelled, run, size, countVars, taskVars, rootResult,
                     eventVars, lifeVars, got>>
  PROVE  IInv'
<1>. USE PoolAssumption, ChildrenAssumption
     DEF IInv, taskVars, countVars, eventVars, lifeVars
<1>1. /\ at'[w] = to /\ w \in Threads /\ w # Main
      /\ \A u \in Threads \ {w} : at'[u] = at[u]
  BY DEF TypeOK, Threads
<1>2. to \notin InFrame \cup {"unset"} /\ at[w] \notin InFrame \cup {"unset"}
  BY DEF InFrame, WorkerPC
<1>3. TypeOK'
  <2>1. at' \in [Threads -> InFrame \cup WorkerPC \cup
                  {"unset", "start", "wait", "blocked", "get", "destruct", "cancel",
                   "join", "done"}]
    BY DEF TypeOK
  <2>. QED
    BY <2>1 DEF TypeOK, PoolTypeOK
<1>4. PlaceInv'
  BY <1>1, <1>2 DEF PlaceInv, OneThread, ThreadInv, Root, InFrame
<1>5. QueueInv'
  BY DEF QueueInv, Suspended
<1>6. ChildInv'
  BY DEF ChildInv
<1>7. CountInv'
  <2>1. \A u \in Threads : at'[u] = "notify" <=> at[u] = "notify"
    BY <1>1, <1>2 DEF InFrame
  <2>2. Uncounted' = Uncounted
    BY <2>1 DEF Uncounted, Notifying, Children
  <2>. QED
    BY <2>2 DEF CountInv
<1>8. RootInv'
  BY <1>1, <1>2 DEF RootInv, Root, InFrame
<1>9. ResultInv'
  BY DEF ResultInv, WhenAll, Failed, Children
<1>10. MainInv'
  BY <1>1, <1>2 DEF MainInv, Threads
<1>. QED
  BY <1>3, <1>4, <1>5, <1>6, <1>7, <1>8, <1>9, <1>10

\* A worker takes the child in slot k of queue v, its own or another's; r is what is
\* left of that queue.
TakeSlot(w, v, k, r) ==
  /\ k \in 1 .. Len(queue[v])
  /\ at[w] \in {"next", "steal"}
  /\ at' = [at EXCEPT ![w] = "body"] /\ run' = [run EXCEPT ![w] = queue[v][k]]
  /\ queue' = [queue EXCEPT ![v] = r]
  /\ r \in Seq(Coroutines) /\ Len(r) <= kCapacity
  /\ \A i \in 1 .. Len(r) : \E j \in 1 .. Len(queue[v]) \ {k} : r[i] = queue[v][j]
  /\ \A i, j \in 1 .. Len(r) : r[i] = r[j] => i = j
  /\ left' \in [Workers -> SUBSET Workers]
  /\ UNCHANGED <<mCancelled, size, countVars, taskVars, rootResult, eventVars, lifeVars, got>>

\* The child goes from the slot to the thread that took it.
LEMMA TakeKeeps ==
  ASSUME IInv, NEW w \in Workers, NEW v \in Workers, NEW k, NEW r, TakeSlot(w, v, k, r)
  PROVE  IInv'
<1>. USE PoolAssumption, ChildrenAssumption
     DEF IInv, taskVars, countVars, eventVars, lifeVars
<1>0. PICK c : c = queue[v][k]
  OBVIOUS
<1>1. Suspended(c) /\ c \in Coroutines /\ c # NULL
  <2>1. Suspended(c)
    BY <1>0 DEF QueueInv, TakeSlot
  <2>. QED
    BY <2>1 DEF Suspended, TypeOK
<1>2. /\ at'[w] = "body" /\ run'[w] = c /\ w \in Threads /\ w # Main
      /\ \A u \in Threads \ {w} : at'[u] = at[u] /\ run'[u] = run[u]
  BY <1>0 DEF TypeOK, PoolTypeOK, Threads, TakeSlot
<1>3. TypeOK'
  <2>1. queue \in [Workers -> Seq(Coroutines)]
    BY DEF TypeOK, PoolTypeOK
  <2>2. queue' \in [Workers -> Seq(Coroutines)]
    BY <2>1 DEF TakeSlot
  <2>3. \A u \in Workers : Len(queue'[u]) <= kCapacity
    BY <2>1 DEF TypeOK, PoolTypeOK, TakeSlot
  <2>4. run' \in [Threads -> Coroutines \cup {NULL}]
    BY <1>0, <1>1 DEF TypeOK, PoolTypeOK, TakeSlot
  <2>5. at' \in [Threads -> InFrame \cup WorkerPC \cup
                  {"unset", "start", "wait", "blocked", "get", "destruct", "cancel",
                   "join", "done"}]
    BY DEF TypeOK, InFrame, TakeSlot
  <2>. QED
    BY <2>2, <2>3, <2>4, <2>5 DEF TypeOK, PoolTypeOK, TakeSlot
<1>4. PlaceInv'
  <2>1. \A u \in Threads : run[u] # c
    BY <1>1 DEF Suspended
  <2>2. OneThread'
    BY <1>2, <2>1 DEF PlaceInv, OneThread
  <2>3. \A u \in Threads \ {w} : ThreadInv(u)'
    BY <1>2 DEF PlaceInv, ThreadInv, TakeSlot
  <2>4. ThreadInv(w)'
    BY <1>1, <1>2 DEF Suspended, ThreadInv, Root, InFrame, TakeSlot
  <2>. QED
    BY <2>2, <2>3, <2>4 DEF PlaceInv
<1>5. QueueInv'
  <2>1. ASSUME NEW d, Suspended(d), d # c PROVE Suspended(d)'
    BY <1>2, <2>1 DEF Suspended, TakeSlot
  <2>2. queue \in [Workers -> Seq(Coroutines)]
    BY DEF TypeOK, PoolTypeOK
  <2>3. \A u \in Workers \ {v} : queue'[u] = queue[u]
    BY <2>2 DEF TakeSlot
  <2>4. ASSUME NEW u \in Workers \ {v}, NEW j \in 1 .. Len(queue[u])
        PROVE  /\ Suspended(queue[u][j])'
               /\ \A i \in 1 .. Len(r) : queue[u][j] # r[i]
    <3>1. \A i \in 1 .. Len(queue[v]) : queue[u][j] # queue[v][i]
      BY DEF QueueInv
    <3>2. Suspended(queue[u][j])
      BY DEF QueueInv
    <3>3. queue[u][j] # c /\ queue'[u][j] = queue[u][j]
      BY <1>0, <2>3, <3>1 DEF TakeSlot
    <3>4. \A i \in 1 .. Len(r) : queue[u][j] # r[i]
      BY <3>1 DEF TakeSlot
    <3>. QED
      BY <2>1, <3>2, <3>3, <3>4
  <2>5. ASSUME NEW i \in 1 .. Len(r) PROVE Suspended(r[i])'
    <3>1. PICK j \in 1 .. Len(queue[v]) \ {k} : r[i] = queue[v][j]
      BY DEF TakeSlot
    <3>2. Suspended(r[i]) /\ r[i] # c
      BY <1>0, <3>1 DEF QueueInv, TakeSlot
    <3>. QED
      BY <2>1, <3>2
  <2>6. \A i \in 1 .. Len(r) : Suspended(r[i])'
    BY <2>5
  <2>7. \A u \in Workers \ {v} : \A j \in 1 .. Len(queue[u]) :
          /\ Suspended(queue[u][j])'
          /\ \A i \in 1 .. Len(r) : queue[u][j] # r[i]
    BY <2>4
  <2>8. /\ queue' = [queue EXCEPT ![v] = r]
        /\ \A i, j \in 1 .. Len(r) : r[i] = r[j] => i = j
    BY DEF TakeSlot
  <2>. QED
    BY <2>2, <2>6, <2>7, <2>8, QueueReplaced
<1>6. ChildInv'
  BY DEF ChildInv, TakeSlot
<1>7. CountInv'
  <2>1. \A u \in Threads : /\ at'[u] = "notify" <=> at[u] = "notify"
                           /\ at[u] = "notify" => run'[u] = run[u]
    BY <1>2 DEF TakeSlot
  <2>2. Uncounted' = Uncounted
    BY <2>1 DEF Uncounted, Notifying, Children, TakeSlot
  <2>. QED
    BY <2>2 DEF CountInv, TakeSlot
<1>8. RootInv'
  BY <1>2 DEF RootInv, Root, TakeSlot
<1>9. ResultInv'
  BY DEF ResultInv, WhenAll, Failed, Children, TakeSlot
<1>10. MainInv'
  BY <1>2 DEF MainInv, Threads, InFrame, TakeSlot
<1>. QED
  BY <1>3, <1>4, <1>5, <1>6, <1>7, <1>8, <1>9, <1>10

\* The loop of a worker: look at mCancelled, take from the own queue, steal.
LEMMA WorkerLoopKeeps ==
  ASSUME IInv, NEW w \in Workers, PoolStep(WorkerLoop(w))
  PROVE  IInv'
<1>1. UNCHANGED <<mCancelled, size, countVars, taskVars, rootResult, eventVars, lifeVars, got>>
  BY DEF PoolStep, WorkerLoop, WorkerHead, NextTask, Steal
<1>2. /\ queue \in [Workers -> Seq(Coroutines)]
      /\ \A v \in Workers : Len(queue[v]) <= kCapacity
      /\ left \in [Workers -> SUBSET Workers]
      /\ w \in Threads /\ at = [at EXCEPT ![w] = @]
  BY DEF IInv, TypeOK, PoolTypeOK, Threads
<1>3. \A v \in Workers : \A i, j \in 1 .. Len(queue[v]) : queue[v][i] = queue[v][j] => i = j
  BY DEF IInv, QueueInv
<1>4. CASE WorkerHead(w)
  <2>1. left' = left /\ UNCHANGED <<queue, run>> /\ at[w] = "head"
    BY <1>4 DEF WorkerHead
  <2>2. PICK to \in WorkerPC : at' = [at EXCEPT ![w] = to]
    BY <1>4 DEF WorkerHead, Goto, WorkerPC
  <2>. QED
    BY <1>1, <1>2, <2>1, <2>2, SearchKeeps
<1>5. CASE NextTask(w)
  <2>1. CASE queue[w] # <<>>
    <3>1. /\ at' = [at EXCEPT ![w] = "body"] /\ run' = [run EXCEPT ![w] = Head(queue[w])]
          /\ queue' = [queue EXCEPT ![w] = Tail(queue[w])]
          /\ left' = left /\ at[w] = "next"
      BY <1>5, <2>1 DEF NextTask, PopFront, Resume, Front, Goto
    <3>2. queue[w] \in Seq(Coroutines)
      BY <1>2
    <3>3. PICK r : r = Tail(queue[w])
      OBVIOUS
    <3>4. /\ r \in Seq(Coroutines)
          /\ Len(queue[w]) \in Nat \ {0} /\ Len(r) = Len(queue[w]) - 1
          /\ Head(queue[w]) = queue[w][1]
          /\ \A i \in 1 .. Len(queue[w]) - 1 : r[i] = queue[w][i + 1]
      BY <2>1, <3>2, <3>3, PoppedFront
    <3>5. \A i \in 1 .. Len(r) : i + 1 \in 1 .. Len(queue[w]) \ {1}
      BY <3>4
    <3>6. \A i, j \in 1 .. Len(r) : r[i] = r[j] => i = j
      <4>1. ASSUME NEW i \in 1 .. Len(r), NEW j \in 1 .. Len(r), r[i] = r[j]
            PROVE  i + 1 = j + 1
        <5>1. i + 1 \in 1 .. Len(queue[w]) /\ j + 1 \in 1 .. Len(queue[w])
          BY <3>5
        <5>2. queue[w][i + 1] = queue[w][j + 1]
          BY <3>4, <4>1
        <5>. QED
          BY <1>3, <5>1, <5>2
      <4>. QED
        BY <4>1
    <3>7. \A i \in 1 .. Len(r) : \E j \in 1 .. Len(queue[w]) \ {1} : r[i] = queue[w][j]
      BY <3>4, <3>5
    <3>8. Len(r) <= kCapacity /\ 1 \in 1 .. Len(queue[w])
      BY <1>2, <3>4, PoolAssumption
    <3>9. /\ at' = [at EXCEPT ![w] = "body"] /\ run' = [run EXCEPT ![w] = queue[w][1]]
          /\ queue' = [queue EXCEPT ![w] = r]
          /\ left' \in [Workers -> SUBSET Workers] /\ at[w] \in {"next", "steal"}
      BY <1>2, <3>1, <3>3, <3>4
    <3>10. TakeSlot(w, w, 1, r)
      BY <1>1, <3>4, <3>6, <3>7, <3>8, <3>9 DEF TakeSlot
    <3>. QED
      BY <3>10, TakeKeeps
  <2>2. CASE queue[w] = <<>>
    <3>1. /\ left' = [left EXCEPT ![w] = Workers] /\ at' = [at EXCEPT ![w] = "steal"]
          /\ UNCHANGED <<queue, run>> /\ at[w] = "next"
      BY <1>5, <2>2 DEF NextTask, Goto
    <3>2. left' \in [Workers -> SUBSET Workers] /\ "steal" \in WorkerPC
      BY <1>2, <3>1 DEF WorkerPC
    <3>. QED
      BY <1>1, <3>1, <3>2, SearchKeeps
  <2>. QED
    BY <2>1, <2>2
<1>6. CASE Steal(w)
  <2>. "steal" \in WorkerPC /\ "head" \in WorkerPC /\ at[w] = "steal"
    BY <1>6 DEF WorkerPC, Steal
  <2>1. ASSUME NEW v \in left[w], queue[v] # <<>>, PopBack(v), Resume(w, Back(v)),
               left' = [left EXCEPT ![w] = {}]
        PROVE  IInv'
    <3>1. /\ v \in Workers /\ queue[v] \in Seq(Coroutines)
          /\ left' \in [Workers -> SUBSET Workers]
      BY <1>2, <2>1
    <3>2. PICK r : r = SubSeq(queue[v], 1, Len(queue[v]) - 1)
      OBVIOUS
    <3>3. PICK k : k = Len(queue[v])
      OBVIOUS
    <3>4. /\ at' = [at EXCEPT ![w] = "body"] /\ run' = [run EXCEPT ![w] = queue[v][k]]
          /\ queue' = [queue EXCEPT ![v] = r]
      BY <2>1, <3>2, <3>3 DEF PopBack, Resume, Back, Goto
    <3>5. /\ r \in Seq(Coroutines)
          /\ k \in Nat \ {0} /\ Len(r) = k - 1
          /\ \A i \in 1 .. k - 1 : r[i] = queue[v][i]
      BY <2>1, <3>1, <3>2, <3>3, PoppedBack
    <3>6. \A i \in 1 .. Len(r) : i \in 1 .. Len(queue[v]) \ {k}
      BY <3>3, <3>5
    <3>7. \A i, j \in 1 .. Len(r) : r[i] = r[j] => i = j
      BY <1>3, <3>1, <3>5, <3>6
    <3>8. \A i \in 1 .. Len(r) : \E j \in 1 .. Len(queue[v]) \ {k} : r[i] = queue[v][j]
      BY <3>5, <3>6
    <3>9. Len(r) <= kCapacity /\ k \in 1 .. Len(queue[v])
      BY <1>2, <3>1, <3>3, <3>5, PoolAssumption
    <3>10. at[w] \in {"next", "steal"}
      OBVIOUS
    <3>11. TakeSlot(w, v, k, r)
      BY <1>1, <3>1, <3>4, <3>5, <3>7, <3>8, <3>9, <3>10 DEF TakeSlot
    <3>. QED
      BY <3>1, <3>11, TakeKeeps
  <2>2. ASSUME NEW v \in left[w], left' = [left EXCEPT ![w] = @ \ {v}],
               UNCHANGED <<queue, at, run>>
        PROVE  IInv'
    <3>1. /\ left' \in [Workers -> SUBSET Workers]
          /\ at' = [at EXCEPT ![w] = "steal"]
      BY <1>2, <2>2
    <3>. QED
      BY <1>1, <2>2, <3>1, SearchKeeps
  <2>3. ASSUME at' = [at EXCEPT ![w] = "head"], UNCHANGED <<queue, run, left>>
        PROVE  IInv'
    BY <1>1, <1>2, <2>3, SearchKeeps
  <2>. QED
    BY <1>6, <2>1, <2>2, <2>3 DEF Steal, Goto
<1>. QED
  BY <1>4, <1>5, <1>6 DEF PoolStep, WorkerLoop
-------------------------------------------------------------------------------
\* In the beginning all children are uncounted, and the root with them.
LEMMA InitIInv == Init => IInv
<1>. SUFFICES ASSUME Init PROVE IInv
  OBVIOUS
<1>. USE PoolAssumption, ChildrenAssumption DEF Init, PoolInit
<1>1. size \in Nat /\ size \in 0 .. MaxTasks /\ InitialCount(size) = size + 1
  BY DEF InitialCount
<1>2. \A w \in Workers : queue[w] = <<>> /\ Len(queue[w]) = 0
  OBVIOUS
<1>3. TypeOK
  <2>1. queue \in [Workers -> Seq(Coroutines)]
    OBVIOUS
  <2>2. \A w \in Workers : Len(queue[w]) <= kCapacity
    BY <1>2
  <2>3. /\ run \in [Threads -> Coroutines \cup {NULL}]
        /\ left \in [Workers -> SUBSET Workers] /\ mCancelled \in BOOLEAN
    OBVIOUS
  <2>4. PoolTypeOK
    BY <2>1, <2>2, <2>3 DEF PoolTypeOK
  <2>5. at \in [Threads -> InFrame \cup WorkerPC \cup
                 {"unset", "start", "wait", "blocked", "get", "destruct", "cancel",
                  "join", "done"}]
    BY DEF WorkerPC
  <2>6. /\ schedules \in [Coroutines -> 0 .. MaxSchedules]
        /\ mResultType \in [Coroutines -> {"kEmpty", "kAvaliable", "kException"}]
        /\ promise \in [Coroutines -> {"none", "result", "exception"}]
    OBVIOUS
  <2>7. /\ started \in 0 .. size /\ m_count \in 0 .. size + 1
        /\ rootResult \in NoResult .. MaxTasks /\ got \in NoResult .. MaxTasks
    BY <1>1 DEF NoResult
  <2>. QED
    BY <1>1, <2>4, <2>5, <2>6, <2>7 DEF TypeOK
<1>4. PlaceInv
  BY DEF PlaceInv, OneThread, ThreadInv, Threads, Root
<1>5. QueueInv
  BY <1>2 DEF QueueInv
<1>6. ChildInv
  BY DEF ChildInv
<1>7. CountInv
  <2>1. Uncounted = Children
    BY <1>1 DEF Uncounted, Children
  <2>2. 1 \in Int /\ size \in Int
    BY <1>1
  <2>3. Cardinality(Children) = size
    BY <1>1, <2>2, FS_Interval DEF Children
  <2>. QED
    BY <1>1, <2>1, <2>3 DEF CountInv
<1>8. RootInv
  BY DEF RootInv, Root, Threads
<1>9. ResultInv
  BY DEF ResultInv
<1>10. MainInv
  BY DEF MainInv, Threads, Before, Behind, WorkerPC
<1>. QED
  BY <1>3, <1>4, <1>5, <1>6, <1>7, <1>8, <1>9, <1>10 DEF IInv

\* What the threads do when they are in a coroutine.
LEMMA CoroutineStepKeeps ==
  ASSUME IInv, NEW t \in Threads, CoroutineStep(t)
  PROVE  IInv'
  BY ScheduleKeeps, TaskReturnKeeps, TaskContinueKeeps, NotifyKeeps, FmapResumeKeeps,
     SetNotifyKeeps, SetUnlockKeeps
  DEF CoroutineStep

\* Every step keeps the invariant.
LEMMA IInvStep == IInv /\ [Next]_vars => IInv'
<1>. SUFFICES ASSUME IInv, [Next]_vars PROVE IInv'
  OBVIOUS
<1>1. CASE MainStep
  <2>1. Main \in Threads
    BY DEF Threads
  <2>. QED
    BY <1>1, <2>1, StartTasksKeeps, TryAwaitKeeps, CoroutineStepKeeps, WaitKeeps, GetKeeps,
       DestructKeeps, CancelKeeps, JoinKeeps
    DEF MainStep
<1>2. ASSUME NEW w \in Workers, WorkerStep(w) PROVE IInv'
  <2>1. w \in Threads
    BY DEF Threads
  <2>. QED
    BY <1>2, <2>1, WorkerLoopKeeps, CoroutineStepKeeps DEF WorkerStep
<1>3. CASE UNCHANGED vars
  <2>. USE <1>3 DEF IInv, vars, poolVars, taskVars, countVars, eventVars, lifeVars
  <2>1. TypeOK' /\ PlaceInv' /\ QueueInv' /\ ChildInv'
    BY DEF TypeOK, PoolTypeOK, PlaceInv, OneThread, ThreadInv, QueueInv, Suspended, ChildInv
  <2>2. CountInv' /\ ResultInv'
    BY DEF CountInv, Uncounted, Notifying, Children, ResultInv, WhenAll, Failed
  <2>3. RootInv' /\ MainInv'
    BY DEF RootInv, MainInv
  <2>. QED
    BY <2>1, <2>2, <2>3
<1>. QED
  BY <1>1, <1>2, <1>3, SpuriousWakeupKeeps DEF Next, Terminated

\* The invariant holds in every state, for any number of tasks, workers and slots:
\* the count of WhenAll is the number of children not yet counted down, a child is on
\* one thread or in one slot, and one thread at most is in the root.
THEOREM SyncWaitInvariant == Spec => []IInv
<1>1. Init => IInv
  BY InitIInv
<1>2. IInv /\ [Next]_vars => IInv'
  BY IInvStep
<1>. QED
  BY <1>1, <1>2, PTL DEF Spec

\* When Main destroys the notifier and the frames, no thread touches them any more,
\* the worker that woke Main included, and no queue holds an operation in them.
THEOREM FramesOutliveThreads == Spec => []NoUseAfterFree
<1>1. ASSUME IInv PROVE NoUseAfterFree
  <2>. USE <1>1 DEF IInv
  <2>1. TypeOK /\ OneThread
    BY DEF PlaceInv
  <2>2. ASSUME at[Main] \in Behind
        PROVE  /\ \A t \in Threads : at[t] \notin InFrame \cup {"unset"}
               /\ \A w \in Workers : queue[w] = <<>>
               /\ mMutex = NULL
    <3>1. mIsSet /\ mMutex = NULL
      BY <2>2 DEF MainInv
    <3>2. rootResult # NoResult /\ m_count = 0
      BY <3>1 DEF RootInv
    <3>3. \A t \in Threads : at[t] \notin {"collect", "set", "unset"}
      BY <3>1, <3>2, PoolAssumption DEF RootInv, Threads
    <3>. QED
      BY <3>1, <3>2, <3>3, AllEnded DEF InFrame
  <2>3. ~frames \/ ~event => at[Main] \in Behind
    BY DEF MainInv, Behind
  <2>. QED
    BY <2>1, <2>2, <2>3 DEF NoUseAfterFree, OneThread, InFrame
<1>. QED
  BY <1>1, SyncWaitInvariant, PTL

\* SyncWait returns when all children have ended, with the values of all of them or
\* with the exception of the first that threw in the order of the arguments.
THEOREM ResultIsOfAll == Spec => []ResultOfAll
<1>1. ASSUME IInv PROVE ResultOfAll
  <2>. USE <1>1 DEF IInv
  <2>1. ASSUME NEW t \in Threads, at[t] = "collect"
        PROVE  /\ mAwaitingCoroutine /\ rootResult = NoResult
               /\ \A c \in Children : promise[c] # "none"
    <3>1. m_count = 0 /\ mAwaitingCoroutine /\ rootResult = NoResult
      BY <2>1 DEF RootInv, Root
    <3>. QED
      BY <3>1, AllEnded
  <2>2. CASE got = NoResult
    <3>1. at[Main] # "done"
      <4>1. ASSUME at[Main] = "done" PROVE FALSE
        BY <2>2, <4>1 DEF MainInv, Behind, RootInv
      <4>. QED
        BY <4>1
    <3>2. got # AllValues /\ ~(got > 0)
      BY <2>2 DEF NoResult, AllValues
    <3>. QED
      BY <2>1, <3>1, <3>2 DEF ResultOfAll
  <2>3. CASE got # NoResult
    <3>1. got = WhenAll /\ m_count = 0
      BY <2>3 DEF MainInv, ResultInv, RootInv
    <3>2. \A c \in Children : promise[c] \in {"result", "exception"} /\ c \in Coroutines
      BY <3>1, AllEnded, ChildrenAssumption DEF TypeOK, Children
    <3>3. \A c \in Children : /\ c \in Failed => mResultType[c] = "kException"
                              /\ c \notin Failed => mResultType[c] = "kAvaliable"
      BY <3>2 DEF ChildInv, Failed
    <3>4. size \in Nat /\ Failed \subseteq Children
      BY ChildrenAssumption DEF TypeOK, Failed
    <3>5. CASE WhenAll = AllValues /\ Failed = {}
      BY <2>1, <2>3, <3>1, <3>3, <3>5 DEF ResultOfAll, AllValues
    <3>6. CASE WhenAll \in Failed /\ \A c \in Failed : WhenAll <= c
      <4>1. got \in Failed /\ got \in 1 .. size
        BY <3>1, <3>4, <3>6 DEF Children
      <4>2. \A c \in 1 .. got - 1 : c \in Children /\ c \notin Failed
        BY <3>1, <3>4, <3>6, <4>1 DEF Children
      <4>3. got # AllValues
        BY <4>1 DEF AllValues
      <4>. QED
        BY <2>1, <2>3, <3>3, <3>4, <4>1, <4>2, <4>3 DEF ResultOfAll
    <3>. QED
      BY <3>4, <3>5, <3>6, FirstException
  <2>. QED
    BY <2>2, <2>3
<1>. QED
  BY <1>1, SyncWaitInvariant, PTL
===============================================================================
