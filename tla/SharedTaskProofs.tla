--------------------------- MODULE SharedTaskProofs ---------------------------
(***************************************************************************)
(* SharedTask for any number of awaiters: the frame is destroyed once and  *)
(* after its last use, no awaiter is left on the list when the coroutine   *)
(* has ended, and the task implements Future.                              *)
(*                                                                         *)
(* The list of waiters needs no depth or order to be reasoned about: that  *)
(* nobody points to its head, that two waiters do not point to the same    *)
(* one, and that every set of waiters is entered from outside (Reachable)  *)
(* is kept both by a link and by taking the head away.                     *)
(***************************************************************************)
EXTENDS SharedTask, FiniteSetTheorems, TLAPS

Ended == {"walk", "call", "done"}

\* Who owns a reference.
Owners == {a \in Awaiters : pc[a] \notin {"idle", "destroy", "done"}}

RefInv ==
  /\ mRefCount = Cardinality(Owners)
  /\ freed => \A a \in Awaiters : pc[a] \in {"idle", "done"}
  /\ \A a \in Awaiters : pc[a] = "destroy" =>
       \A b \in Awaiters : b # a => pc[b] \in {"idle", "done"}

\* The word says how far the body is.
WordInv ==
  /\ mWaiters = notStartedValue <=> body = "initial"
  /\ is_ready <=> body \in Ended
  /\ host # NULL => body \in {"running", "final", "walk", "call"}
  /\ host \in Awaiters => pc[host] = "started"

\* What the control point of an awaiter says about its locals.
AwaiterInv(a) ==
  /\ pc[a] = "started" => host = a
  /\ pc[a] \in {"started", "reload", "enqueue", "suspended"} => body # "initial"
  /\ pc[a] = "enqueue" => /\ oldWaiters[a] # notStartedValue
                          /\ oldWaiters[a] = valueReadyValue => is_ready
  /\ pc[a] = "resume" => is_ready
  /\ pc[a] \in {"idle", "hold"} \cup Awaiting => resumed[a] = 0
  /\ pc[a] = "resume" => resumed[a] = 1
  /\ resumed[a] <= 1

AllAwaiters == \A a \in Awaiters : AwaiterInv(a)

\* While the body runs somebody awaits it, and so owns it; the value or the
\* exception is there from its end until the frame is destroyed.
BodyInv ==
  /\ body \in {"running", "suspended", "final"} => \E a \in Awaiters : pc[a] \in Awaiting
  /\ value \/ mException => body \in {"final"} \cup Ended
  /\ body \in {"final"} \cup Ended /\ ~freed => value \/ mException
  /\ ~(value /\ mException)
  /\ freed => ~value

\* The list: its members, its head, and what is left of it during the walk.
Linked == {a \in Awaiters : pc[a] = "suspended"}
ListHead == IF body \in {"walk", "call"} THEN waiter ELSE mWaiters

\* Every set of waiters holds the head or is entered from outside.
Reachable ==
  \A S \in SUBSET Awaiters :
    S # {} /\ S \subseteq Linked =>
      ListHead \in S \/ \E a \in Linked : a \notin S /\ mNext[a] \in S

ListInv ==
  /\ body \in {"walk", "call"} => waiter \in Awaiters
  /\ ListHead \in Awaiters => ListHead \in Linked
  /\ \A a \in Linked : /\ mNext[a] \in Linked \cup {NULL}
                       /\ ListHead \in Awaiters => mNext[a] # ListHead
  /\ \A a, b \in Linked : mNext[a] = mNext[b] /\ mNext[a] # NULL => a = b
  /\ body = "call" => next = mNext[waiter]
  /\ Reachable

IInv == TypeOK /\ RefInv /\ WordInv /\ AllAwaiters /\ BodyInv /\ ListInv
-------------------------------------------------------------------------------
\* The set that the reference count stands for is finite, and only its members
\* can reach the promise.
LEMMA OwnersFinite ==
  IsFiniteSet(Owners) /\ Cardinality(Owners) \in Nat
<1>1. Owners \subseteq Awaiters
  BY DEF Owners
<1>. QED
  BY <1>1, SharedTaskAssumption, FS_Subset, FS_CardinalityType

\* Adding and removing an owner.
LEMMA OwnersCount ==
  /\ \A a : a \notin Owners => Cardinality(Owners \cup {a}) = Cardinality(Owners) + 1
  /\ \A a \in Owners : /\ Cardinality(Owners \ {a}) = Cardinality(Owners) - 1
                       /\ Cardinality(Owners) > 0
                       /\ Cardinality(Owners) = 1 => Owners = {a}
<1>1. \A a : a \notin Owners => Cardinality(Owners \cup {a}) = Cardinality(Owners) + 1
  BY OwnersFinite, FS_AddElement
<1>2. ASSUME NEW a \in Owners
      PROVE  /\ Cardinality(Owners \ {a}) = Cardinality(Owners) - 1
             /\ Cardinality(Owners) > 0
             /\ Cardinality(Owners) = 1 => Owners = {a}
  <2>1. /\ Cardinality(Owners \ {a}) = Cardinality(Owners) - 1
        /\ IsFiniteSet(Owners \ {a})
    BY OwnersFinite, FS_RemoveElement
  <2>2. Cardinality(Owners \ {a}) \in Nat
    BY <2>1, FS_CardinalityType
  <2>3. Cardinality(Owners) = 1 => Owners \ {a} = {}
    BY <2>1, FS_EmptySet
  <2>. QED
    BY <2>1, <2>2, <2>3, OwnersFinite
<1>. QED
  BY <1>1, <1>2

\* The sentinels of mWaiters are three, and no waiter is one of them.
LEMMA Sentinels ==
  /\ notStartedValue # valueReadyValue /\ NULL # notStartedValue /\ NULL # valueReadyValue
  /\ notStartedValue \notin Awaiters /\ valueReadyValue \notin Awaiters /\ NULL \notin Awaiters
  /\ MaxSuspends \in Nat
BY SharedTaskAssumption

\* The coroutine is called.
LEMMA InitIInv == Init => IInv
<1>. SUFFICES ASSUME Init PROVE IInv
  OBVIOUS
<1>. USE Sentinels DEF Init
<1>1. PICK first \in Awaiters :
        pc = [a \in Awaiters |-> IF a = first THEN "hold" ELSE "idle"]
  OBVIOUS
<1>2. TypeOK
  <2>1. pc \in [Awaiters -> Awaiting \cup {"idle", "hold", "resume", "detach", "destroy", "done"}]
    BY <1>1
  <2>2. /\ oldWaiters \in [Awaiters -> Word] /\ mNext \in [Awaiters -> Awaiters \cup {NULL}]
        /\ resumed \in [Awaiters -> Nat]
        /\ got \in [Awaiters -> {"nothing", "value", "exception"}]
    BY DEF Word
  <2>3. suspends \in 0..MaxSuspends
    OBVIOUS
  <2>4. mException \in BOOLEAN /\ value \in BOOLEAN /\ freed \in BOOLEAN
    OBVIOUS
  <2>5. /\ mWaiters \in Word /\ mRefCount \in Int
        /\ host = NULL /\ waiter = NULL /\ next = NULL
        /\ body \in {"initial", "running", "suspended", "final", "walk", "call", "done"}
    BY DEF Word
  <2>. HIDE DEF Init
  <2>. QED
    BY <2>1, <2>2, <2>3, <2>4, <2>5 DEF TypeOK
<1>3. Owners = {first}
  BY <1>1 DEF Owners
<1>4. RefInv
  BY <1>1, <1>3, FS_Singleton DEF RefInv
<1>5. WordInv
  BY DEF WordInv, is_ready, Ended
<1>6. AllAwaiters
  BY <1>1 DEF AllAwaiters, AwaiterInv
<1>7. BodyInv
  BY DEF BodyInv, Ended
<1>8. ListInv
  BY <1>1 DEF ListInv, Reachable, Linked, ListHead
<1>. QED
  BY <1>2, <1>4, <1>5, <1>6, <1>7, <1>8 DEF IInv
-------------------------------------------------------------------------------
\* A copy is one more owner.
LEMMA CopyIInv ==
  ASSUME IInv, NEW t \in Awaiters, NEW a \in Awaiters, Copy(t, a)
  PROVE  IInv'
<1>. USE Sentinels DEF IInv, Copy, Goto, promiseVars, bodyVars
<1>1. TypeOK'
  BY DEF TypeOK, Word, Awaiting, InTryAwait
<1>2. RefInv'
  <2>1. Owners' = Owners \cup {a} /\ a \notin Owners /\ t \in Owners
    BY DEF Owners, TypeOK
  <2>2. Cardinality(Owners') = Cardinality(Owners) + 1
    BY <2>1, OwnersCount
  <2>. QED
    BY <2>1, <2>2 DEF RefInv, TypeOK
<1>3. WordInv'
  BY DEF WordInv, TypeOK, is_ready, Ended, AllAwaiters, AwaiterInv
<1>4. AllAwaiters'
  <2>. SUFFICES ASSUME NEW x \in Awaiters PROVE AwaiterInv(x)'
    BY DEF AllAwaiters
  <2>1. AwaiterInv(x)
    BY DEF AllAwaiters
  <2>. QED
    BY <2>1 DEF AwaiterInv, TypeOK, WordInv, Awaiting, InTryAwait, is_ready, Ended
<1>5. BodyInv'
  BY DEF BodyInv, TypeOK, Awaiting, InTryAwait, Ended, RefInv, AllAwaiters, AwaiterInv,
         is_ready, WordInv
<1>6. ListInv'
  <2>1. Linked' = Linked /\ ListHead' = ListHead
    BY DEF Linked, ListHead, TypeOK
  <2>. QED
    BY <2>1 DEF ListInv, Reachable
<1>. QED
  BY <1>1, <1>2, <1>3, <1>4, <1>5, <1>6

\* A move hands the reference over.
LEMMA MoveIInv ==
  ASSUME IInv, NEW t \in Awaiters, NEW a \in Awaiters, Move(t, a)
  PROVE  IInv'
<1>. USE Sentinels DEF IInv, Move, promiseVars, bodyVars
<1>1. TypeOK'
  BY DEF TypeOK, Word, Awaiting, InTryAwait
<1>2. RefInv'
  <2>1. /\ Owners' = (Owners \ {t}) \cup {a} /\ a \notin Owners /\ t \in Owners
    BY DEF Owners, TypeOK
  <2>2. Cardinality((Owners \ {t}) \cup {a}) = Cardinality(Owners)
    <3>1. IsFiniteSet(Owners \ {t}) /\ Cardinality(Owners \ {t}) = Cardinality(Owners) - 1
      BY <2>1, OwnersFinite, OwnersCount, FS_RemoveElement
    <3>2. a \notin Owners \ {t}
      BY <2>1
    <3>3. Cardinality((Owners \ {t}) \cup {a}) = Cardinality(Owners \ {t}) + 1
      BY <3>1, <3>2, FS_AddElement
    <3>. QED
      BY <3>1, <3>3, OwnersFinite
  <2>. QED
    BY <2>1, <2>2 DEF RefInv, TypeOK
<1>3. WordInv'
  BY DEF WordInv, TypeOK, is_ready, Ended, AllAwaiters, AwaiterInv
<1>4. AllAwaiters'
  <2>. SUFFICES ASSUME NEW x \in Awaiters PROVE AwaiterInv(x)'
    BY DEF AllAwaiters
  <2>1. AwaiterInv(x)
    BY DEF AllAwaiters
  <2>. QED
    BY <2>1 DEF AwaiterInv, TypeOK, WordInv, Awaiting, InTryAwait, is_ready, Ended
<1>5. BodyInv'
  BY DEF BodyInv, TypeOK, Awaiting, InTryAwait, Ended, RefInv, AllAwaiters, AwaiterInv,
         is_ready, WordInv
<1>6. ListInv'
  <2>1. Linked' = Linked /\ ListHead' = ListHead
    BY DEF Linked, ListHead, TypeOK
  <2>. QED
    BY <2>1 DEF ListInv, Reachable
<1>. QED
  BY <1>1, <1>2, <1>3, <1>4, <1>5, <1>6

\* An owner lets go without having awaited.
LEMMA AbandonIInv ==
  ASSUME IInv, NEW a \in Awaiters, Abandon(a)
  PROVE  IInv'
<1>. USE Sentinels DEF IInv, Abandon, Goto, promiseVars, bodyVars
<1>1. TypeOK'
  BY DEF TypeOK, Word, Awaiting, InTryAwait
<1>2. RefInv'
  <2>1. Owners' = Owners
    BY DEF Owners, TypeOK
  <2>. QED
    BY <2>1 DEF RefInv, TypeOK
<1>3. WordInv'
  BY DEF WordInv, TypeOK, is_ready, Ended, AllAwaiters, AwaiterInv
<1>4. AllAwaiters'
  <2>. SUFFICES ASSUME NEW x \in Awaiters PROVE AwaiterInv(x)'
    BY DEF AllAwaiters
  <2>1. AwaiterInv(x)
    BY DEF AllAwaiters
  <2>. QED
    BY <2>1 DEF AwaiterInv, TypeOK, WordInv, Awaiting, InTryAwait, is_ready, Ended
<1>5. BodyInv'
  BY DEF BodyInv, TypeOK, Awaiting, InTryAwait, Ended, RefInv, AllAwaiters, AwaiterInv,
         is_ready, WordInv
<1>6. ListInv'
  <2>1. Linked' = Linked /\ ListHead' = ListHead
    BY DEF Linked, ListHead, TypeOK
  <2>. QED
    BY <2>1 DEF ListInv, Reachable
<1>. QED
  BY <1>1, <1>2, <1>3, <1>4, <1>5, <1>6

\* co_await begins.
LEMMA await_readyIInv ==
  ASSUME IInv, NEW a \in Awaiters, await_ready(a)
  PROVE  IInv'
<1>. USE Sentinels DEF IInv, await_ready, Goto, Continue, promiseVars, bodyVars
<1>1. TypeOK'
  BY DEF TypeOK, Word, Awaiting, InTryAwait
<1>2. RefInv'
  <2>1. Owners' = Owners
    BY DEF Owners, TypeOK
  <2>. QED
    BY <2>1 DEF RefInv, TypeOK
<1>3. WordInv'
  BY DEF WordInv, TypeOK, is_ready, Ended, AllAwaiters, AwaiterInv
<1>4. AllAwaiters'
  <2>. SUFFICES ASSUME NEW x \in Awaiters PROVE AwaiterInv(x)'
    BY DEF AllAwaiters
  <2>1. AwaiterInv(x)
    BY DEF AllAwaiters
  <2>. QED
    BY <2>1 DEF AwaiterInv, TypeOK, WordInv, Awaiting, InTryAwait, is_ready, Ended
<1>5. BodyInv'
  BY DEF BodyInv, TypeOK, Awaiting, InTryAwait, Ended, RefInv, AllAwaiters, AwaiterInv,
         is_ready, WordInv
<1>6. ListInv'
  <2>1. Linked' = Linked /\ ListHead' = ListHead
    BY DEF Linked, ListHead, TypeOK
  <2>. QED
    BY <2>1 DEF ListInv, Reachable
<1>. QED
  BY <1>1, <1>2, <1>3, <1>4, <1>5, <1>6

\* The word is read.
LEMMA TryAwaitLoadIInv ==
  ASSUME IInv, NEW a \in Awaiters, TryAwaitLoad(a)
  PROVE  IInv'
<1>. USE Sentinels DEF IInv, TryAwaitLoad, Goto, promiseVars, bodyVars
<1>1. TypeOK'
  BY DEF TypeOK, Word, Awaiting, InTryAwait
<1>2. RefInv'
  <2>1. Owners' = Owners
    BY DEF Owners, TypeOK
  <2>. QED
    BY <2>1 DEF RefInv, TypeOK
<1>3. WordInv'
  BY DEF WordInv, TypeOK, is_ready, Ended, AllAwaiters, AwaiterInv
<1>4. AllAwaiters'
  <2>. SUFFICES ASSUME NEW x \in Awaiters PROVE AwaiterInv(x)'
    BY DEF AllAwaiters
  <2>1. AwaiterInv(x)
    BY DEF AllAwaiters
  <2>. QED
    BY <2>1 DEF AwaiterInv, TypeOK, WordInv, Awaiting, InTryAwait, is_ready, Ended
<1>5. BodyInv'
  BY DEF BodyInv, TypeOK, Awaiting, InTryAwait, Ended, RefInv, AllAwaiters, AwaiterInv,
         is_ready, WordInv
<1>6. ListInv'
  <2>1. Linked' = Linked /\ ListHead' = ListHead
    BY DEF Linked, ListHead, TypeOK
  <2>. QED
    BY <2>1 DEF ListInv, Reachable
<1>. QED
  BY <1>1, <1>2, <1>3, <1>4, <1>5, <1>6

\* One awaiter starts the body, and is its host.
LEMMA TryAwaitStartIInv ==
  ASSUME IInv, NEW a \in Awaiters, TryAwaitStart(a)
  PROVE  IInv'
<1>. USE Sentinels DEF IInv, TryAwaitStart, Goto, promiseVars, bodyVars
<1>1. TypeOK'
  BY DEF TypeOK, Word, Awaiting, InTryAwait
<1>2. RefInv'
  <2>1. Owners' = Owners
    BY DEF Owners, TypeOK
  <2>. QED
    BY <2>1 DEF RefInv, TypeOK
<1>3. WordInv'
  BY DEF WordInv, TypeOK, is_ready, Ended, AllAwaiters, AwaiterInv
<1>4. AllAwaiters'
  <2>. SUFFICES ASSUME NEW x \in Awaiters PROVE AwaiterInv(x)'
    BY DEF AllAwaiters
  <2>1. AwaiterInv(x)
    BY DEF AllAwaiters
  <2>. QED
    BY <2>1 DEF AwaiterInv, TypeOK, WordInv, Awaiting, InTryAwait, is_ready, Ended
<1>5. BodyInv'
  BY DEF BodyInv, TypeOK, Awaiting, InTryAwait, Ended, RefInv, AllAwaiters, AwaiterInv,
         is_ready, WordInv
<1>6. ListInv'
  <2>1. Linked' = Linked
    BY DEF Linked, TypeOK
  <2>2. CASE mWaiters = notStartedValue
    <3>1. body = "initial"
      BY <2>2 DEF WordInv
    <3>2. Linked = {}
      BY <3>1 DEF Linked, AllAwaiters, AwaiterInv
    <3>3. body' = "running" /\ mWaiters' = NULL
      BY <2>2
    <3>. QED
      BY <2>1, <3>2, <3>3 DEF ListInv, Reachable, ListHead
  <2>3. CASE mWaiters # notStartedValue
    <3>1. ListHead' = ListHead
      BY <2>3 DEF ListHead
    <3>. QED
      BY <2>1, <2>3, <3>1 DEF ListInv, Reachable
  <2>. QED
    BY <2>2, <2>3
<1>. QED
  BY <1>1, <1>2, <1>3, <1>4, <1>5, <1>6

\* A waiter is linked, finds the value ready, or tries again.
LEMMA TryAwaitEnqueueIInv ==
  ASSUME IInv, NEW a \in Awaiters, TryAwaitEnqueue(a)
  PROVE  IInv'
<1>. USE Sentinels DEF IInv, TryAwaitEnqueue, Goto, Continue, promiseVars, bodyVars
<1>0. /\ oldWaiters[a] # valueReadyValue => oldWaiters[a] \in Awaiters \cup {NULL}
      /\ a \notin Linked
  BY DEF TypeOK, Word, AllAwaiters, AwaiterInv, Linked
<1>1. TypeOK'
  BY <1>0 DEF TypeOK, Word, Awaiting, InTryAwait
<1>2. RefInv'
  <2>1. Owners' = Owners
    BY DEF Owners, TypeOK
  <2>. QED
    BY <2>1 DEF RefInv, TypeOK
<1>3. WordInv'
  BY DEF WordInv, TypeOK, is_ready, Ended, AllAwaiters, AwaiterInv
<1>4. AllAwaiters'
  <2>. SUFFICES ASSUME NEW x \in Awaiters PROVE AwaiterInv(x)'
    BY DEF AllAwaiters
  <2>1. AwaiterInv(x)
    BY DEF AllAwaiters
  <2>. QED
    BY <2>1 DEF AwaiterInv, TypeOK, WordInv, Awaiting, InTryAwait, is_ready, Ended
<1>5. BodyInv'
  BY DEF BodyInv, TypeOK, Awaiting, InTryAwait, Ended, RefInv, AllAwaiters, AwaiterInv,
         is_ready, WordInv
<1>6. ListInv'
  <2>1. CASE oldWaiters[a] = valueReadyValue \/ mWaiters # oldWaiters[a]
    <3>1. /\ Linked' = Linked /\ ListHead' = ListHead
          /\ \A b \in Linked : mNext'[b] = mNext[b]
      BY <1>0, <2>1 DEF Linked, ListHead, TypeOK
    <3>2. body' = body /\ waiter' = waiter /\ next' = next
      OBVIOUS
    <3>3. body = "call" => mNext'[waiter] = mNext[waiter]
      BY <3>1 DEF ListInv, ListHead
    <3>4. Reachable'
      BY <3>1, <3>2 DEF ListInv, Reachable
    <3>. QED
      BY <3>1, <3>2, <3>3, <3>4 DEF ListInv
  <2>2. CASE oldWaiters[a] # valueReadyValue /\ mWaiters = oldWaiters[a]
    <3>1. body \notin Ended /\ mWaiters \in Awaiters \cup {NULL}
      BY <1>0, <2>2 DEF WordInv, is_ready
    <3>2. /\ ListHead = mWaiters /\ ListHead' = a
          /\ Linked' = Linked \cup {a}
          /\ mNext'[a] = mWaiters
          /\ \A b \in Linked : mNext'[b] = mNext[b]
      BY <1>0, <2>2, <3>1 DEF Linked, ListHead, TypeOK, Ended
    <3>3. \A b \in Linked : mNext[b] # a
      BY <1>0 DEF ListInv
    <3>4. Reachable'
      <4>. SUFFICES ASSUME NEW S \in SUBSET Awaiters, S # {}, S \subseteq Linked', a \notin S
                    PROVE  \E b \in Linked' : b \notin S /\ mNext'[b] \in S
        BY <3>2 DEF Reachable
      <4>1. S \subseteq Linked
        BY <3>2
      <4>2. ListHead \in S \/ \E b \in Linked : b \notin S /\ mNext[b] \in S
        BY <4>1 DEF ListInv, Reachable
      <4>. QED
        BY <4>2, <3>2
    <3>. QED
      BY <1>0, <3>1, <3>2, <3>3, <3>4 DEF ListInv, Ended
  <2>. QED
    BY <2>1, <2>2
<1>. QED
  BY <1>1, <1>2, <1>3, <1>4, <1>5, <1>6

\* The awaiter goes on with the result.
LEMMA await_resumeIInv ==
  ASSUME IInv, NEW a \in Awaiters, await_resume(a)
  PROVE  IInv'
<1>. USE Sentinels DEF IInv, await_resume, Goto, promiseVars, bodyVars
<1>0. result \in {"value", "exception"}
  <2>1. body \in Ended /\ ~freed
    BY DEF AllAwaiters, AwaiterInv, WordInv, RefInv
  <2>. QED
    BY <2>1 DEF BodyInv, result
<1>1. TypeOK'
  BY <1>0 DEF TypeOK, Word, Awaiting, InTryAwait
<1>2. RefInv'
  <2>1. Owners' = Owners
    BY DEF Owners, TypeOK
  <2>. QED
    BY <2>1 DEF RefInv, TypeOK
<1>3. WordInv'
  BY DEF WordInv, TypeOK, is_ready, Ended, AllAwaiters, AwaiterInv
<1>4. AllAwaiters'
  <2>. SUFFICES ASSUME NEW x \in Awaiters PROVE AwaiterInv(x)'
    BY DEF AllAwaiters
  <2>1. AwaiterInv(x)
    BY DEF AllAwaiters
  <2>. QED
    BY <2>1 DEF AwaiterInv, TypeOK, WordInv, Awaiting, InTryAwait, is_ready, Ended
<1>5. BodyInv'
  BY DEF BodyInv, TypeOK, Awaiting, InTryAwait, Ended, RefInv, AllAwaiters, AwaiterInv,
         is_ready, WordInv
<1>6. ListInv'
  <2>1. Linked' = Linked /\ ListHead' = ListHead
    BY DEF Linked, ListHead, TypeOK
  <2>. QED
    BY <2>1 DEF ListInv, Reachable
<1>. QED
  BY <1>1, <1>2, <1>3, <1>4, <1>5, <1>6

\* A reference is given up; whoever takes the last one destroys.
LEMMA TryDetachIInv ==
  ASSUME IInv, NEW a \in Awaiters, TryDetach(a)
  PROVE  IInv'
<1>. USE Sentinels DEF IInv, TryDetach, Goto, promiseVars, bodyVars
<1>1. TypeOK'
  BY DEF TypeOK, Word, Awaiting, InTryAwait
<1>2. RefInv'
  <2>1. Owners' = Owners \ {a} /\ a \in Owners
    BY DEF Owners, TypeOK
  <2>2. /\ Cardinality(Owners') = Cardinality(Owners) - 1
        /\ Cardinality(Owners) = 1 => Owners = {a}
    BY <2>1, OwnersCount
  <2>3. ~freed /\ \A b \in Awaiters : pc[b] # "destroy"
    BY DEF RefInv
  <2>4. mRefCount' = Cardinality(Owners')
    BY <2>2 DEF RefInv, TypeOK
  <2>5. \A b \in Awaiters : pc'[b] = "destroy" =>
          \A c \in Awaiters : c # b => pc'[c] \in {"idle", "done"}
    <3>1. CASE mRefCount = 1
      <4>1. \A c \in Awaiters : c # a => pc[c] \in {"idle", "done"}
        BY <2>2, <2>3, <3>1 DEF RefInv, Owners
      <4>. QED
        BY <2>3, <4>1 DEF TypeOK
    <3>2. CASE mRefCount # 1
      BY <2>3, <3>2 DEF TypeOK
    <3>. QED
      BY <3>1, <3>2
  <2>. QED
    BY <2>3, <2>4, <2>5 DEF RefInv
<1>3. WordInv'
  BY DEF WordInv, TypeOK, is_ready, Ended, AllAwaiters, AwaiterInv
<1>4. AllAwaiters'
  <2>. SUFFICES ASSUME NEW x \in Awaiters PROVE AwaiterInv(x)'
    BY DEF AllAwaiters
  <2>1. AwaiterInv(x)
    BY DEF AllAwaiters
  <2>. QED
    BY <2>1 DEF AwaiterInv, TypeOK, WordInv, Awaiting, InTryAwait, is_ready, Ended
<1>5. BodyInv'
  BY DEF BodyInv, TypeOK, Awaiting, InTryAwait, Ended, RefInv, AllAwaiters, AwaiterInv,
         is_ready, WordInv
<1>6. ListInv'
  <2>1. Linked' = Linked /\ ListHead' = ListHead
    BY DEF Linked, ListHead, TypeOK
  <2>. QED
    BY <2>1 DEF ListInv, Reachable
<1>. QED
  BY <1>1, <1>2, <1>3, <1>4, <1>5, <1>6

\* The frame is destroyed, by the one thread that is left.
LEMMA destroyIInv ==
  ASSUME IInv, NEW a \in Awaiters, destroy(a)
  PROVE  IInv'
<1>. USE Sentinels DEF IInv, destroy, Goto, DestructPromise, promiseVars, bodyVars
<1>1. TypeOK'
  BY DEF TypeOK, Word, Awaiting, InTryAwait
<1>2. RefInv'
  <2>1. Owners' = Owners
    BY DEF Owners, TypeOK
  <2>. QED
    BY <2>1 DEF RefInv, TypeOK
<1>3. WordInv'
  BY DEF WordInv, TypeOK, is_ready, Ended, AllAwaiters, AwaiterInv
<1>4. AllAwaiters'
  <2>. SUFFICES ASSUME NEW x \in Awaiters PROVE AwaiterInv(x)'
    BY DEF AllAwaiters
  <2>1. AwaiterInv(x)
    BY DEF AllAwaiters
  <2>. QED
    BY <2>1 DEF AwaiterInv, TypeOK, WordInv, Awaiting, InTryAwait, is_ready, Ended
<1>5. BodyInv'
  BY DEF BodyInv, TypeOK, Awaiting, InTryAwait, Ended, RefInv, AllAwaiters, AwaiterInv,
         is_ready, WordInv
<1>6. ListInv'
  <2>1. Linked' = Linked /\ ListHead' = ListHead
    BY DEF Linked, ListHead, TypeOK
  <2>. QED
    BY <2>1 DEF ListInv, Reachable
<1>. QED
  BY <1>1, <1>2, <1>3, <1>4, <1>5, <1>6

\* The body suspends.
LEMMA BodySuspendIInv ==
  ASSUME IInv, BodySuspend
  PROVE  IInv'
<1>. USE Sentinels DEF IInv, BodySuspend, HostReturns, promiseVars, bodyVars
<1>0. \A b \in Awaiters : b = host => pc[b] = "started"
  BY DEF WordInv
<1>1. TypeOK'
  BY DEF TypeOK, Word, Awaiting, InTryAwait
<1>2. RefInv'
  <2>1. Owners' = Owners
    BY <1>0 DEF Owners, TypeOK
  <2>2. \A b \in Awaiters : pc[b] \in {"idle", "done", "destroy"} <=> pc'[b] \in {"idle", "done", "destroy"}
    BY <1>0 DEF TypeOK
  <2>3. \A b \in Awaiters : pc[b] = "destroy" <=> pc'[b] = "destroy"
    BY <1>0 DEF TypeOK
  <2>. QED
    BY <2>1, <2>2, <2>3 DEF RefInv, TypeOK
<1>3. WordInv'
  BY DEF WordInv, TypeOK, is_ready, Ended, AllAwaiters, AwaiterInv
<1>4. AllAwaiters'
  <2>. SUFFICES ASSUME NEW x \in Awaiters PROVE AwaiterInv(x)'
    BY DEF AllAwaiters
  <2>1. AwaiterInv(x) /\ pc'[x] = IF x = host THEN "reload" ELSE pc[x]
    BY DEF AllAwaiters
  <2>. QED
    BY <1>0, <2>1 DEF AwaiterInv, TypeOK, WordInv, Awaiting, InTryAwait, is_ready, Ended
<1>5. BodyInv'
  BY DEF BodyInv, TypeOK, Awaiting, InTryAwait, Ended, RefInv, AllAwaiters, AwaiterInv,
         is_ready, WordInv
<1>6. ListInv'
  <2>1. Linked' = Linked /\ ListHead' = ListHead
    BY <1>0 DEF Linked, ListHead, TypeOK
  <2>. QED
    BY <2>1 DEF ListInv, Reachable
<1>. QED
  BY <1>1, <1>2, <1>3, <1>4, <1>5, <1>6

\* The body goes on.
LEMMA BodyResumeIInv ==
  ASSUME IInv, BodyResume
  PROVE  IInv'
<1>. USE Sentinels DEF IInv, BodyResume, promiseVars, bodyVars
<1>1. TypeOK'
  BY DEF TypeOK, Word, Awaiting, InTryAwait
<1>2. RefInv'
  <2>1. Owners' = Owners
    BY DEF Owners, TypeOK
  <2>. QED
    BY <2>1 DEF RefInv, TypeOK
<1>3. WordInv'
  BY DEF WordInv, TypeOK, is_ready, Ended, AllAwaiters, AwaiterInv
<1>4. AllAwaiters'
  <2>. SUFFICES ASSUME NEW x \in Awaiters PROVE AwaiterInv(x)'
    BY DEF AllAwaiters
  <2>1. AwaiterInv(x)
    BY DEF AllAwaiters
  <2>. QED
    BY <2>1 DEF AwaiterInv, TypeOK, WordInv, Awaiting, InTryAwait, is_ready, Ended
<1>5. BodyInv'
  BY DEF BodyInv, TypeOK, Awaiting, InTryAwait, Ended, RefInv, AllAwaiters, AwaiterInv,
         is_ready, WordInv
<1>6. ListInv'
  <2>1. Linked' = Linked /\ ListHead' = ListHead
    BY DEF Linked, ListHead, TypeOK
  <2>. QED
    BY <2>1 DEF ListInv, Reachable
<1>. QED
  BY <1>1, <1>2, <1>3, <1>4, <1>5, <1>6

\* The body ends with a value or an exception.
LEMMA BodyReturnIInv ==
  ASSUME IInv, BodyReturn
  PROVE  IInv'
<1>. USE Sentinels DEF IInv, BodyReturn, promiseVars, bodyVars
<1>1. TypeOK'
  BY DEF TypeOK, Word, Awaiting, InTryAwait
<1>2. RefInv'
  <2>1. Owners' = Owners
    BY DEF Owners, TypeOK
  <2>. QED
    BY <2>1 DEF RefInv, TypeOK
<1>3. WordInv'
  BY DEF WordInv, TypeOK, is_ready, Ended, AllAwaiters, AwaiterInv
<1>4. AllAwaiters'
  <2>. SUFFICES ASSUME NEW x \in Awaiters PROVE AwaiterInv(x)'
    BY DEF AllAwaiters
  <2>1. AwaiterInv(x)
    BY DEF AllAwaiters
  <2>. QED
    BY <2>1 DEF AwaiterInv, TypeOK, WordInv, Awaiting, InTryAwait, is_ready, Ended
<1>5. BodyInv'
  BY DEF BodyInv, TypeOK, Awaiting, InTryAwait, Ended, RefInv, AllAwaiters, AwaiterInv,
         is_ready, WordInv
<1>6. ListInv'
  <2>1. Linked' = Linked /\ ListHead' = ListHead
    BY DEF Linked, ListHead, TypeOK
  <2>. QED
    BY <2>1 DEF ListInv, Reachable
<1>. QED
  BY <1>1, <1>2, <1>3, <1>4, <1>5, <1>6

\* The value is published, and the list taken.
LEMMA FinalExchangeIInv ==
  ASSUME IInv, FinalExchange
  PROVE  IInv'
<1>. USE Sentinels DEF IInv, FinalExchange, HostReturns, promiseVars, bodyVars
<1>0. \A b \in Awaiters : b = host => pc[b] = "started"
  BY DEF WordInv
<1>01. /\ mWaiters \in Awaiters \cup {NULL} /\ ListHead = mWaiters
       /\ mWaiters = NULL => Linked = {}
       /\ mWaiters # NULL => mWaiters \in Linked
  <2>1. mWaiters \in Awaiters \cup {NULL} /\ ListHead = mWaiters
    BY DEF TypeOK, Word, WordInv, is_ready, Ended, ListHead
  <2>2. ASSUME mWaiters = NULL PROVE Linked = {}
    <3>1. Linked \in SUBSET Awaiters
      BY DEF Linked
    <3>. QED
      BY <2>1, <2>2, <3>1 DEF ListInv, Reachable
  <2>. QED
    BY <2>1, <2>2 DEF ListInv
<1>02. /\ Linked' = Linked /\ Owners' = Owners
       /\ mWaiters # NULL => pc' = pc /\ host' = host
       /\ mWaiters = NULL => /\ pc' = [b \in Awaiters |-> IF b = host THEN "reload" ELSE pc[b]]
                             /\ host' = NULL
  BY <1>0 DEF Linked, Owners, TypeOK
<1>1. TypeOK'
  BY <1>01, <1>02 DEF TypeOK, Word, Awaiting, InTryAwait
<1>2. RefInv'
  <2>1. \A b \in Awaiters : /\ pc[b] \in {"idle", "done"} => pc'[b] = pc[b]
                            /\ pc[b] = "destroy" <=> pc'[b] = "destroy"
    BY <1>0, <1>02 DEF TypeOK
  <2>. QED
    BY <1>02, <2>1 DEF RefInv, TypeOK
<1>3. WordInv'
  BY <1>0, <1>02 DEF WordInv, TypeOK, is_ready, Ended
<1>4. AllAwaiters'
  <2>. SUFFICES ASSUME NEW x \in Awaiters PROVE AwaiterInv(x)'
    BY DEF AllAwaiters
  <2>1. AwaiterInv(x) /\ (pc'[x] = pc[x] \/ (x = host /\ pc'[x] = "reload" /\ host' = NULL))
    BY <1>02 DEF AllAwaiters
  <2>2. host' = host \/ (host' = NULL /\ (x = host => pc'[x] = "reload"))
    BY <1>02
  <2>. QED
    BY <1>0, <2>1, <2>2
    DEF AwaiterInv, TypeOK, WordInv, Awaiting, InTryAwait, is_ready, Ended
<1>5. BodyInv'
  BY DEF BodyInv, TypeOK, Awaiting, InTryAwait, Ended, RefInv, AllAwaiters, AwaiterInv,
         is_ready, WordInv
<1>6. ListInv'
  <2>1. ListHead' = IF mWaiters = NULL THEN valueReadyValue ELSE ListHead
    BY <1>01 DEF ListHead
  <2>2. Reachable'
    BY <1>01, <1>02, <2>1 DEF ListInv, Reachable
  <2>. QED
    BY <1>01, <1>02, <2>1, <2>2 DEF ListInv
<1>. QED
  BY <1>1, <1>2, <1>3, <1>4, <1>5, <1>6

\* The next waiter is read while this one is suspended.
LEMMA FinalReadNextIInv ==
  ASSUME IInv, FinalReadNext
  PROVE  IInv'
<1>. USE Sentinels DEF IInv, FinalReadNext, promiseVars, bodyVars
<1>1. TypeOK'
  <2>1. waiter \in Awaiters
    BY DEF ListInv
  <2>. QED
    BY <2>1 DEF TypeOK, Word, Awaiting, InTryAwait
<1>2. RefInv'
  <2>1. Owners' = Owners
    BY DEF Owners, TypeOK
  <2>. QED
    BY <2>1 DEF RefInv, TypeOK
<1>3. WordInv'
  BY DEF WordInv, TypeOK, is_ready, Ended, AllAwaiters, AwaiterInv
<1>4. AllAwaiters'
  <2>. SUFFICES ASSUME NEW x \in Awaiters PROVE AwaiterInv(x)'
    BY DEF AllAwaiters
  <2>1. AwaiterInv(x)
    BY DEF AllAwaiters
  <2>. QED
    BY <2>1 DEF AwaiterInv, TypeOK, WordInv, Awaiting, InTryAwait, is_ready, Ended
<1>5. BodyInv'
  BY DEF BodyInv, TypeOK, Awaiting, InTryAwait, Ended, RefInv, AllAwaiters, AwaiterInv,
         is_ready, WordInv
<1>6. ListInv'
  <2>1. Linked' = Linked /\ ListHead' = ListHead
    BY DEF Linked, ListHead, TypeOK
  <2>. QED
    BY <2>1 DEF ListInv, Reachable
<1>. QED
  BY <1>1, <1>2, <1>3, <1>4, <1>5, <1>6

\* The first waiter of the list is resumed.
LEMMA FinalCallIInv ==
  ASSUME IInv, FinalCall
  PROVE  IInv'
<1>. USE Sentinels DEF IInv, FinalCall, HostReturns, Goto, Continue, promiseVars, bodyVars
<1>0. \A b \in Awaiters : b = host => pc[b] = "started"
  BY DEF WordInv
<1>01. /\ waiter \in Linked /\ waiter \in Awaiters /\ pc[waiter] = "suspended"
       /\ ListHead = waiter /\ next = mNext[waiter] /\ waiter # host
       /\ next \in Linked \cup {NULL} /\ next # waiter
  BY <1>0 DEF ListInv, ListHead, Linked
<1>02. /\ resumed' = [resumed EXCEPT ![waiter] = @ + 1]
       /\ pc'[waiter] = "resume"
       /\ \A b \in Awaiters : b # waiter =>
            pc'[b] = IF next = NULL /\ b = host THEN "reload" ELSE pc[b]
       /\ host' = IF next = NULL THEN NULL ELSE host
       /\ body' = IF next = NULL THEN "done" ELSE "walk"
       /\ waiter' = next
  BY <1>01 DEF TypeOK
<1>03. /\ Linked' = Linked \ {waiter} /\ Owners' = Owners
       /\ ListHead' = IF next = NULL THEN valueReadyValue ELSE next
  <2>1. \A b \in Awaiters : /\ pc'[b] = "suspended" <=> pc[b] = "suspended" /\ b # waiter
                            /\ pc'[b] \in {"idle", "destroy", "done"} <=>
                               pc[b] \in {"idle", "destroy", "done"}
    BY <1>0, <1>01, <1>02
  <2>2. is_ready
    BY DEF WordInv, Ended
  <2>. QED
    BY <1>02, <2>1, <2>2 DEF Linked, Owners, ListHead, is_ready
<1>1. TypeOK'
  <2>1. pc' \in [Awaiters -> Awaiting \cup {"idle", "hold", "resume", "detach", "destroy", "done"}]
    <3>1. CASE next = NULL
      BY <3>1, <1>01 DEF TypeOK, Awaiting, InTryAwait
    <3>2. CASE next # NULL
      BY <3>2, <1>01 DEF TypeOK, Awaiting, InTryAwait
    <3>. QED
      BY <3>1, <3>2
  <2>2. resumed' \in [Awaiters -> Nat]
    BY <1>01, <1>02 DEF TypeOK
  <2>. QED
    BY <1>02, <2>1, <2>2 DEF TypeOK
<1>2. RefInv'
  <2>1. \A b \in Awaiters : /\ pc[b] \in {"idle", "done"} => pc'[b] = pc[b]
                            /\ pc[b] = "destroy" <=> pc'[b] = "destroy"
    BY <1>0, <1>01, <1>02
  <2>. QED
    BY <1>03, <2>1 DEF RefInv, TypeOK
<1>3. WordInv'
  <2>1. host' \in Awaiters => pc'[host'] = "started"
    BY <1>0, <1>01, <1>02
  <2>. QED
    BY <1>02, <2>1 DEF WordInv, TypeOK, is_ready, Ended
<1>4. AllAwaiters'
  <2>. SUFFICES ASSUME NEW x \in Awaiters PROVE AwaiterInv(x)'
    BY DEF AllAwaiters
  <2>1. AwaiterInv(x)
    BY DEF AllAwaiters
  <2>2. is_ready /\ is_ready'
    BY DEF WordInv, Ended, is_ready
  <2>3. CASE x = waiter
    <3>1. pc'[x] = "resume" /\ resumed'[x] = 1
      BY <1>01, <1>02, <2>1, <2>3 DEF AwaiterInv, TypeOK, Awaiting
    <3>. QED
      BY <2>2, <3>1 DEF AwaiterInv, Awaiting, InTryAwait
  <2>4. CASE x # waiter
    <3>1. resumed'[x] = resumed[x] /\ oldWaiters' = oldWaiters
      BY <1>01, <1>02, <2>4 DEF TypeOK
    <3>2. /\ pc'[x] = IF next = NULL /\ x = host THEN "reload" ELSE pc[x]
          /\ host' = IF next = NULL THEN NULL ELSE host
          /\ body' # "initial"
      BY <1>02, <2>4
    <3>. QED
      BY <1>0, <2>1, <2>2, <3>1, <3>2 DEF AwaiterInv, Awaiting, InTryAwait
  <2>. QED
    BY <2>3, <2>4
<1>5. BodyInv'
  BY <1>02 DEF BodyInv, Ended
<1>6. ListInv'
  <2>1. CASE next = NULL
    <3>1. Linked \ {waiter} \in SUBSET Awaiters
      BY DEF Linked
    <3>2. Linked \ {waiter} = {}
      <4>. SUFFICES ASSUME Linked \ {waiter} # {} PROVE FALSE
        OBVIOUS
      <4>1. PICK b \in Linked : b \notin Linked \ {waiter} /\ mNext[b] \in Linked \ {waiter}
        BY <1>01, <3>1 DEF ListInv, Reachable
      <4>2. b = waiter /\ NULL \in Linked
        BY <1>01, <2>1, <4>1
      <4>. QED
        BY <4>2 DEF Linked
    <3>. QED
      BY <1>02, <1>03, <2>1, <3>2 DEF ListInv, Reachable
  <2>2. CASE next # NULL
    <3>1. Reachable'
      <4>. SUFFICES ASSUME NEW S \in SUBSET Awaiters, S # {}, S \subseteq Linked', next \notin S
                    PROVE  \E b \in Linked' : b \notin S /\ mNext'[b] \in S
        BY <1>03, <2>2 DEF Reachable
      <4>1. S \subseteq Linked /\ waiter \notin S
        BY <1>03
      <4>2. PICK b \in Linked : b \notin S /\ mNext[b] \in S
        BY <1>01, <4>1 DEF ListInv, Reachable
      <4>3. b # waiter
        BY <1>01, <4>2
      <4>. QED
        BY <1>03, <4>2, <4>3
    <3>2. mNext' = mNext /\ next' = next /\ waiter' = next /\ body' = "walk"
      BY <1>02, <2>2
    <3>3. \A b \in Linked : mNext[b] \in Linked \cup {NULL} /\ mNext[b] # waiter
      BY <1>01 DEF ListInv
    <3>4. \A b, c \in Linked : mNext[b] = mNext[c] /\ mNext[b] # NULL => b = c
      BY DEF ListInv
    <3>5. next \in Linked' /\ next \in Awaiters
      BY <1>01, <1>03, <2>2 DEF Linked
    <3>. QED
      BY <1>01, <1>03, <2>2, <3>1, <3>2, <3>3, <3>4, <3>5 DEF ListInv
  <2>. QED
    BY <2>1, <2>2
<1>. QED
  BY <1>1, <1>2, <1>3, <1>4, <1>5, <1>6

-------------------------------------------------------------------------------
\* Every step of the specification keeps the invariant.
LEMMA IInvStep == IInv /\ [Next]_vars => IInv'
<1>. SUFFICES ASSUME IInv, [Next]_vars PROVE IInv'
  OBVIOUS
<1>1. CASE \E t, a \in Awaiters : Copy(t, a) \/ Move(t, a)
  BY <1>1, CopyIInv, MoveIInv
<1>2. CASE \E a \in Awaiters : Abandon(a) \/ await_ready(a)
  BY <1>2, AbandonIInv, await_readyIInv
<1>3. CASE \E a \in Awaiters : CallStep(a)
  BY <1>3, TryAwaitLoadIInv, TryAwaitStartIInv, TryAwaitEnqueueIInv,
     await_resumeIInv, TryDetachIInv, destroyIInv DEF CallStep, TryAwait
<1>4. CASE BodyStep
  BY <1>4, BodySuspendIInv, BodyResumeIInv, BodyReturnIInv, FinalExchangeIInv,
     FinalReadNextIInv, FinalCallIInv DEF BodyStep, FinalAwaiter
<1>5. CASE UNCHANGED vars
  BY <1>5 DEF IInv, TypeOK, RefInv, Owners, WordInv, is_ready, AllAwaiters, AwaiterInv,
     BodyInv, ListInv, Linked, ListHead, Reachable, vars, promiseVars, bodyVars
<1>. QED
  BY <1>1, <1>2, <1>3, <1>4, <1>5 DEF Next, Terminated

\* The invariant holds in every state of every run, whatever the number of
\* awaiters: the reference count is the number of owners, the word agrees with
\* the place of the body, and the chain from its head holds the suspended
\* awaiters and no others.
THEOREM SharedTaskInvariant == Spec => []IInv
<1>1. Init => IInv
  BY InitIInv
<1>2. IInv /\ [Next]_vars => IInv'
  BY IInvStep
<1>. QED
  BY <1>1, <1>2, PTL DEF Spec

\* The last owner destroys the frame when the body, FinalAwaiter included, has no
\* use for it any more, although the running body owns no reference: while it
\* runs, somebody awaits it, and owns one.
THEOREM FrameOutlivesUsers == Spec => []NoUseAfterFree
<1>1. IInv => NoUseAfterFree
  <2>. SUFFICES ASSUME IInv PROVE NoUseAfterFree
    OBVIOUS
  <2>. USE Sentinels DEF IInv
  <2>1. mRefCount = Cardinality({a \in Awaiters : pc[a] \notin {"idle", "destroy", "done"}})
    BY DEF RefInv, Owners
  <2>2. freed => /\ \A a \in Awaiters : pc[a] \in {"idle", "done"}
                 /\ body \notin {"running", "suspended", "final"}
                 /\ ~value
    BY DEF RefInv, BodyInv, Awaiting, InTryAwait
  <2>3. body \in {"walk", "call"} => pc[waiter] = "suspended"
    BY DEF ListInv, ListHead, Linked
  <2>4. body = "call" /\ next # NULL => pc[next] = "suspended"
    BY DEF ListInv, ListHead, Linked
  <2>. QED
    BY <2>1, <2>2, <2>3, <2>4 DEF NoUseAfterFree
<1>. QED
  BY <1>1, SharedTaskInvariant, PTL

\* When FinalAwaiter has come to the end of the list, nobody is suspended in
\* TryAwait, and nobody who looks at the word later will be.
NoneLeft == body = "done" => \A a \in Awaiters : pc[a] # "suspended"

\* FinalAwaiter resumes everybody: a waiter that linked itself before the exchange
\* is on the list that was taken, and after it none links itself.
THEOREM NobodyLeftSuspended == Spec => []NoneLeft
<1>1. IInv => NoneLeft
  <2>. SUFFICES ASSUME IInv, body = "done" PROVE Linked = {}
    BY DEF NoneLeft, Linked
  <2>1. ListHead = valueReadyValue
    BY DEF IInv, WordInv, is_ready, ListHead, Ended
  <2>2. Linked \in SUBSET Awaiters
    BY DEF Linked
  <2>. QED
    BY <2>1, <2>2, Sentinels DEF IInv, ListInv, Reachable
<1>. QED
  BY <1>1, SharedTaskInvariant, PTL
-------------------------------------------------------------------------------
\* The task keeps the promise of a Future for any number of awaiters: it is
\* resolved by the exchange of FinalAwaiter and never again, nobody goes on before
\* that, and nobody goes on twice.
THEOREM Refinement == Spec => ImplementsFuture
<1>. DEFINE fres == IF is_ready THEN (IF mException THEN "kError" ELSE "kConcrete")
                                ELSE "pending"
            freg == {a \in Awaiters : pc[a] \in Awaiting \/ resumed[a] > 0}
            fcall == {a \in Awaiters : resumed[a] > 0}
<1>1. Init => F!Init
  BY Sentinels DEF Init, F!Init, is_ready, Awaiting, InTryAwait
<1>2. IInv /\ [Next]_vars => [F!Next]_(F!vars)
  <2>. SUFFICES ASSUME IInv, [Next]_vars PROVE F!Next \/ UNCHANGED F!vars
    OBVIOUS
  <2>. USE Sentinels DEF Goto, Continue, promiseVars, bodyVars, Awaiting, InTryAwait
  <2>0. /\ TypeOK /\ WordInv /\ BodyInv
        /\ \A b \in Awaiters : AwaiterInv(b)
    BY DEF IInv, AllAwaiters
  <2>1. ASSUME NEW t \in Awaiters, NEW a \in Awaiters, Copy(t, a) \/ Move(t, a)
        PROVE  UNCHANGED F!vars
    <3>1. fres' = fres /\ fcall' = fcall
      BY <2>1 DEF Copy, Move, is_ready
    <3>2. freg' = freg
      BY <2>0, <2>1 DEF Copy, Move, TypeOK
    <3>. QED
      BY <3>1, <3>2 DEF F!vars
  <2>2. ASSUME NEW a \in Awaiters, Abandon(a) \/ TryAwaitLoad(a) \/ TryDetach(a) \/ destroy(a)
        PROVE  UNCHANGED F!vars
    <3>1. fres' = fres /\ fcall' = fcall
      BY <2>2 DEF Abandon, TryAwaitLoad, TryDetach, destroy, is_ready
    <3>2. freg' = freg
      BY <2>0, <2>2 DEF Abandon, TryAwaitLoad, TryDetach, destroy, TypeOK
    <3>. QED
      BY <3>1, <3>2 DEF F!vars
  <2>3. ASSUME NEW a \in Awaiters, await_ready(a)
        PROVE  F!Register(a) \/ F!CallAtOnce(a)
    <3>1. fres' = fres /\ a \notin freg /\ resumed[a] = 0
      BY <2>0, <2>3 DEF await_ready, is_ready, AwaiterInv
    <3>2. CASE is_ready
      <4>1. fcall' = fcall \cup {a} /\ freg' = freg \cup {a}
        BY <2>0, <2>3, <3>1, <3>2 DEF await_ready, TypeOK
      <4>2. fres # "pending"
        BY <3>2
      <4>. QED
        BY <3>1, <4>1, <4>2 DEF F!CallAtOnce
    <3>3. CASE ~is_ready
      <4>1. fcall' = fcall /\ freg' = freg \cup {a}
        BY <2>0, <2>3, <3>1, <3>3 DEF await_ready, TypeOK
      <4>. QED
        BY <3>1, <4>1 DEF F!Register
    <3>. QED
      BY <3>2, <3>3
  <2>4. ASSUME NEW a \in Awaiters, TryAwaitStart(a)
        PROVE  UNCHANGED F!vars
    <3>1. fres' = fres /\ fcall' = fcall
      BY <2>4 DEF TryAwaitStart, is_ready
    <3>2. freg' = freg
      BY <2>0, <2>4 DEF TryAwaitStart, TypeOK
    <3>. QED
      BY <3>1, <3>2 DEF F!vars
  <2>5. ASSUME NEW a \in Awaiters, TryAwaitEnqueue(a)
        PROVE  F!Call(a) \/ UNCHANGED F!vars
    <3>1. CASE oldWaiters[a] = valueReadyValue
      <4>1. is_ready /\ fres' = fres /\ fres # "pending"
        BY <2>0, <2>5, <3>1 DEF TryAwaitEnqueue, AwaiterInv, is_ready
      <4>2. a \in freg \ fcall /\ resumed[a] = 0
        BY <2>0, <2>5 DEF TryAwaitEnqueue, AwaiterInv
      <4>3. fcall' = fcall \cup {a} /\ freg' = freg
        BY <2>0, <2>5, <3>1, <4>2 DEF TryAwaitEnqueue, TypeOK
      <4>. QED
        BY <4>1, <4>2, <4>3 DEF F!Call
    <3>2. CASE oldWaiters[a] # valueReadyValue
      <4>1. fcall' = fcall /\ freg' = freg
        BY <2>0, <2>5, <3>2 DEF TryAwaitEnqueue, TypeOK
      <4>2. fres' = fres
        BY <2>0, <2>5, <3>2 DEF TryAwaitEnqueue, is_ready
      <4>. QED
        BY <4>1, <4>2 DEF F!vars
    <3>. QED
      BY <3>1, <3>2
  <2>6. ASSUME NEW a \in Awaiters, await_resume(a)
        PROVE  UNCHANGED F!vars
    <3>1. fres' = fres /\ fcall' = fcall
      BY <2>6 DEF await_resume, is_ready
    <3>2. freg' = freg
      BY <2>0, <2>6 DEF await_resume, TypeOK, AwaiterInv
    <3>. QED
      BY <3>1, <3>2 DEF F!vars
  <2>7. ASSUME BodySuspend \/ BodyResume \/ BodyReturn \/ FinalReadNext
        PROVE  UNCHANGED F!vars
    <3>1. fcall' = fcall
      BY <2>7 DEF BodySuspend, BodyResume, BodyReturn, FinalReadNext
    <3>2. fres' = fres
      BY <2>0, <2>7 DEF BodySuspend, BodyResume, BodyReturn, FinalReadNext, is_ready,
         WordInv, Ended
    <3>3. freg' = freg
      <4>1. CASE BodySuspend
        BY <2>0, <4>1 DEF BodySuspend, HostReturns, TypeOK, WordInv
      <4>2. CASE BodyResume \/ BodyReturn \/ FinalReadNext
        BY <4>2 DEF BodyResume, BodyReturn, FinalReadNext
      <4>. QED
        BY <2>7, <4>1, <4>2
    <3>. QED
      BY <3>1, <3>2, <3>3 DEF F!vars
  <2>8. ASSUME FinalExchange
        PROVE  F!Resolve
    <3>1. fres = "pending" /\ fres' \in {"kConcrete", "kError"}
      BY <2>0, <2>8 DEF FinalExchange, is_ready, WordInv, Ended
    <3>2. fcall' = fcall
      BY <2>8 DEF FinalExchange
    <3>3. freg' = freg
      BY <2>0, <2>8 DEF FinalExchange, HostReturns, TypeOK, WordInv
    <3>. QED
      BY <3>1, <3>2, <3>3 DEF F!Resolve
  <2>9. ASSUME FinalCall
        PROVE  \E a \in Awaiters : F!Call(a)
    <3>1. /\ waiter \in Awaiters /\ pc[waiter] = "suspended" /\ resumed[waiter] = 0
          /\ waiter # host
      BY <2>0, <2>9 DEF FinalCall, IInv, ListInv, ListHead, Linked, AwaiterInv, WordInv
    <3>2. is_ready /\ fres' = fres /\ fres # "pending"
      BY <2>0, <2>9 DEF FinalCall, WordInv, Ended, is_ready
    <3>3. fcall' = fcall \cup {waiter} /\ waiter \in freg \ fcall
      BY <2>0, <2>9, <3>1 DEF FinalCall, TypeOK
    <3>4. freg' = freg
      <4>1. CASE next = NULL
        BY <2>0, <2>9, <3>1, <4>1 DEF FinalCall, HostReturns, TypeOK, WordInv
      <4>2. CASE next # NULL
        BY <2>0, <2>9, <3>1, <4>2 DEF FinalCall, TypeOK
      <4>. QED
        BY <4>1, <4>2
    <3>. QED
      BY <3>1, <3>2, <3>3, <3>4 DEF F!Call
  <2>10. ASSUME UNCHANGED vars
         PROVE  UNCHANGED F!vars
    BY <2>10 DEF vars, F!vars, is_ready
  <2>. QED
    BY <2>1, <2>2, <2>3, <2>4, <2>5, <2>6, <2>7, <2>8, <2>9, <2>10
       DEF Next, CallStep, TryAwait, BodyStep, FinalAwaiter, Terminated, F!Next
<1>3. IInv' => [\A a \in Awaiters : resumed'[a] <= 1]_resumed
  BY DEF IInv, AllAwaiters, AwaiterInv
<1>4. IInv /\ [Next]_vars => IInv'
  BY IInvStep
<1>5. Init => IInv
  BY InitIInv
<1>. QED
  BY <1>1, <1>2, <1>3, <1>4, <1>5, PTL DEF Spec, F!Spec, ImplementsFuture
===============================================================================
