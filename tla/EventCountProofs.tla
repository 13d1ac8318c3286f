--------------------------- MODULE EventCountProofs ---------------------------
(***************************************************************************)
(* EventCount for any number of waiters and notifiers.  The counts in the  *)
(* word are exact whatever happens.  As long as the ABA counter does not   *)
(* come round during the calls of Notify, a parked thread is on the stack  *)
(* or with exactly one Unpark, and the event count implements WaitSet.     *)
(*                                                                         *)
(* The stack and the lists in the hands of Unpark are described by their   *)
(* links alone: nobody points to a head, no two nodes point to the same    *)
(* one, and every set of parked waiters is entered from outside.           *)
(***************************************************************************)
EXTENDS EventCount, FiniteSetTheorems, TLAPS

\* The ABA counter does not come round: there are more values of it than calls.
NoWrap == MaxCalls < EpochMod

WaiterPC == {"idle", "check", "cancel", "take", "commit", "commitCas", "park"}
NotifierPC == {"idle", "notifyLoad", "notify", "notifyCas", "unpark", "signal"}

\* What CheckState asserts of one word, and an empty stack has no counter.
GoodWord(s) ==
  /\ 0 <= s.signals /\ s.signals <= s.waiters
  /\ s.stack = Empty => s.epoch = 0
GoodLink(l) == l.stack = Empty => l.epoch = 0

WaiterInv(w) ==
  /\ pc[w] \in WaiterPC
  /\ GoodLink(next[w])
  /\ GoodWord(state[w])

NotifierInv(n) ==
  /\ pc[n] \in NotifierPC
  /\ GoodLink(below[n])
  /\ GoodWord(state[n])
  /\ pc[n] = "notifyCas" => ~NobodyWaits(state[n])
  /\ pc[n] \in {"unpark", "signal"} => target[n] \in Waiters

WordInv ==
  /\ TypeOK
  /\ GoodWord(mState)
  /\ mState.waiters = Cardinality(InPrewait)
  /\ \A w \in Waiters : WaiterInv(w)
  /\ \A n \in Notifiers : NotifierInv(n)

\* The waiters that have still to be signaled, and who is in Unpark.
Parked == {w \in Waiters : pc[w] = "park" /\ signal[w] # "kSignaled"}
Unparking == {n \in Notifiers : pc[n] \in {"unpark", "signal"}}

\* A list of parked waiters begins at w.
IsHead(w) == w = mState.stack \/ \E n \in Unparking : w = target[n]

\* No set of parked waiters is closed off: there is a way in.
Entered ==
  \A S \in SUBSET Parked :
    S # {} => \E w \in S : IsHead(w) \/ \E v \in Parked \ S : next[v].stack = w

HeadInv ==
  /\ mState.stack \in Parked \cup {Empty}
  /\ \A n \in Unparking :
       /\ target[n] \in Parked
       /\ target[n] # mState.stack
       /\ pc[n] = "signal" => below[n] = next[target[n]]
  /\ \A m, n \in Unparking : target[m] = target[n] => m = n

LinkInv ==
  /\ \A w \in Parked :
       next[w].stack # Empty => next[w].stack \in Parked /\ ~IsHead(next[w].stack)
  /\ \A v, w \in Parked : next[v].stack = next[w].stack /\ next[v].stack # Empty => v = w

\* A waiter that is about to push itself has stored the link to go with its copy.
PushInv(w) ==
  pc[w] = "commitCas" =>
    /\ signal[w] # "kSignaled"
    /\ state[w].signals = 0 => next[w] = LinkOf(state[w])

ListInv == (\A w \in Waiters : PushInv(w)) /\ HeadInv /\ LinkInv /\ Entered

\* The notifiers that have not yet changed the word.
Calling == {n \in Notifiers : pc[n] \in {"notifyLoad", "notify", "notifyCas"}}
Stack == Chain(mState.stack)

\* A node on the stack was pushed with the last value of its waiter's counter.
\* The counter may come round with the very last push.
Tag(w, e) == e + 1 = epoch[w] \/ (epoch[w] = 0 /\ calls = MaxCalls /\ Calling = {})

\* Each call of Notify lets a waiter push itself once more.
PushBound(w) ==
  epoch[w] + Cardinality(Calling) <= calls + IF w \in Stack THEN 1 ELSE 0

\* The copy a notifier holds is older than the next push of its top node; if that
\* node is still, or again, on top, then what it read below it is right.
CopyInv(n) ==
  LET top == state[n].stack IN
  /\ pc[n] \in {"notify", "notifyCas"} /\ top # Empty => state[n].epoch < epoch[top]
  /\ pc[n] = "notifyCas" /\ Pops(n) /\ top \in Stack /\ epoch[top] = state[n].epoch + 1
       => below[n] = next[top]

TagInv ==
  /\ mState.stack # Empty => Tag(mState.stack, mState.epoch)
  /\ \A w \in Stack : next[w].stack # Empty => Tag(next[w].stack, next[w].epoch)

EpochInv ==
  /\ TagInv
  /\ \A w \in Waiters : PushBound(w)
  /\ \A n \in Notifiers : CopyInv(n)

IInv == WordInv /\ ListInv /\ EpochInv
-------------------------------------------------------------------------------
(***************************************************************************)
(* What the operations make of a word.                                     *)
(***************************************************************************)

\* The initial word and its link.
LEMMA NoStateType ==
  /\ NoState \in State /\ LinkOf(NoState) \in Link
  /\ GoodWord(NoState) /\ GoodLink(LinkOf(NoState))
BY ParameterAssumption DEF NoState, State, LinkOf, Link, StackPtr, GoodWord, GoodLink

\* The link of a word.
LEMMA LinkOfType ==
  ASSUME NEW s \in State
  PROVE  /\ LinkOf(s) \in Link
         /\ LinkOf(s).stack = s.stack /\ LinkOf(s).epoch = s.epoch
         /\ GoodWord(s) => GoodLink(LinkOf(s))
BY DEF State, LinkOf, Link, GoodWord, GoodLink

\* CancelWait keeps the stack and takes a thread, perhaps with its signal.
LEMMA CancelledType ==
  ASSUME NEW s \in State
  PROVE  /\ Cancelled(s) \in State
         /\ Cancelled(s).stack = s.stack /\ Cancelled(s).epoch = s.epoch
         /\ Cancelled(s).waiters = s.waiters - 1
         /\ Cancelled(s).signals = IF s.waiters = s.signals THEN s.signals - 1 ELSE s.signals
<1>. DEFINE counted == [s EXCEPT !.waiters = s.waiters - 1]
<1>1. /\ counted \in State
      /\ counted.stack = s.stack /\ counted.epoch = s.epoch
      /\ counted.waiters = s.waiters - 1 /\ counted.signals = s.signals
  BY DEF State
<1>2. Cancelled(s) = [counted EXCEPT !.signals = IF s.waiters = s.signals THEN s.signals - 1
                                                 ELSE s.signals]
  BY <1>1 DEF Cancelled, State
<1>. HIDE DEF counted
<1>. QED
  BY <1>1, <1>2 DEF State

\* CommitWait takes a thread with a signal, or makes it the top of the stack.
LEMMA ConsumedType ==
  ASSUME NEW s \in State
  PROVE  LET new == [s EXCEPT !.waiters = @ - 1, !.signals = @ - 1] IN
         /\ new \in State
         /\ new.stack = s.stack /\ new.epoch = s.epoch
         /\ new.waiters = s.waiters - 1 /\ new.signals = s.signals - 1
<1>. DEFINE counted == [s EXCEPT !.waiters = s.waiters - 1]
            new == [s EXCEPT !.waiters = @ - 1, !.signals = @ - 1]
<1>1. /\ counted \in State
      /\ counted.stack = s.stack /\ counted.epoch = s.epoch
      /\ counted.waiters = s.waiters - 1 /\ counted.signals = s.signals
  BY DEF State
<1>2. new = [counted EXCEPT !.signals = s.signals - 1]
  BY <1>1 DEF State
<1>. HIDE DEF counted, new
<1>3. /\ new \in State
      /\ new.stack = s.stack /\ new.epoch = s.epoch
      /\ new.waiters = s.waiters - 1 /\ new.signals = s.signals - 1
  BY <1>1, <1>2 DEF State
<1>. QED
  BY <1>3 DEF new

\* Notify hands out a signal.
LEMMA SignalOneType ==
  ASSUME NEW s \in State
  PROVE  /\ SignalOne(s) \in State
         /\ SignalOne(s).stack = s.stack /\ SignalOne(s).epoch = s.epoch
         /\ SignalOne(s).waiters = s.waiters /\ SignalOne(s).signals = s.signals + 1
BY DEF State, SignalOne

\* A popped node leaves the link below it.
LEMMA PoppedType ==
  ASSUME NEW s \in State, NEW l \in Link
  PROVE  /\ Popped(s, l) \in State
         /\ Popped(s, l).stack = l.stack /\ Popped(s, l).epoch = l.epoch
         /\ Popped(s, l).waiters = s.waiters /\ Popped(s, l).signals = s.signals
BY DEF State, Popped, Link

\* Waking all leaves the empty stack and a signal for every thread in pre-wait.
LEMMA SignalAllType ==
  ASSUME NEW s \in State
  PROVE  /\ SignalAll(s) \in State
         /\ SignalAll(s).stack = Empty /\ SignalAll(s).epoch = 0
         /\ SignalAll(s).waiters = s.waiters /\ SignalAll(s).signals = s.waiters
BY ParameterAssumption DEF State, SignalAll, StackPtr

(***************************************************************************)
(* The fields of the word.                                                 *)
(***************************************************************************)

\* The threads in pre-wait, and the notifiers at work, can be counted.
LEMMA PrewaitSize ==
  /\ IsFiniteSet(InPrewait) /\ Cardinality(InPrewait) \in Nat
  /\ IsFiniteSet(Calling) /\ Cardinality(Calling) \in Nat
<1>1. InPrewait \in SUBSET Waiters /\ Calling \in SUBSET Notifiers
  BY DEF InPrewait, Calling
<1>. QED
  BY <1>1, ParameterAssumption, FS_Subset, FS_CardinalityType

\* Removing an element that is there takes one from the size.
LEMMA SizeOfRemoved ==
  ASSUME NEW S, IsFiniteSet(S), NEW x \in S
  PROVE  /\ Cardinality(S) \in Nat
         /\ Cardinality(S) > 0
         /\ Cardinality(S \ {x}) = Cardinality(S) - 1
<1>1. /\ Cardinality(S) \in Nat /\ IsFiniteSet(S \ {x})
      /\ Cardinality(S \ {x}) = Cardinality(S) - 1
  BY FS_CardinalityType, FS_RemoveElement
<1>2. Cardinality(S \ {x}) \in Nat
  BY <1>1, FS_CardinalityType
<1>. QED
  BY <1>1, <1>2

\* What a successful Notify leaves is a good word with the same threads in pre-wait.
LEMMA NotifiedWord ==
  ASSUME WordInv, NEW n \in Notifiers, pc[n] = "notifyCas", Succeeds(n)
  PROVE  /\ Notified(n) \in State
         /\ GoodWord(Notified(n))
         /\ Notified(n).waiters = mState.waiters
<1>1. mState \in State /\ GoodWord(mState) /\ below[n] \in Link /\ GoodLink(below[n])
  BY DEF WordInv, TypeOK, NotifierInv
<1>2. mState.waiters \in Int /\ mState.signals \in Int
  BY <1>1 DEF State
<1>3. CASE notifyAll[n]
  BY <1>1, <1>2, <1>3, SignalAllType DEF Notified, GoodWord
<1>4. CASE ~notifyAll[n] /\ HasUnsignaled(mState)
  BY <1>1, <1>2, <1>4, SignalOneType DEF Notified, GoodWord, HasUnsignaled
<1>5. CASE ~notifyAll[n] /\ ~HasUnsignaled(mState)
  BY <1>1, <1>2, <1>5, PoppedType DEF Notified, GoodWord, GoodLink
<1>. QED
  BY <1>3, <1>4, <1>5

\* A new event count has nobody waiting.
LEMMA InitWord == Init => WordInv
<1>. SUFFICES ASSUME Init PROVE WordInv
  OBVIOUS
<1>. USE ParameterAssumption DEF Init
<1>1. TypeOK
  BY DEF TypeOK, NoState, State, Link, LinkOf, StackPtr, Threads
<1>2. InPrewait = {}
  BY DEF InPrewait, Threads
<1>3. Cardinality(InPrewait) = 0
  BY <1>2, FS_EmptySet
<1>4. GoodWord(mState) /\ mState.waiters = 0
  BY DEF GoodWord, NoState
<1>5. ASSUME NEW w \in Waiters PROVE WaiterInv(w)
  BY DEF WaiterInv, WaiterPC, GoodWord, GoodLink, NoState, LinkOf, Threads
<1>6. ASSUME NEW n \in Notifiers PROVE NotifierInv(n)
  BY DEF NotifierInv, NotifierPC, GoodWord, GoodLink, NoState, LinkOf, Threads
<1>. QED
  BY <1>1, <1>3, <1>4, <1>5, <1>6 DEF WordInv

\* A thread that announces its wait is counted.
LEMMA PrewaitWord ==
  ASSUME WordInv, NEW w \in Waiters, Prewait(w)
  PROVE  WordInv'
<1>. USE ParameterAssumption DEF WordInv, Prewait, Goto, waiterVars, notifierVars
<1>1. TypeOK'
  <2>1. mState' \in State
    BY DEF TypeOK, State
  <2>. QED
    BY <2>1 DEF TypeOK, Link, StackPtr, Threads
<1>2. InPrewait' = InPrewait \cup {w} /\ w \notin InPrewait
  BY DEF InPrewait, TypeOK, Threads
<1>3. Cardinality(InPrewait') = Cardinality(InPrewait) + 1
  BY <1>2, PrewaitSize, FS_AddElement
<1>4. (mState.waiters = Cardinality(InPrewait))'
  BY <1>3 DEF TypeOK, State
<1>5. GoodWord(mState)'
  BY <1>1 DEF GoodWord, GoodLink, TypeOK, State, Link, WaiterInv, NotifierInv, Threads
<1>6. ASSUME NEW v \in Waiters PROVE WaiterInv(v)'
  BY <1>1 DEF WaiterInv, WaiterPC, GoodWord, GoodLink, TypeOK, State, Link, Threads
<1>7. ASSUME NEW m \in Notifiers PROVE NotifierInv(m)'
  BY <1>1
  DEF NotifierInv, NotifierPC, GoodWord, GoodLink, WaiterInv, TypeOK, State, Link,
      LinkOf, StackPtr, Threads
<1>. QED
  BY <1>1, <1>4, <1>5, <1>6, <1>7

\* The check of the predicate moves a thread within pre-wait.
LEMMA CheckPredicateWord ==
  ASSUME WordInv, NEW w \in Waiters, CheckPredicate(w)
  PROVE  WordInv'
<1>. USE ParameterAssumption DEF WordInv, CheckPredicate, Goto, waiterVars, notifierVars
<1>1. TypeOK'
  BY DEF TypeOK, State, Link, StackPtr, Threads, NotifierInv, WaiterInv
<1>2. InPrewait' = InPrewait
  BY DEF InPrewait, TypeOK, Threads, WaiterInv, NotifierInv
<1>3. mState'.waiters = mState.waiters
  BY DEF TypeOK, State
<1>4. (mState.waiters = Cardinality(InPrewait))'
  BY <1>2, <1>3
<1>5. GoodWord(mState)'
  BY <1>1 DEF GoodWord, GoodLink, TypeOK, State, Link, WaiterInv, NotifierInv, Threads
<1>6. ASSUME NEW v \in Waiters PROVE WaiterInv(v)'
  BY <1>1 DEF WaiterInv, WaiterPC, GoodWord, GoodLink, TypeOK, State, Link, Threads
<1>7. ASSUME NEW m \in Notifiers PROVE NotifierInv(m)'
  BY <1>1
  DEF NotifierInv, NotifierPC, GoodWord, GoodLink, WaiterInv, TypeOK, State, Link,
      LinkOf, StackPtr, Threads
<1>. QED
  BY <1>1, <1>4, <1>5, <1>6, <1>7

\* A wait that is given up is no longer counted, and a signal goes with it if
\* there is one for every thread.
LEMMA CancelWaitWord ==
  ASSUME WordInv, NEW w \in Waiters, CancelWait(w)
  PROVE  WordInv'
<1>. USE ParameterAssumption DEF WordInv, CancelWait, Goto, waiterVars, notifierVars
<1>0. /\ mState' \in State
      /\ mState'.stack = mState.stack /\ mState'.epoch = mState.epoch
      /\ mState'.waiters = mState.waiters - 1
      /\ mState'.signals = IF mState.waiters = mState.signals THEN mState.signals - 1
                          ELSE mState.signals
  BY CancelledType DEF TypeOK
<1>1. TypeOK'
  <2>1. mState' \in State
    BY <1>0
  <2>. QED
    BY <2>1 DEF TypeOK, Link, StackPtr, Threads
<1>2. InPrewait' = InPrewait \ {w} /\ w \in InPrewait
  BY DEF InPrewait, TypeOK, Threads
<1>3. Cardinality(InPrewait') = Cardinality(InPrewait) - 1 /\ Cardinality(InPrewait) > 0
  BY <1>2, PrewaitSize, SizeOfRemoved
<1>4. (mState.waiters = Cardinality(InPrewait))'
  BY <1>0, <1>3 DEF TypeOK, State
<1>5. GoodWord(mState)'
  <2>1. mState.waiters \in Int /\ mState.signals \in Int
    BY DEF TypeOK, State
  <2>. QED
    BY <1>0, <1>3, <2>1, PrewaitSize DEF GoodWord
<1>6. ASSUME NEW v \in Waiters PROVE WaiterInv(v)'
  BY <1>1, <1>3, PrewaitSize, <1>0
  DEF WaiterInv, WaiterPC, GoodWord, GoodLink, TypeOK, State, Link, Threads
<1>7. ASSUME NEW m \in Notifiers PROVE NotifierInv(m)'
  BY <1>1, <1>3, PrewaitSize, <1>0
  DEF NotifierInv, NotifierPC, GoodWord, GoodLink, WaiterInv, TypeOK, State, Link,
      LinkOf, StackPtr, Threads
<1>. QED
  BY <1>1, <1>4, <1>5, <1>6, <1>7

\* Taking an item is outside of the event count.
LEMMA TakeItemWord ==
  ASSUME WordInv, NEW w \in Waiters, TakeItem(w)
  PROVE  WordInv'
<1>. USE ParameterAssumption DEF WordInv, TakeItem, Goto, waiterVars, notifierVars
<1>1. TypeOK'
  BY DEF TypeOK, State, Link, StackPtr, Threads, NotifierInv, WaiterInv
<1>2. InPrewait' = InPrewait
  BY DEF InPrewait, TypeOK, Threads, WaiterInv, NotifierInv
<1>3. mState'.waiters = mState.waiters
  BY DEF TypeOK, State
<1>4. (mState.waiters = Cardinality(InPrewait))'
  BY <1>2, <1>3
<1>5. GoodWord(mState)'
  BY <1>1 DEF GoodWord, GoodLink, TypeOK, State, Link, WaiterInv, NotifierInv, Threads
<1>6. ASSUME NEW v \in Waiters PROVE WaiterInv(v)'
  BY <1>1 DEF WaiterInv, WaiterPC, GoodWord, GoodLink, TypeOK, State, Link, Threads
<1>7. ASSUME NEW m \in Notifiers PROVE NotifierInv(m)'
  BY <1>1
  DEF NotifierInv, NotifierPC, GoodWord, GoodLink, WaiterInv, TypeOK, State, Link,
      LinkOf, StackPtr, Threads
<1>. QED
  BY <1>1, <1>4, <1>5, <1>6, <1>7

\* CommitWait copies the word.
LEMMA CommitLoadWord ==
  ASSUME WordInv, NEW w \in Waiters, CommitLoad(w)
  PROVE  WordInv'
<1>. USE ParameterAssumption
     DEF WordInv, CommitLoad, Goto, waiterVars, notifierVars, LoadAndLink, LinkOf
<1>1. TypeOK'
  BY DEF TypeOK, State, Link, StackPtr, Threads, NotifierInv, WaiterInv
<1>2. InPrewait' = InPrewait
  BY DEF InPrewait, TypeOK, Threads, WaiterInv, NotifierInv
<1>3. mState'.waiters = mState.waiters
  BY DEF TypeOK, State
<1>4. (mState.waiters = Cardinality(InPrewait))'
  BY <1>2, <1>3
<1>5. GoodWord(mState)'
  BY <1>1, LinkOfType
  DEF GoodWord, GoodLink, TypeOK, State, Link, WaiterInv, NotifierInv, Threads
<1>6. ASSUME NEW v \in Waiters PROVE WaiterInv(v)'
  BY <1>1, LinkOfType
  DEF WaiterInv, WaiterPC, GoodWord, GoodLink, TypeOK, State, Link, Threads
<1>7. ASSUME NEW m \in Notifiers PROVE NotifierInv(m)'
  BY <1>1, LinkOfType
  DEF NotifierInv, NotifierPC, GoodWord, GoodLink, WaiterInv, TypeOK, State, Link,
      LinkOf, StackPtr, Threads
<1>. QED
  BY <1>1, <1>4, <1>5, <1>6, <1>7

\* A failed exchange copies the word again.
LEMMA CommitRetryWord ==
  ASSUME WordInv, NEW w \in Waiters, CommitRetry(w)
  PROVE  WordInv'
<1>. USE ParameterAssumption
     DEF WordInv, CommitRetry, Goto, waiterVars, notifierVars, LoadAndLink, LinkOf
<1>1. TypeOK'
  BY DEF TypeOK, State, Link, StackPtr, Threads, NotifierInv, WaiterInv
<1>2. InPrewait' = InPrewait
  BY DEF InPrewait, TypeOK, Threads, WaiterInv, NotifierInv
<1>3. mState'.waiters = mState.waiters
  BY DEF TypeOK, State
<1>4. (mState.waiters = Cardinality(InPrewait))'
  BY <1>2, <1>3
<1>5. GoodWord(mState)'
  BY <1>1, LinkOfType
  DEF GoodWord, GoodLink, TypeOK, State, Link, WaiterInv, NotifierInv, Threads
<1>6. ASSUME NEW v \in Waiters PROVE WaiterInv(v)'
  BY <1>1, LinkOfType
  DEF WaiterInv, WaiterPC, GoodWord, GoodLink, TypeOK, State, Link, Threads
<1>7. ASSUME NEW m \in Notifiers PROVE NotifierInv(m)'
  BY <1>1, LinkOfType
  DEF NotifierInv, NotifierPC, GoodWord, GoodLink, WaiterInv, TypeOK, State, Link,
      LinkOf, StackPtr, Threads
<1>. QED
  BY <1>1, <1>4, <1>5, <1>6, <1>7

\* A thread that consumes a signal is counted off with it.
LEMMA CommitConsumeWord ==
  ASSUME WordInv, NEW w \in Waiters, CommitConsume(w)
  PROVE  WordInv'
<1>. USE ParameterAssumption
     DEF WordInv, CommitConsume, Goto, waiterVars, notifierVars, Forget, Succeeds
<1>0. /\ mState' \in State
      /\ mState'.stack = mState.stack /\ mState'.epoch = mState.epoch
      /\ mState'.waiters = mState.waiters - 1 /\ mState'.signals = mState.signals - 1
  BY ConsumedType DEF TypeOK
<1>1. TypeOK'
  <2>1. mState' \in State
    BY <1>0
  <2>2. state' \in [Threads -> State]
    BY NoStateType DEF TypeOK
  <2>. QED
    BY <2>1, <2>2 DEF TypeOK, Link, StackPtr, Threads
<1>2. InPrewait' = InPrewait \ {w} /\ w \in InPrewait
  BY DEF InPrewait, TypeOK, Threads
<1>3. Cardinality(InPrewait') = Cardinality(InPrewait) - 1 /\ Cardinality(InPrewait) > 0
  BY <1>2, PrewaitSize, SizeOfRemoved
<1>4. (mState.waiters = Cardinality(InPrewait))'
  BY <1>0, <1>3 DEF TypeOK, State
<1>5. GoodWord(mState)'
  <2>1. mState.waiters \in Int /\ mState.signals \in Int
    BY DEF TypeOK, State
  <2>. QED
    BY <1>0, <1>3, <2>1, PrewaitSize DEF GoodWord
<1>6. ASSUME NEW v \in Waiters PROVE WaiterInv(v)'
  BY <1>1, <1>3, PrewaitSize, NoStateType, <1>0
  DEF WaiterInv, WaiterPC, GoodWord, GoodLink, TypeOK, State, Link, Threads
<1>7. ASSUME NEW m \in Notifiers PROVE NotifierInv(m)'
  BY <1>1, <1>3, PrewaitSize, NoStateType, <1>0
  DEF NotifierInv, NotifierPC, GoodWord, GoodLink, WaiterInv, TypeOK, State, Link,
      LinkOf, StackPtr, Threads
<1>. QED
  BY <1>1, <1>4, <1>5, <1>6, <1>7

\* A thread that pushes itself is counted off; there was no signal.
LEMMA CommitPushWord ==
  ASSUME WordInv, NEW w \in Waiters, CommitPush(w)
  PROVE  WordInv'
<1>. USE ParameterAssumption
     DEF WordInv, CommitPush, Goto, waiterVars, notifierVars, Forget, Succeeds, Pushed,
         NextEpoch
<1>1. TypeOK'
  <2>1. mState' \in State
    BY DEF TypeOK, State, StackPtr, Threads
  <2>2. state' \in [Threads -> State]
    BY NoStateType DEF TypeOK
  <2>3. epoch' \in [Waiters -> 0 .. EpochMod - 1]
    BY DEF TypeOK
  <2>. QED
    BY <2>1, <2>2, <2>3 DEF TypeOK, Link, StackPtr, Threads
<1>2. InPrewait' = InPrewait \ {w} /\ w \in InPrewait
  BY DEF InPrewait, TypeOK, Threads
<1>3. Cardinality(InPrewait') = Cardinality(InPrewait) - 1 /\ Cardinality(InPrewait) > 0
  BY <1>2, PrewaitSize, SizeOfRemoved
<1>4. (mState.waiters = Cardinality(InPrewait))'
  BY <1>3 DEF TypeOK, State
<1>5. GoodWord(mState)'
  BY <1>1, <1>3, PrewaitSize, NoStateType
  DEF GoodWord, GoodLink, TypeOK, State, Link, WaiterInv, NotifierInv, Threads
<1>6. ASSUME NEW v \in Waiters PROVE WaiterInv(v)'
  BY <1>1, <1>3, PrewaitSize, NoStateType
  DEF WaiterInv, WaiterPC, GoodWord, GoodLink, TypeOK, State, Link, Threads
<1>7. ASSUME NEW m \in Notifiers PROVE NotifierInv(m)'
  BY <1>1, <1>3, PrewaitSize, NoStateType
  DEF NotifierInv, NotifierPC, GoodWord, GoodLink, WaiterInv, TypeOK, State, Link,
      LinkOf, StackPtr, Threads
<1>. QED
  BY <1>1, <1>4, <1>5, <1>6, <1>7

\* Park works on the waiter alone.
LEMMA ParkWord ==
  ASSUME WordInv, NEW w \in Waiters, Park(w)
  PROVE  WordInv'
<1>. USE ParameterAssumption DEF WordInv, Park, Goto, waiterVars, notifierVars
<1>1. TypeOK'
  BY DEF TypeOK, State, Link, StackPtr, Threads, NotifierInv, WaiterInv
<1>2. InPrewait' = InPrewait
  BY DEF InPrewait, TypeOK, Threads, WaiterInv, NotifierInv
<1>3. mState'.waiters = mState.waiters
  BY DEF TypeOK, State
<1>4. (mState.waiters = Cardinality(InPrewait))'
  BY <1>2, <1>3
<1>5. GoodWord(mState)'
  BY <1>1 DEF GoodWord, GoodLink, TypeOK, State, Link, WaiterInv, NotifierInv, Threads
<1>6. ASSUME NEW v \in Waiters PROVE WaiterInv(v)'
  BY <1>1 DEF WaiterInv, WaiterPC, GoodWord, GoodLink, TypeOK, State, Link, Threads
<1>7. ASSUME NEW m \in Notifiers PROVE NotifierInv(m)'
  BY <1>1
  DEF NotifierInv, NotifierPC, GoodWord, GoodLink, WaiterInv, TypeOK, State, Link,
      LinkOf, StackPtr, Threads
<1>. QED
  BY <1>1, <1>4, <1>5, <1>6, <1>7

\* A wake-up works on the waiter alone.
LEMMA SpuriousWakeupWord ==
  ASSUME WordInv, NEW w \in Waiters, SpuriousWakeup(w)
  PROVE  WordInv'
<1>. USE ParameterAssumption DEF WordInv, SpuriousWakeup, Goto, waiterVars, notifierVars
<1>1. TypeOK'
  BY DEF TypeOK, State, Link, StackPtr, Threads, NotifierInv, WaiterInv
<1>2. InPrewait' = InPrewait
  BY DEF InPrewait, TypeOK, Threads, WaiterInv, NotifierInv
<1>3. mState'.waiters = mState.waiters
  BY DEF TypeOK, State
<1>4. (mState.waiters = Cardinality(InPrewait))'
  BY <1>2, <1>3
<1>5. GoodWord(mState)'
  BY <1>1 DEF GoodWord, GoodLink, TypeOK, State, Link, WaiterInv, NotifierInv, Threads
<1>6. ASSUME NEW v \in Waiters PROVE WaiterInv(v)'
  BY <1>1 DEF WaiterInv, WaiterPC, GoodWord, GoodLink, TypeOK, State, Link, Threads
<1>7. ASSUME NEW m \in Notifiers PROVE NotifierInv(m)'
  BY <1>1
  DEF NotifierInv, NotifierPC, GoodWord, GoodLink, WaiterInv, TypeOK, State, Link,
      LinkOf, StackPtr, Threads
<1>. QED
  BY <1>1, <1>4, <1>5, <1>6, <1>7

\* A new item is not in the word.
LEMMA AddItemWord ==
  ASSUME WordInv, NEW n \in Notifiers, NEW all \in BOOLEAN, AddItem(n, all)
  PROVE  WordInv'
<1>. USE ParameterAssumption DEF WordInv, AddItem, Goto, waiterVars, notifierVars
<1>1. TypeOK'
  BY DEF TypeOK, State, Link, StackPtr, Threads, NotifierInv, WaiterInv
<1>2. InPrewait' = InPrewait
  BY DEF InPrewait, TypeOK, Threads, WaiterInv, NotifierInv
<1>3. mState'.waiters = mState.waiters
  BY DEF TypeOK, State
<1>4. (mState.waiters = Cardinality(InPrewait))'
  BY <1>2, <1>3
<1>5. GoodWord(mState)'
  BY <1>1 DEF GoodWord, GoodLink, TypeOK, State, Link, WaiterInv, NotifierInv, Threads
<1>6. ASSUME NEW v \in Waiters PROVE WaiterInv(v)'
  <2>1. pc'[v] = pc[v] /\ state'[v] = state[v] /\ next'[v] = next[v]
    BY DEF TypeOK, Threads
  <2>. QED
    BY <2>1 DEF WaiterInv, GoodWord, GoodLink
<1>7. ASSUME NEW m \in Notifiers PROVE NotifierInv(m)'
  BY <1>1
  DEF NotifierInv, NotifierPC, GoodWord, GoodLink, WaiterInv, TypeOK, State, Link,
      LinkOf, StackPtr, Threads
<1>. QED
  BY <1>1, <1>4, <1>5, <1>6, <1>7

\* Notify copies the word.
LEMMA NotifyLoadWord ==
  ASSUME WordInv, NEW n \in Notifiers, NotifyLoad(n)
  PROVE  WordInv'
<1>. USE ParameterAssumption DEF WordInv, NotifyLoad, Goto, waiterVars, notifierVars
<1>1. TypeOK'
  BY DEF TypeOK, State, Link, StackPtr, Threads, NotifierInv, WaiterInv
<1>2. InPrewait' = InPrewait
  BY DEF InPrewait, TypeOK, Threads, WaiterInv, NotifierInv
<1>3. mState'.waiters = mState.waiters
  BY DEF TypeOK, State
<1>4. (mState.waiters = Cardinality(InPrewait))'
  BY <1>2, <1>3
<1>5. GoodWord(mState)'
  BY <1>1 DEF GoodWord, GoodLink, TypeOK, State, Link, WaiterInv, NotifierInv, Threads
<1>6. ASSUME NEW v \in Waiters PROVE WaiterInv(v)'
  <2>1. pc'[v] = pc[v] /\ state'[v] = state[v] /\ next'[v] = next[v]
    BY DEF TypeOK, Threads
  <2>. QED
    BY <2>1 DEF WaiterInv, GoodWord, GoodLink
<1>7. ASSUME NEW m \in Notifiers PROVE NotifierInv(m)'
  BY <1>1
  DEF NotifierInv, NotifierPC, GoodWord, GoodLink, WaiterInv, TypeOK, State, Link,
      LinkOf, StackPtr, Threads
<1>. QED
  BY <1>1, <1>4, <1>5, <1>6, <1>7

\* With nobody waiting Notify returns.
LEMMA NotifyNobodyWord ==
  ASSUME WordInv, NEW n \in Notifiers, NotifyNobody(n)
  PROVE  WordInv'
<1>. USE ParameterAssumption
     DEF WordInv, NotifyNobody, Goto, waiterVars, notifierVars, Return, Forget
<1>1. TypeOK'
  <2>1. state' \in [Threads -> State]
    BY NoStateType DEF TypeOK
  <2>2. below' \in [Notifiers -> Link]
    BY NoStateType DEF TypeOK
  <2>3. notifyAll' \in [Notifiers -> BOOLEAN]
    BY DEF TypeOK
  <2>. QED
    BY <2>1, <2>2, <2>3 DEF TypeOK, Link, StackPtr, Threads
<1>2. InPrewait' = InPrewait
  BY DEF InPrewait, TypeOK, Threads, WaiterInv, NotifierInv
<1>3. mState'.waiters = mState.waiters
  BY DEF TypeOK, State
<1>4. (mState.waiters = Cardinality(InPrewait))'
  BY <1>2, <1>3
<1>5. GoodWord(mState)'
  BY <1>1, NoStateType
  DEF GoodWord, GoodLink, TypeOK, State, Link, WaiterInv, NotifierInv, Threads
<1>6. ASSUME NEW v \in Waiters PROVE WaiterInv(v)'
  <2>1. pc'[v] = pc[v] /\ state'[v] = state[v] /\ next'[v] = next[v]
    BY DEF TypeOK, Threads
  <2>. QED
    BY <2>1 DEF WaiterInv, GoodWord, GoodLink
<1>7. ASSUME NEW m \in Notifiers PROVE NotifierInv(m)'
  BY <1>1, NoStateType
  DEF NotifierInv, NotifierPC, GoodWord, GoodLink, WaiterInv, TypeOK, State, Link,
      LinkOf, StackPtr, Threads
<1>. QED
  BY <1>1, <1>4, <1>5, <1>6, <1>7

\* A notifier that will pop has a node to read.
LEMMA NotifyPrepareWord ==
  ASSUME WordInv, NEW n \in Notifiers, NotifyPrepare(n)
  PROVE  WordInv'
<1>. USE ParameterAssumption
     DEF WordInv, NotifyPrepare, Goto, waiterVars, notifierVars, HasUnsignaled,
         NobodyWaits
<1>0. Pops(n) => state[n].stack \in Waiters
  <2>1. state[n] \in State /\ GoodWord(state[n])
    BY DEF TypeOK, Threads, NotifierInv
  <2>. QED
    BY <2>1 DEF Pops, State, StackPtr, GoodWord
<1>1. TypeOK'
  <2>1. Pops(n) => state[n].stack \in Waiters
    BY <1>0
  <2>2. below' \in [Notifiers -> Link]
    BY <2>1 DEF TypeOK
  <2>. QED
    BY <2>1, <2>2 DEF TypeOK, Link, StackPtr, Threads
<1>2. InPrewait' = InPrewait
  BY DEF InPrewait, TypeOK, Threads, WaiterInv, NotifierInv
<1>3. mState'.waiters = mState.waiters
  BY <1>0
<1>4. (mState.waiters = Cardinality(InPrewait))'
  BY <1>2, <1>3
<1>5. GoodWord(mState)'
  BY <1>1, <1>0 DEF GoodWord, GoodLink, TypeOK, State, Link, WaiterInv, NotifierInv, Threads
<1>6. ASSUME NEW v \in Waiters PROVE WaiterInv(v)'
  <2>1. pc'[v] = pc[v] /\ state'[v] = state[v] /\ next'[v] = next[v]
    BY DEF TypeOK, Threads
  <2>. QED
    BY <2>1 DEF WaiterInv, GoodWord, GoodLink
<1>7. ASSUME NEW m \in Notifiers PROVE NotifierInv(m)'
  BY <1>1, <1>0
  DEF NotifierInv, NotifierPC, GoodWord, GoodLink, WaiterInv, TypeOK, State, Link,
      LinkOf, StackPtr, Threads
<1>. QED
  BY <1>1, <1>4, <1>5, <1>6, <1>7

\* A failed exchange copies the word again.
LEMMA NotifyRetryWord ==
  ASSUME WordInv, NEW n \in Notifiers, NotifyRetry(n)
  PROVE  WordInv'
<1>. USE ParameterAssumption DEF WordInv, NotifyRetry, Goto, waiterVars, notifierVars
<1>1. TypeOK'
  BY DEF TypeOK, State, Link, StackPtr, Threads, NotifierInv, WaiterInv
<1>2. InPrewait' = InPrewait
  BY DEF InPrewait, TypeOK, Threads, WaiterInv, NotifierInv
<1>3. mState'.waiters = mState.waiters
  BY DEF TypeOK, State
<1>4. (mState.waiters = Cardinality(InPrewait))'
  BY <1>2, <1>3
<1>5. GoodWord(mState)'
  BY <1>1 DEF GoodWord, GoodLink, TypeOK, State, Link, WaiterInv, NotifierInv, Threads
<1>6. ASSUME NEW v \in Waiters PROVE WaiterInv(v)'
  <2>1. pc'[v] = pc[v] /\ state'[v] = state[v] /\ next'[v] = next[v]
    BY DEF TypeOK, Threads
  <2>. QED
    BY <2>1 DEF WaiterInv, GoodWord, GoodLink
<1>7. ASSUME NEW m \in Notifiers PROVE NotifierInv(m)'
  BY <1>1
  DEF NotifierInv, NotifierPC, GoodWord, GoodLink, WaiterInv, TypeOK, State, Link,
      LinkOf, StackPtr, Threads
<1>. QED
  BY <1>1, <1>4, <1>5, <1>6, <1>7

\* A signal more is a signal for a thread that had none.
LEMMA NotifyPrewaitersWord ==
  ASSUME WordInv, NEW n \in Notifiers, NotifyPrewaiters(n)
  PROVE  WordInv'
<1>. USE ParameterAssumption
     DEF WordInv, NotifyPrewaiters, Goto, waiterVars, notifierVars, Return, Forget,
         Succeeds, HasUnsignaled, NobodyWaits
<1>0. mState' \in State /\ GoodWord(mState') /\ mState'.waiters = mState.waiters
  BY NotifiedWord
<1>1. TypeOK'
  <2>1. mState' \in State
    BY <1>0
  <2>2. state' \in [Threads -> State]
    BY NoStateType DEF TypeOK
  <2>3. below' \in [Notifiers -> Link]
    BY NoStateType DEF TypeOK
  <2>4. notifyAll' \in [Notifiers -> BOOLEAN]
    BY DEF TypeOK
  <2>. QED
    BY <2>1, <2>2, <2>3, <2>4 DEF TypeOK, Link, StackPtr, Threads
<1>2. InPrewait' = InPrewait
  BY DEF InPrewait, TypeOK, Threads, WaiterInv, NotifierInv
<1>3. mState'.waiters = mState.waiters
  BY <1>0
<1>4. (mState.waiters = Cardinality(InPrewait))'
  BY <1>2, <1>3
<1>5. GoodWord(mState)'
  BY <1>1, NoStateType, <1>0
  DEF GoodWord, GoodLink, TypeOK, State, Link, WaiterInv, NotifierInv, Threads
<1>6. ASSUME NEW v \in Waiters PROVE WaiterInv(v)'
  <2>1. pc'[v] = pc[v] /\ state'[v] = state[v] /\ next'[v] = next[v]
    BY DEF TypeOK, Threads
  <2>. QED
    BY <2>1 DEF WaiterInv, GoodWord, GoodLink
<1>7. ASSUME NEW m \in Notifiers PROVE NotifierInv(m)'
  BY <1>1, NoStateType, <1>0
  DEF NotifierInv, NotifierPC, GoodWord, GoodLink, WaiterInv, TypeOK, State, Link,
      LinkOf, StackPtr, Threads
<1>. QED
  BY <1>1, <1>4, <1>5, <1>6, <1>7

\* A pop leaves the counts alone, and waking all gives every thread in pre-wait
\* a signal.
LEMMA NotifyParkedWord ==
  ASSUME WordInv, NEW n \in Notifiers, NotifyParked(n)
  PROVE  WordInv'
<1>. USE ParameterAssumption
     DEF WordInv, NotifyParked, Goto, waiterVars, notifierVars, Forget, Succeeds,
         HasUnsignaled, NobodyWaits
<1>0. mState' \in State /\ GoodWord(mState') /\ mState'.waiters = mState.waiters
  BY NotifiedWord
<1>1. TypeOK'
  <2>1. mState' \in State
    BY <1>0
  <2>2. state' \in [Threads -> State]
    BY NoStateType DEF TypeOK
  <2>3. next' \in [Waiters -> Link]
    BY NoStateType DEF TypeOK
  <2>4. target' \in [Notifiers -> StackPtr]
    BY DEF TypeOK, State, Link, StackPtr
  <2>. QED
    BY <2>1, <2>2, <2>3, <2>4 DEF TypeOK, Link, StackPtr, Threads
<1>2. InPrewait' = InPrewait
  BY DEF InPrewait, TypeOK, Threads, WaiterInv, NotifierInv
<1>3. mState'.waiters = mState.waiters
  BY <1>0
<1>4. (mState.waiters = Cardinality(InPrewait))'
  BY <1>2, <1>3
<1>5. GoodWord(mState)'
  BY <1>1, NoStateType, <1>0
  DEF GoodWord, GoodLink, TypeOK, State, Link, WaiterInv, NotifierInv, Threads
<1>6. ASSUME NEW v \in Waiters PROVE WaiterInv(v)'
  BY <1>1, NoStateType, <1>0
  DEF WaiterInv, WaiterPC, GoodWord, GoodLink, TypeOK, State, Link, Threads
<1>7. ASSUME NEW m \in Notifiers PROVE NotifierInv(m)'
  BY <1>1, NoStateType, <1>0
  DEF NotifierInv, NotifierPC, GoodWord, GoodLink, WaiterInv, TypeOK, State, Link,
      LinkOf, StackPtr, Threads
<1>. QED
  BY <1>1, <1>4, <1>5, <1>6, <1>7

\* Unpark reads the link below its node.
LEMMA UnparkReadNextWord ==
  ASSUME WordInv, NEW n \in Notifiers, UnparkReadNext(n)
  PROVE  WordInv'
<1>. USE ParameterAssumption DEF WordInv, UnparkReadNext, Goto, waiterVars, notifierVars
<1>1. TypeOK'
  BY DEF TypeOK, State, Link, StackPtr, Threads, NotifierInv, WaiterInv
<1>2. InPrewait' = InPrewait
  BY DEF InPrewait, TypeOK, Threads, WaiterInv, NotifierInv
<1>3. mState'.waiters = mState.waiters
  BY DEF TypeOK, State
<1>4. (mState.waiters = Cardinality(InPrewait))'
  BY <1>2, <1>3
<1>5. GoodWord(mState)'
  BY <1>1 DEF GoodWord, GoodLink, TypeOK, State, Link, WaiterInv, NotifierInv, Threads
<1>6. ASSUME NEW v \in Waiters PROVE WaiterInv(v)'
  <2>1. pc'[v] = pc[v] /\ state'[v] = state[v] /\ next'[v] = next[v]
    BY DEF TypeOK, Threads
  <2>. QED
    BY <2>1 DEF WaiterInv, GoodWord, GoodLink
<1>7. ASSUME NEW m \in Notifiers PROVE NotifierInv(m)'
  BY <1>1
  DEF NotifierInv, NotifierPC, GoodWord, GoodLink, WaiterInv, TypeOK, State, Link,
      LinkOf, StackPtr, Threads
<1>. QED
  BY <1>1, <1>4, <1>5, <1>6, <1>7

\* Unpark goes on to a node or returns.
LEMMA UnparkSignalWord ==
  ASSUME WordInv, NEW n \in Notifiers, UnparkSignal(n)
  PROVE  WordInv'
<1>. USE ParameterAssumption
     DEF WordInv, UnparkSignal, Goto, waiterVars, notifierVars, Return, Forget
<1>0. below[n].stack # Empty => below[n].stack \in Waiters
  BY DEF TypeOK, Link, StackPtr
<1>1. TypeOK'
  <2>1. target[n] \in Waiters
    BY DEF NotifierInv
  <2>2. signal' \in [Waiters -> {"kNotSignaled", "kWaiting", "kSignaled"}]
    BY <2>1 DEF TypeOK
  <2>3. asleep' \in [Waiters -> BOOLEAN]
    BY <2>1 DEF TypeOK
  <2>4. state' \in [Threads -> State]
    BY NoStateType DEF TypeOK
  <2>5. below' \in [Notifiers -> Link]
    BY NoStateType DEF TypeOK
  <2>6. target' \in [Notifiers -> StackPtr]
    BY DEF TypeOK, State, Link, StackPtr
  <2>7. notifyAll' \in [Notifiers -> BOOLEAN]
    BY DEF TypeOK
  <2>8. pc' \in [Threads -> {"idle", "check", "cancel", "take", "commit", "commitCas",
                          "park", "notifyLoad", "notify", "notifyCas", "unpark",
                          "signal"}]
    BY DEF TypeOK, Threads
  <2>. QED
    BY <2>1, <2>2, <2>3, <2>4, <2>5, <2>6, <2>7, <2>8 DEF TypeOK, Link, StackPtr, Threads
<1>2. InPrewait' = InPrewait
  BY DEF InPrewait, TypeOK, Threads, WaiterInv, NotifierInv
<1>3. mState'.waiters = mState.waiters
  BY DEF TypeOK, State
<1>4. (mState.waiters = Cardinality(InPrewait))'
  BY <1>2, <1>3
<1>5. GoodWord(mState)'
  BY <1>1, NoStateType, <1>0
  DEF GoodWord, GoodLink, TypeOK, State, Link, WaiterInv, NotifierInv, Threads
<1>6. ASSUME NEW v \in Waiters PROVE WaiterInv(v)'
  <2>1. pc'[v] = pc[v] /\ state'[v] = state[v] /\ next'[v] = next[v]
    BY DEF TypeOK, Threads
  <2>. QED
    BY <2>1 DEF WaiterInv, GoodWord, GoodLink
<1>7. ASSUME NEW m \in Notifiers PROVE NotifierInv(m)'
  BY <1>1, NoStateType, <1>0
  DEF NotifierInv, NotifierPC, GoodWord, GoodLink, WaiterInv, TypeOK, State, Link,
      LinkOf, StackPtr, Threads
<1>. QED
  BY <1>1, <1>4, <1>5, <1>6, <1>7

\* So every step keeps the word right.
LEMMA WordStep == WordInv /\ [Next]_vars => WordInv'
<1>. SUFFICES ASSUME WordInv, [Next]_vars PROVE WordInv'
  OBVIOUS
<1>1. CASE UNCHANGED vars
  BY <1>1
  DEF vars, WordInv, TypeOK, GoodWord, GoodLink, WaiterInv, NotifierInv, NobodyWaits, 
              InPrewait, State, Link, Threads, StackPtr
<1>2. ASSUME NEW w \in Waiters, WaiterStep(w) \/ SpuriousWakeup(w) PROVE WordInv'
  BY <1>2, PrewaitWord, CheckPredicateWord, CancelWaitWord, TakeItemWord, CommitLoadWord,
     CommitRetryWord, CommitConsumeWord, CommitPushWord, ParkWord, SpuriousWakeupWord
  DEF WaiterStep, CommitWait
<1>3. ASSUME NEW n \in Notifiers,
             NotifyStep(n) \/ \E all \in BOOLEAN : AddItem(n, all)
      PROVE  WordInv'
  BY <1>3, AddItemWord, NotifyLoadWord, NotifyNobodyWord, NotifyPrepareWord,
     NotifyRetryWord, 
     NotifyPrewaitersWord, NotifyParkedWord, UnparkReadNextWord, UnparkSignalWord
  DEF NotifyStep, Notify, Unpark
<1>. QED
  BY <1>1, <1>2, <1>3 DEF Next

\* However the compare-exchanges of any number of threads interleave, and even if
\* the ABA counter comes round, the waiters field counts the threads in pre-wait
\* and there are never more signals than those.
THEOREM FieldsAreExact == Spec => []WordInv
<1>1. Init => WordInv
  BY InitWord
<1>2. WordInv /\ [Next]_vars => WordInv'
  BY WordStep
<1>. QED
  BY <1>1, <1>2, PTL DEF Spec
-------------------------------------------------------------------------------
(***************************************************************************)
(* The waiters below a stack pointer, for the links nx.                    *)
(***************************************************************************)
ClosedIn(nx, S) == \A v \in S : nx[v].stack \in S \cup {Empty}
Below(nx, p) ==
  {w \in Waiters : \A S \in SUBSET Waiters : ClosedIn(nx, S) /\ p \in S \cup {Empty} => w \in S}

\* The stack is what is below its top, before and after a step.
LEMMA StackIsBelow ==
  Stack = Below(next, mState.stack) /\ Stack' = Below(next', mState'.stack)
BY DEF Stack, Chain, Closed, Below, ClosedIn

\* What is below a pointer is closed, and the smallest such set.
LEMMA BelowClosed ==
  ASSUME NEW nx \in [Waiters -> Link], NEW p \in StackPtr
  PROVE  /\ Below(nx, p) \in SUBSET Waiters
         /\ ClosedIn(nx, Below(nx, p))
         /\ p \in Below(nx, p) \cup {Empty}
         /\ \A S \in SUBSET Waiters :
              ClosedIn(nx, S) /\ p \in S \cup {Empty} => Below(nx, p) \subseteq S
<1>1. ASSUME NEW v \in Below(nx, p), nx[v].stack # Empty PROVE nx[v].stack \in Below(nx, p)
  <2>1. nx[v].stack \in Waiters
    BY <1>1 DEF Below, Link, StackPtr
  <2>2. ASSUME NEW S \in SUBSET Waiters, ClosedIn(nx, S), p \in S \cup {Empty}
        PROVE  nx[v].stack \in S
    BY <1>1, <2>2 DEF Below, ClosedIn
  <2>. QED
    BY <2>1, <2>2 DEF Below
<1>2. ClosedIn(nx, Below(nx, p))
  BY <1>1 DEF ClosedIn
<1>3. p \in Below(nx, p) \cup {Empty}
  BY DEF Below, StackPtr
<1>. QED
  BY <1>2, <1>3 DEF Below

\* Nothing is below the empty pointer.
LEMMA BelowEmpty ==
  ASSUME NEW nx \in [Waiters -> Link] PROVE Below(nx, Empty) = {}
<1>1. ClosedIn(nx, {})
  BY DEF ClosedIn
<1>. QED
  BY <1>1 DEF Below

\* Below a waiter is the waiter itself and what is below its link.
LEMMA BelowStep ==
  ASSUME NEW nx \in [Waiters -> Link], NEW p \in Waiters
  PROVE  Below(nx, p) = {p} \cup Below(nx, nx[p].stack)
<1>1. p \in StackPtr /\ nx[p].stack \in StackPtr /\ p # Empty
  BY ParameterAssumption DEF StackPtr, Link
<1>. DEFINE A == Below(nx, p)
            B == Below(nx, nx[p].stack)
<1>2. A \in SUBSET Waiters /\ ClosedIn(nx, A) /\ p \in A
  BY <1>1, BelowClosed
<1>3. B \in SUBSET Waiters /\ ClosedIn(nx, B) /\ nx[p].stack \in B \cup {Empty}
  BY <1>1, BelowClosed
<1>4. nx[p].stack \in A \cup {Empty}
  BY <1>2 DEF ClosedIn
<1>5. B \subseteq A
  BY <1>1, <1>2, <1>4, BelowClosed
<1>6. ClosedIn(nx, {p} \cup B)
  BY <1>3 DEF ClosedIn
<1>7. A \subseteq {p} \cup B
  BY <1>1, <1>3, <1>6, BelowClosed
<1>. QED
  BY <1>2, <1>5, <1>7

\* A waiter below a pointer is where it points, or below another one.
LEMMA BelowEntered ==
  ASSUME NEW nx \in [Waiters -> Link], NEW p \in StackPtr, NEW w \in Below(nx, p), w # p
  PROVE  \E v \in Below(nx, p) : nx[v].stack = w
<1>. DEFINE A == Below(nx, p)
<1>1. A \in SUBSET Waiters /\ ClosedIn(nx, A) /\ p \in A \cup {Empty}
  BY BelowClosed
<1>2. SUFFICES ASSUME ~ \E v \in A : nx[v].stack = w PROVE FALSE
  OBVIOUS
<1>3. ClosedIn(nx, A \ {w}) /\ p \in (A \ {w}) \cup {Empty}
  BY <1>1, <1>2 DEF ClosedIn
<1>4. A \subseteq A \ {w}
  BY <1>1, <1>3, BelowClosed
<1>. QED
  BY <1>4

\* Links outside of the list do not matter.
LEMMA BelowSame ==
  ASSUME NEW nx \in [Waiters -> Link], NEW ny \in [Waiters -> Link], NEW p \in StackPtr,
         \A w \in Below(nx, p) : ny[w] = nx[w]
  PROVE  Below(ny, p) = Below(nx, p)
<1>. DEFINE A == Below(nx, p)
            B == Below(ny, p)
<1>1. A \in SUBSET Waiters /\ ClosedIn(nx, A) /\ p \in A \cup {Empty}
  BY BelowClosed
<1>2. B \in SUBSET Waiters /\ ClosedIn(ny, B) /\ p \in B \cup {Empty}
  BY BelowClosed
<1>3. ClosedIn(ny, A)
  BY <1>1 DEF ClosedIn
<1>4. B \subseteq A
  BY <1>1, <1>3, BelowClosed
<1>5. ClosedIn(nx, B)
  BY <1>2, <1>4 DEF ClosedIn
<1>6. A \subseteq B
  BY <1>2, <1>5, BelowClosed
<1>. QED
  BY <1>4, <1>6

\* The lists consist of parked waiters.
LEMMA BelowParked ==
  ASSUME WordInv, ListInv, NEW p \in Parked \cup {Empty}
  PROVE  Below(next, p) \in SUBSET Parked /\ p \in StackPtr
<1>1. Parked \in SUBSET Waiters /\ p \in StackPtr /\ next \in [Waiters -> Link]
  BY DEF Parked, StackPtr, WordInv, TypeOK
<1>2. ClosedIn(next, Parked)
  BY DEF ClosedIn, ListInv, LinkInv
<1>. QED
  BY <1>1, <1>2, BelowClosed

\* The stack consists of parked waiters.
LEMMA StackParked ==
  ASSUME WordInv, ListInv
  PROVE  Stack \in SUBSET Parked /\ mState.stack \in StackPtr
BY BelowParked, StackIsBelow DEF ListInv, HeadInv

\* Two lists do not meet.
LEMMA ListsDisjoint ==
  ASSUME WordInv, ListInv, NEW p \in Parked, NEW q \in Parked, IsHead(p), IsHead(q), p # q
  PROVE  Below(next, p) \cap Below(next, q) = {}
<1>. DEFINE A == Below(next, p)
            B == Below(next, q)
<1>1. /\ next \in [Waiters -> Link] /\ p \in StackPtr /\ q \in StackPtr
      /\ p # Empty /\ q # Empty
  BY ParameterAssumption DEF WordInv, TypeOK, Parked, StackPtr
<1>2. A \in SUBSET Parked /\ B \in SUBSET Parked
  BY BelowParked
<1>3. /\ A \in SUBSET Waiters /\ ClosedIn(next, A) /\ p \in A
      /\ B \in SUBSET Waiters
  BY <1>1, BelowClosed
<1>4. p \notin B
  <2>1. SUFFICES ASSUME p \in B PROVE FALSE
    OBVIOUS
  <2>2. PICK v \in B : next[v].stack = p
    BY <1>1, <2>1, BelowEntered
  <2>. QED
    BY <1>1, <1>2, <2>2 DEF ListInv, LinkInv
<1>5. ASSUME NEW v \in A \ B, next[v].stack # Empty PROVE next[v].stack \in A \ B
  <2>1. next[v].stack \in A
    BY <1>3, <1>5 DEF ClosedIn
  <2>2. SUFFICES ASSUME next[v].stack \in B PROVE FALSE
    BY <2>1
  <2>3. v \in Parked /\ ~IsHead(next[v].stack)
    BY <1>2, <1>5 DEF ListInv, LinkInv
  <2>4. PICK u \in B : next[u].stack = next[v].stack
    BY <1>1, <2>2, <2>3, BelowEntered
  <2>5. u = v
    BY <1>2, <1>5, <2>3, <2>4 DEF ListInv, LinkInv
  <2>. QED
    BY <1>5, <2>4, <2>5
<1>6. ClosedIn(next, A \ B) /\ p \in A \ B
  BY <1>3, <1>4, <1>5 DEF ClosedIn
<1>7. A \subseteq A \ B
  BY <1>1, <1>3, <1>6, BelowClosed
<1>. QED
  BY <1>7

\* The top of a list is not below its own link.
LEMMA HeadNotBelow ==
  ASSUME WordInv, ListInv, NEW p \in Parked, IsHead(p)
  PROVE  p \notin Below(next, next[p].stack)
<1>1. next \in [Waiters -> Link] /\ p \in Waiters /\ next[p].stack \in StackPtr /\ p # Empty
  BY ParameterAssumption DEF WordInv, TypeOK, Parked, Link
<1>2. next[p].stack \in Parked \cup {Empty} /\ next[p].stack # p
  BY <1>1 DEF ListInv, LinkInv
<1>3. Below(next, next[p].stack) \in SUBSET Parked
  BY <1>2, BelowParked
<1>4. SUFFICES ASSUME p \in Below(next, next[p].stack) PROVE FALSE
  OBVIOUS
<1>5. PICK v \in Below(next, next[p].stack) : next[v].stack = p
  BY <1>1, <1>2, <1>4, BelowEntered
<1>. QED
  BY <1>1, <1>3, <1>5 DEF ListInv, LinkInv

\* Every parked waiter is in a list.
LEMMA EveryoneListed ==
  ASSUME WordInv, ListInv, NEW w \in Parked
  PROVE  \E p \in Parked : IsHead(p) /\ w \in Below(next, p)
<1>. DEFINE S == {v \in Parked : ~ \E p \in Parked : IsHead(p) /\ v \in Below(next, p)}
<1>1. SUFFICES ASSUME w \in S PROVE FALSE
  OBVIOUS
<1>2. PICK x \in S : IsHead(x) \/ \E v \in Parked \ S : next[v].stack = x
  BY <1>1 DEF ListInv, Entered
<1>3. next \in [Waiters -> Link] /\ x \in Waiters /\ x \in StackPtr /\ x # Empty
  BY <1>2, ParameterAssumption DEF WordInv, TypeOK, Parked, StackPtr
<1>4. CASE IsHead(x)
  BY <1>2, <1>3, <1>4, BelowClosed
<1>5. CASE \E v \in Parked \ S : next[v].stack = x
  <2>1. PICK v \in Parked \ S : next[v].stack = x
    BY <1>5
  <2>2. PICK p \in Parked : IsHead(p) /\ v \in Below(next, p)
    BY <2>1
  <2>3. p \in StackPtr
    BY DEF Parked, StackPtr
  <2>4. ClosedIn(next, Below(next, p))
    BY <1>3, <2>3, BelowClosed
  <2>5. x \in Below(next, p)
    BY <1>3, <2>1, <2>2, <2>4 DEF ClosedIn
  <2>. QED
    BY <1>2, <2>2, <2>5
<1>. QED
  BY <1>2, <1>4, <1>5

(***************************************************************************)
(* The steps that leave the lists alone.                                   *)
(***************************************************************************)
Quiet ==
  /\ Parked' = Parked
  /\ mState'.stack = mState.stack
  /\ mState'.epoch = mState.epoch
  /\ \A w \in Parked : next'[w] = next[w]
  /\ Unparking' = Unparking
  /\ \A n \in Unparking :
       /\ target'[n] = target[n]
       /\ pc'[n] = "signal" => below'[n] = next[target[n]]
  /\ epoch' = epoch

\* Such a step keeps them, and the stack.
LEMMA QuietLists ==
  ASSUME WordInv, WordInv', ListInv, Quiet
  PROVE  HeadInv' /\ LinkInv' /\ Entered' /\ Stack' = Stack
<1>1. HeadInv'
  BY DEF ListInv, HeadInv, Quiet
<1>2. ASSUME NEW w PROVE IsHead(w)' <=> IsHead(w)
  BY DEF IsHead, Quiet
<1>3. LinkInv'
  BY <1>2 DEF ListInv, LinkInv, Quiet
<1>4. Entered'
  <2>1. ASSUME NEW S \in SUBSET Parked, S # {}
        PROVE  \E w \in S : IsHead(w)' \/ \E v \in Parked \ S : next'[v].stack = w
    <3>1. PICK w \in S : IsHead(w) \/ \E v \in Parked \ S : next[v].stack = w
      BY <2>1 DEF ListInv, Entered
    <3>. QED
      BY <1>2, <3>1 DEF Quiet
  <2>. QED
    BY <2>1 DEF Entered, Quiet
<1>5. Stack' = Stack
  <2>1. next \in [Waiters -> Link] /\ next' \in [Waiters -> Link]
    BY DEF WordInv, TypeOK
  <2>. QED
    BY <2>1, StackParked, StackIsBelow, BelowSame DEF Quiet
<1>. QED
  BY <1>1, <1>3, <1>4, <1>5

\* And it keeps the tags and the bounds if no call of Notify begins.
LEMMA QuietTags ==
  ASSUME IInv, WordInv', Quiet, Stack' = Stack, calls' = calls, Calling' \subseteq Calling
  PROVE  TagInv' /\ \A w \in Waiters : PushBound(w)'
<1>1. Stack \in SUBSET Parked /\ Stack \in SUBSET Waiters
  BY StackParked DEF IInv, Parked
<1>2. ASSUME NEW w, NEW e, Tag(w, e) PROVE Tag(w, e)'
  BY <1>2 DEF Tag, Quiet
<1>3. TagInv'
  BY <1>1, <1>2 DEF IInv, EpochInv, TagInv, Quiet
<1>4. Cardinality(Calling') <= Cardinality(Calling) /\ Cardinality(Calling') \in Nat
  BY PrewaitSize, FS_Subset, FS_CardinalityType
<1>5. ASSUME NEW w \in Waiters PROVE PushBound(w)'
  <2>1. epoch[w] \in Int /\ calls \in Int /\ Cardinality(Calling) \in Nat
    BY PrewaitSize DEF IInv, WordInv, TypeOK
  <2>2. PushBound(w)
    BY DEF IInv, EpochInv
  <2>. QED
    BY <1>4, <2>1, <2>2 DEF PushBound, Quiet
<1>. QED
  BY <1>3, <1>5

\* With a call of Notify on its way the counter has not come round.
LEMMA TagIsLast ==
  ASSUME IInv, NEW n \in Calling, mState.stack # Empty
  PROVE  /\ mState.stack \in Stack /\ mState.stack \in Waiters
         /\ mState.epoch + 1 = epoch[mState.stack]
<1>1. mState.stack \in StackPtr /\ next \in [Waiters -> Link]
  BY StackParked DEF IInv, WordInv, TypeOK
<1>2. mState.stack \in Stack /\ mState.stack \in Waiters
  BY <1>1, BelowClosed, StackIsBelow DEF StackPtr
<1>. QED
  BY <1>2 DEF IInv, EpochInv, TagInv, Tag

\* Announcing a wait touches no list.
LEMMA PrewaitKeeps ==
  ASSUME IInv, WordInv', NEW w \in Waiters, Prewait(w)
  PROVE  ListInv' /\ EpochInv' /\ Stack' = Stack
<1>. USE ParameterAssumption DEF Prewait, Goto, waiterVars, notifierVars
<1>0. TypeOK /\ WordInv /\ ListInv /\ EpochInv
  BY DEF IInv, WordInv
<1>1. mState'.stack = mState.stack /\ mState'.epoch = mState.epoch
  BY <1>0 DEF TypeOK, State
<1>2. Quiet
  <2>1. Parked' = Parked /\ Unparking' = Unparking
    BY <1>0 DEF Parked, Unparking, TypeOK, Threads, WordInv, WaiterInv, NotifierInv
  <2>2. \A v \in Parked : next'[v] = next[v]
    BY <1>0 DEF Parked, TypeOK
  <2>3. ASSUME NEW m \in Unparking
        PROVE  /\ target'[m] = target[m]
               /\ pc'[m] = "signal" => below'[m] = next[target[m]]
    BY <1>0 DEF Unparking, TypeOK, Threads, ListInv, HeadInv
  <2>. QED
    BY <1>1, <2>1, <2>2, <2>3 DEF Quiet
<1>3. HeadInv' /\ LinkInv' /\ Entered' /\ Stack' = Stack
  BY <1>0, <1>2, QuietLists
<1>4. ASSUME NEW v \in Waiters PROVE PushInv(v)'
  BY <1>0 DEF PushInv, ListInv, TypeOK, Threads
<1>5. TagInv' /\ \A v \in Waiters : PushBound(v)'
  <2>1. Calling' \subseteq Calling /\ calls' = calls
    BY <1>0 DEF Calling, TypeOK, Threads
  <2>. QED
    BY <1>2, <1>3, <2>1, QuietTags
<1>6. ASSUME NEW m \in Notifiers PROVE CopyInv(m)'
  <2>1. CopyInv(m)
    BY <1>0 DEF EpochInv
  <2>2. /\ pc'[m] = pc[m] /\ state'[m] = state[m] /\ notifyAll' = notifyAll
        /\ below' = below
    BY <1>0 DEF TypeOK, Threads
  <2>. QED
    BY <1>0, <1>2, <1>3, <2>1, <2>2, StackParked DEF CopyInv, Pops, Quiet
<1>. QED
  BY <1>3, <1>4, <1>5, <1>6 DEF ListInv, EpochInv

\* Checking the predicate touches no list.
LEMMA CheckPredicateKeeps ==
  ASSUME IInv, WordInv', NEW w \in Waiters, CheckPredicate(w)
  PROVE  ListInv' /\ EpochInv' /\ Stack' = Stack
<1>. USE ParameterAssumption DEF CheckPredicate, Goto, waiterVars, notifierVars
<1>0. TypeOK /\ WordInv /\ ListInv /\ EpochInv
  BY DEF IInv, WordInv
<1>1. mState'.stack = mState.stack /\ mState'.epoch = mState.epoch
  BY <1>0 DEF TypeOK, State
<1>2. Quiet
  <2>1. Parked' = Parked /\ Unparking' = Unparking
    BY <1>0 DEF Parked, Unparking, TypeOK, Threads, WordInv, WaiterInv, NotifierInv
  <2>2. \A v \in Parked : next'[v] = next[v]
    BY <1>0 DEF Parked, TypeOK
  <2>3. ASSUME NEW m \in Unparking
        PROVE  /\ target'[m] = target[m]
               /\ pc'[m] = "signal" => below'[m] = next[target[m]]
    BY <1>0 DEF Unparking, TypeOK, Threads, ListInv, HeadInv
  <2>. QED
    BY <1>1, <2>1, <2>2, <2>3 DEF Quiet
<1>3. HeadInv' /\ LinkInv' /\ Entered' /\ Stack' = Stack
  BY <1>0, <1>2, QuietLists
<1>4. ASSUME NEW v \in Waiters PROVE PushInv(v)'
  BY <1>0 DEF PushInv, ListInv, TypeOK, Threads
<1>5. TagInv' /\ \A v \in Waiters : PushBound(v)'
  <2>1. Calling' \subseteq Calling /\ calls' = calls
    BY <1>0 DEF Calling, TypeOK, Threads
  <2>. QED
    BY <1>2, <1>3, <2>1, QuietTags
<1>6. ASSUME NEW m \in Notifiers PROVE CopyInv(m)'
  <2>1. CopyInv(m)
    BY <1>0 DEF EpochInv
  <2>2. /\ pc'[m] = pc[m] /\ state'[m] = state[m] /\ notifyAll' = notifyAll
        /\ below' = below
    BY <1>0 DEF TypeOK, Threads
  <2>. QED
    BY <1>0, <1>2, <1>3, <2>1, <2>2, StackParked DEF CopyInv, Pops, Quiet
<1>. QED
  BY <1>3, <1>4, <1>5, <1>6 DEF ListInv, EpochInv

\* Giving up a wait touches no list.
LEMMA CancelWaitKeeps ==
  ASSUME IInv, WordInv', NEW w \in Waiters, CancelWait(w)
  PROVE  ListInv' /\ EpochInv' /\ Stack' = Stack
<1>. USE ParameterAssumption DEF CancelWait, Goto, waiterVars, notifierVars
<1>0. TypeOK /\ WordInv /\ ListInv /\ EpochInv
  BY DEF IInv, WordInv
<1>1. mState'.stack = mState.stack /\ mState'.epoch = mState.epoch
  BY <1>0, CancelledType DEF TypeOK
<1>2. Quiet
  <2>1. Parked' = Parked /\ Unparking' = Unparking
    BY <1>0 DEF Parked, Unparking, TypeOK, Threads, WordInv, WaiterInv, NotifierInv
  <2>2. \A v \in Parked : next'[v] = next[v]
    BY <1>0 DEF Parked, TypeOK
  <2>3. ASSUME NEW m \in Unparking
        PROVE  /\ target'[m] = target[m]
               /\ pc'[m] = "signal" => below'[m] = next[target[m]]
    BY <1>0 DEF Unparking, TypeOK, Threads, ListInv, HeadInv
  <2>. QED
    BY <1>1, <2>1, <2>2, <2>3 DEF Quiet
<1>3. HeadInv' /\ LinkInv' /\ Entered' /\ Stack' = Stack
  BY <1>0, <1>2, QuietLists
<1>4. ASSUME NEW v \in Waiters PROVE PushInv(v)'
  BY <1>0 DEF PushInv, ListInv, TypeOK, Threads
<1>5. TagInv' /\ \A v \in Waiters : PushBound(v)'
  <2>1. Calling' \subseteq Calling /\ calls' = calls
    BY <1>0 DEF Calling, TypeOK, Threads
  <2>. QED
    BY <1>2, <1>3, <2>1, QuietTags
<1>6. ASSUME NEW m \in Notifiers PROVE CopyInv(m)'
  <2>1. CopyInv(m)
    BY <1>0 DEF EpochInv
  <2>2. /\ pc'[m] = pc[m] /\ state'[m] = state[m] /\ notifyAll' = notifyAll
        /\ below' = below
    BY <1>0 DEF TypeOK, Threads
  <2>. QED
    BY <1>0, <1>2, <1>3, <2>1, <2>2, StackParked DEF CopyInv, Pops, Quiet
<1>. QED
  BY <1>3, <1>4, <1>5, <1>6 DEF ListInv, EpochInv

\* Taking an item touches no list.
LEMMA TakeItemKeeps ==
  ASSUME IInv, WordInv', NEW w \in Waiters, TakeItem(w)
  PROVE  ListInv' /\ EpochInv' /\ Stack' = Stack
<1>. USE ParameterAssumption DEF TakeItem, Goto, waiterVars, notifierVars
<1>0. TypeOK /\ WordInv /\ ListInv /\ EpochInv
  BY DEF IInv, WordInv
<1>1. mState'.stack = mState.stack /\ mState'.epoch = mState.epoch
  BY <1>0 DEF TypeOK, State
<1>2. Quiet
  <2>1. Parked' = Parked /\ Unparking' = Unparking
    BY <1>0 DEF Parked, Unparking, TypeOK, Threads, WordInv, WaiterInv, NotifierInv
  <2>2. \A v \in Parked : next'[v] = next[v]
    BY <1>0 DEF Parked, TypeOK
  <2>3. ASSUME NEW m \in Unparking
        PROVE  /\ target'[m] = target[m]
               /\ pc'[m] = "signal" => below'[m] = next[target[m]]
    BY <1>0 DEF Unparking, TypeOK, Threads, ListInv, HeadInv
  <2>. QED
    BY <1>1, <2>1, <2>2, <2>3 DEF Quiet
<1>3. HeadInv' /\ LinkInv' /\ Entered' /\ Stack' = Stack
  BY <1>0, <1>2, QuietLists
<1>4. ASSUME NEW v \in Waiters PROVE PushInv(v)'
  BY <1>0 DEF PushInv, ListInv, TypeOK, Threads
<1>5. TagInv' /\ \A v \in Waiters : PushBound(v)'
  <2>1. Calling' \subseteq Calling /\ calls' = calls
    BY <1>0 DEF Calling, TypeOK, Threads
  <2>. QED
    BY <1>2, <1>3, <2>1, QuietTags
<1>6. ASSUME NEW m \in Notifiers PROVE CopyInv(m)'
  <2>1. CopyInv(m)
    BY <1>0 DEF EpochInv
  <2>2. /\ pc'[m] = pc[m] /\ state'[m] = state[m] /\ notifyAll' = notifyAll
        /\ below' = below
    BY <1>0 DEF TypeOK, Threads
  <2>. QED
    BY <1>0, <1>2, <1>3, <2>1, <2>2, StackParked DEF CopyInv, Pops, Quiet
<1>. QED
  BY <1>3, <1>4, <1>5, <1>6 DEF ListInv, EpochInv

\* The link of a waiter that is not parked is in no list.
LEMMA CommitLoadKeeps ==
  ASSUME IInv, WordInv', NEW w \in Waiters, CommitLoad(w)
  PROVE  ListInv' /\ EpochInv' /\ Stack' = Stack
<1>. USE ParameterAssumption DEF CommitLoad, Goto, waiterVars, notifierVars, LoadAndLink
<1>0. TypeOK /\ WordInv /\ ListInv /\ EpochInv
  BY DEF IInv, WordInv
<1>1. mState'.stack = mState.stack /\ mState'.epoch = mState.epoch
  BY <1>0 DEF TypeOK, State
<1>2. Quiet
  <2>1. Parked' = Parked /\ Unparking' = Unparking
    BY <1>0 DEF Parked, Unparking, TypeOK, Threads, WordInv, WaiterInv, NotifierInv
  <2>2. \A v \in Parked : next'[v] = next[v]
    BY <1>0 DEF Parked, TypeOK
  <2>3. ASSUME NEW m \in Unparking
        PROVE  /\ target'[m] = target[m]
               /\ pc'[m] = "signal" => below'[m] = next[target[m]]
    BY <1>0 DEF Unparking, TypeOK, Threads, ListInv, HeadInv
  <2>. QED
    BY <1>1, <2>1, <2>2, <2>3 DEF Quiet
<1>3. HeadInv' /\ LinkInv' /\ Entered' /\ Stack' = Stack
  BY <1>0, <1>2, QuietLists
<1>4. ASSUME NEW v \in Waiters PROVE PushInv(v)'
  BY <1>0 DEF PushInv, ListInv, TypeOK, Threads
<1>5. TagInv' /\ \A v \in Waiters : PushBound(v)'
  <2>1. Calling' \subseteq Calling /\ calls' = calls
    BY <1>0 DEF Calling, TypeOK, Threads
  <2>. QED
    BY <1>2, <1>3, <2>1, QuietTags
<1>6. ASSUME NEW m \in Notifiers PROVE CopyInv(m)'
  <2>1. CopyInv(m)
    BY <1>0 DEF EpochInv
  <2>2. /\ pc'[m] = pc[m] /\ state'[m] = state[m] /\ notifyAll' = notifyAll
        /\ below' = below
    BY <1>0 DEF TypeOK, Threads
  <2>. QED
    BY <1>0, <1>2, <1>3, <2>1, <2>2, StackParked DEF CopyInv, Pops, Quiet
<1>. QED
  BY <1>3, <1>4, <1>5, <1>6 DEF ListInv, EpochInv

\* The link of a waiter that is not parked is in no list.
LEMMA CommitRetryKeeps ==
  ASSUME IInv, WordInv', NEW w \in Waiters, CommitRetry(w)
  PROVE  ListInv' /\ EpochInv' /\ Stack' = Stack
<1>. USE ParameterAssumption DEF CommitRetry, Goto, waiterVars, notifierVars, LoadAndLink
<1>0. TypeOK /\ WordInv /\ ListInv /\ EpochInv
  BY DEF IInv, WordInv
<1>1. mState'.stack = mState.stack /\ mState'.epoch = mState.epoch
  BY <1>0 DEF TypeOK, State
<1>2. Quiet
  <2>1. Parked' = Parked /\ Unparking' = Unparking
    BY <1>0 DEF Parked, Unparking, TypeOK, Threads, WordInv, WaiterInv, NotifierInv
  <2>2. \A v \in Parked : next'[v] = next[v]
    BY <1>0 DEF Parked, TypeOK
  <2>3. ASSUME NEW m \in Unparking
        PROVE  /\ target'[m] = target[m]
               /\ pc'[m] = "signal" => below'[m] = next[target[m]]
    BY <1>0 DEF Unparking, TypeOK, Threads, ListInv, HeadInv
  <2>. QED
    BY <1>1, <2>1, <2>2, <2>3 DEF Quiet
<1>3. HeadInv' /\ LinkInv' /\ Entered' /\ Stack' = Stack
  BY <1>0, <1>2, QuietLists
<1>4. ASSUME NEW v \in Waiters PROVE PushInv(v)'
  BY <1>0 DEF PushInv, ListInv, TypeOK, Threads
<1>5. TagInv' /\ \A v \in Waiters : PushBound(v)'
  <2>1. Calling' \subseteq Calling /\ calls' = calls
    BY <1>0 DEF Calling, TypeOK, Threads
  <2>. QED
    BY <1>2, <1>3, <2>1, QuietTags
<1>6. ASSUME NEW m \in Notifiers PROVE CopyInv(m)'
  <2>1. CopyInv(m)
    BY <1>0 DEF EpochInv
  <2>2. /\ pc'[m] = pc[m] /\ state'[m] = state[m] /\ notifyAll' = notifyAll
        /\ below' = below
    BY <1>0 DEF TypeOK, Threads
  <2>. QED
    BY <1>0, <1>2, <1>3, <2>1, <2>2, StackParked DEF CopyInv, Pops, Quiet
<1>. QED
  BY <1>3, <1>4, <1>5, <1>6 DEF ListInv, EpochInv

\* A waiter that consumes a signal was in no list.
LEMMA CommitConsumeKeeps ==
  ASSUME IInv, WordInv', NEW w \in Waiters, CommitConsume(w)
  PROVE  ListInv' /\ EpochInv' /\ Stack' = Stack
<1>. USE ParameterAssumption
     DEF CommitConsume, Goto, waiterVars, notifierVars, Forget, Succeeds
<1>0. TypeOK /\ WordInv /\ ListInv /\ EpochInv
  BY DEF IInv, WordInv
<1>1. mState'.stack = mState.stack /\ mState'.epoch = mState.epoch
  BY <1>0, ConsumedType DEF TypeOK
<1>2. Quiet
  <2>1. Parked' = Parked /\ Unparking' = Unparking
    BY <1>0 DEF Parked, Unparking, TypeOK, Threads, WordInv, WaiterInv, NotifierInv
  <2>2. \A v \in Parked : next'[v] = next[v]
    BY <1>0 DEF Parked, TypeOK
  <2>3. ASSUME NEW m \in Unparking
        PROVE  /\ target'[m] = target[m]
               /\ pc'[m] = "signal" => below'[m] = next[target[m]]
    BY <1>0 DEF Unparking, TypeOK, Threads, ListInv, HeadInv
  <2>. QED
    BY <1>1, <2>1, <2>2, <2>3 DEF Quiet
<1>3. HeadInv' /\ LinkInv' /\ Entered' /\ Stack' = Stack
  BY <1>0, <1>2, QuietLists
<1>4. ASSUME NEW v \in Waiters PROVE PushInv(v)'
  BY <1>0 DEF PushInv, ListInv, TypeOK, Threads
<1>5. TagInv' /\ \A v \in Waiters : PushBound(v)'
  <2>1. Calling' \subseteq Calling /\ calls' = calls
    BY <1>0 DEF Calling, TypeOK, Threads
  <2>. QED
    BY <1>2, <1>3, <2>1, QuietTags
<1>6. ASSUME NEW m \in Notifiers PROVE CopyInv(m)'
  <2>1. CopyInv(m)
    BY <1>0 DEF EpochInv
  <2>2. /\ pc'[m] = pc[m] /\ state'[m] = state[m] /\ notifyAll' = notifyAll
        /\ below' = below
    BY <1>0 DEF TypeOK, Threads
  <2>. QED
    BY <1>0, <1>2, <1>3, <2>1, <2>2, StackParked DEF CopyInv, Pops, Quiet
<1>. QED
  BY <1>3, <1>4, <1>5, <1>6 DEF ListInv, EpochInv

\* A waiter leaves Park only after it was signaled.
LEMMA ParkKeeps ==
  ASSUME IInv, WordInv', NEW w \in Waiters, Park(w)
  PROVE  ListInv' /\ EpochInv' /\ Stack' = Stack
<1>. USE ParameterAssumption DEF Park, Goto, waiterVars, notifierVars
<1>0. TypeOK /\ WordInv /\ ListInv /\ EpochInv
  BY DEF IInv, WordInv
<1>1. mState'.stack = mState.stack /\ mState'.epoch = mState.epoch
  BY <1>0 DEF TypeOK, State
<1>2. Quiet
  <2>1. Parked' = Parked /\ Unparking' = Unparking
    BY <1>0 DEF Parked, Unparking, TypeOK, Threads, WordInv, WaiterInv, NotifierInv
  <2>2. \A v \in Parked : next'[v] = next[v]
    BY <1>0 DEF Parked, TypeOK
  <2>3. ASSUME NEW m \in Unparking
        PROVE  /\ target'[m] = target[m]
               /\ pc'[m] = "signal" => below'[m] = next[target[m]]
    BY <1>0 DEF Unparking, TypeOK, Threads, ListInv, HeadInv
  <2>. QED
    BY <1>1, <2>1, <2>2, <2>3 DEF Quiet
<1>3. HeadInv' /\ LinkInv' /\ Entered' /\ Stack' = Stack
  BY <1>0, <1>2, QuietLists
<1>4. ASSUME NEW v \in Waiters PROVE PushInv(v)'
  BY <1>0 DEF PushInv, ListInv, TypeOK, Threads
<1>5. TagInv' /\ \A v \in Waiters : PushBound(v)'
  <2>1. Calling' \subseteq Calling /\ calls' = calls
    BY <1>0 DEF Calling, TypeOK, Threads
  <2>. QED
    BY <1>2, <1>3, <2>1, QuietTags
<1>6. ASSUME NEW m \in Notifiers PROVE CopyInv(m)'
  <2>1. CopyInv(m)
    BY <1>0 DEF EpochInv
  <2>2. /\ pc'[m] = pc[m] /\ state'[m] = state[m] /\ notifyAll' = notifyAll
        /\ below' = below
    BY <1>0 DEF TypeOK, Threads
  <2>. QED
    BY <1>0, <1>2, <1>3, <2>1, <2>2, StackParked DEF CopyInv, Pops, Quiet
<1>. QED
  BY <1>3, <1>4, <1>5, <1>6 DEF ListInv, EpochInv

\* A waiter that wakes up by itself stays in its list.
LEMMA SpuriousWakeupKeeps ==
  ASSUME IInv, WordInv', NEW w \in Waiters, SpuriousWakeup(w)
  PROVE  ListInv' /\ EpochInv' /\ Stack' = Stack
<1>. USE ParameterAssumption DEF SpuriousWakeup, Goto, waiterVars, notifierVars
<1>0. TypeOK /\ WordInv /\ ListInv /\ EpochInv
  BY DEF IInv, WordInv
<1>1. mState'.stack = mState.stack /\ mState'.epoch = mState.epoch
  BY <1>0 DEF TypeOK, State
<1>2. Quiet
  <2>1. Parked' = Parked /\ Unparking' = Unparking
    BY <1>0 DEF Parked, Unparking, TypeOK, Threads, WordInv, WaiterInv, NotifierInv
  <2>2. \A v \in Parked : next'[v] = next[v]
    BY <1>0 DEF Parked, TypeOK
  <2>3. ASSUME NEW m \in Unparking
        PROVE  /\ target'[m] = target[m]
               /\ pc'[m] = "signal" => below'[m] = next[target[m]]
    BY <1>0 DEF Unparking, TypeOK, Threads, ListInv, HeadInv
  <2>. QED
    BY <1>1, <2>1, <2>2, <2>3 DEF Quiet
<1>3. HeadInv' /\ LinkInv' /\ Entered' /\ Stack' = Stack
  BY <1>0, <1>2, QuietLists
<1>4. ASSUME NEW v \in Waiters PROVE PushInv(v)'
  BY <1>0 DEF PushInv, ListInv, TypeOK, Threads
<1>5. TagInv' /\ \A v \in Waiters : PushBound(v)'
  <2>1. Calling' \subseteq Calling /\ calls' = calls
    BY <1>0 DEF Calling, TypeOK, Threads
  <2>. QED
    BY <1>2, <1>3, <2>1, QuietTags
<1>6. ASSUME NEW m \in Notifiers PROVE CopyInv(m)'
  <2>1. CopyInv(m)
    BY <1>0 DEF EpochInv
  <2>2. /\ pc'[m] = pc[m] /\ state'[m] = state[m] /\ notifyAll' = notifyAll
        /\ below' = below
    BY <1>0 DEF TypeOK, Threads
  <2>. QED
    BY <1>0, <1>2, <1>3, <2>1, <2>2, StackParked DEF CopyInv, Pops, Quiet
<1>. QED
  BY <1>3, <1>4, <1>5, <1>6 DEF ListInv, EpochInv

\* A new call of Notify raises the bound on pushes.
LEMMA AddItemKeeps ==
  ASSUME IInv, WordInv', NEW n \in Notifiers, NEW all \in BOOLEAN, AddItem(n, all)
  PROVE  ListInv' /\ EpochInv' /\ Stack' = Stack
<1>. USE ParameterAssumption DEF AddItem, Goto, waiterVars, notifierVars
<1>0. TypeOK /\ WordInv /\ ListInv /\ EpochInv
  BY DEF IInv, WordInv
<1>1. mState'.stack = mState.stack /\ mState'.epoch = mState.epoch
  BY <1>0 DEF TypeOK, State
<1>2. Quiet
  <2>1. Parked' = Parked /\ Unparking' = Unparking
    BY <1>0 DEF Parked, Unparking, TypeOK, Threads, WordInv, WaiterInv, NotifierInv
  <2>2. \A v \in Parked : next'[v] = next[v]
    BY <1>0 DEF Parked, TypeOK
  <2>3. ASSUME NEW m \in Unparking
        PROVE  /\ target'[m] = target[m]
               /\ pc'[m] = "signal" => below'[m] = next[target[m]]
    BY <1>0 DEF Unparking, TypeOK, Threads, ListInv, HeadInv
  <2>. QED
    BY <1>1, <2>1, <2>2, <2>3 DEF Quiet
<1>3. HeadInv' /\ LinkInv' /\ Entered' /\ Stack' = Stack
  BY <1>0, <1>2, QuietLists
<1>4. ASSUME NEW v \in Waiters PROVE PushInv(v)'
  BY <1>0 DEF PushInv, ListInv, TypeOK, Threads
<1>5. TagInv' /\ \A v \in Waiters : PushBound(v)'
  <2>1. Calling' = Calling \cup {n} /\ n \notin Calling
    BY <1>0 DEF Calling, TypeOK, Threads
  <2>2. Cardinality(Calling') = Cardinality(Calling) + 1 /\ Cardinality(Calling) \in Nat
    BY <2>1, PrewaitSize, FS_AddElement
  <2>3. ASSUME NEW v, NEW e, Tag(v, e) PROVE Tag(v, e)'
    BY <1>0, <2>3 DEF Tag, TypeOK
  <2>4. TagInv'
    BY <1>0, <1>2, <1>3, <2>3, StackParked DEF EpochInv, TagInv, Quiet
  <2>5. ASSUME NEW v \in Waiters PROVE PushBound(v)'
    BY <1>0, <1>3, <2>2 DEF EpochInv, PushBound, TypeOK
  <2>. QED
    BY <2>4, <2>5
<1>6. ASSUME NEW m \in Notifiers PROVE CopyInv(m)'
  <2>1. CopyInv(m)
    BY <1>0 DEF EpochInv
  <2>2. CASE m # n
    <3>1. /\ pc'[m] = pc[m] /\ state'[m] = state[m]
          /\ notifyAll'[m] = notifyAll[m] /\ below'[m] = below[m]
      BY <1>0, <2>2 DEF TypeOK, Threads
    <3>. QED
      BY <1>0, <1>2, <1>3, <2>1, <3>1, StackParked DEF CopyInv, Pops, Quiet
  <2>3. CASE m = n
    BY <1>0, <2>3 DEF CopyInv, TypeOK, Threads
  <2>. QED
    BY <2>2, <2>3
<1>. QED
  BY <1>3, <1>4, <1>5, <1>6 DEF ListInv, EpochInv

\* The copy of a notifier has the last tag of its top node.
LEMMA NotifyLoadKeeps ==
  ASSUME IInv, WordInv', NEW n \in Notifiers, NotifyLoad(n)
  PROVE  ListInv' /\ EpochInv' /\ Stack' = Stack
<1>. USE ParameterAssumption DEF NotifyLoad, Goto, waiterVars, notifierVars
<1>0. TypeOK /\ WordInv /\ ListInv /\ EpochInv
  BY DEF IInv, WordInv
<1>1. mState'.stack = mState.stack /\ mState'.epoch = mState.epoch
  BY <1>0 DEF TypeOK, State
<1>2. Quiet
  <2>1. Parked' = Parked /\ Unparking' = Unparking
    BY <1>0 DEF Parked, Unparking, TypeOK, Threads, WordInv, WaiterInv, NotifierInv
  <2>2. \A v \in Parked : next'[v] = next[v]
    BY <1>0 DEF Parked, TypeOK
  <2>3. ASSUME NEW m \in Unparking
        PROVE  /\ target'[m] = target[m]
               /\ pc'[m] = "signal" => below'[m] = next[target[m]]
    BY <1>0 DEF Unparking, TypeOK, Threads, ListInv, HeadInv
  <2>. QED
    BY <1>1, <2>1, <2>2, <2>3 DEF Quiet
<1>3. HeadInv' /\ LinkInv' /\ Entered' /\ Stack' = Stack
  BY <1>0, <1>2, QuietLists
<1>4. ASSUME NEW v \in Waiters PROVE PushInv(v)'
  BY <1>0 DEF PushInv, ListInv, TypeOK, Threads
<1>5. TagInv' /\ \A v \in Waiters : PushBound(v)'
  <2>1. Calling' \subseteq Calling /\ calls' = calls
    BY <1>0 DEF Calling, TypeOK, Threads
  <2>. QED
    BY <1>2, <1>3, <2>1, QuietTags
<1>6. ASSUME NEW m \in Notifiers PROVE CopyInv(m)'
  <2>1. CopyInv(m)
    BY <1>0 DEF EpochInv
  <2>2. CASE m # n
    <3>1. /\ pc'[m] = pc[m] /\ state'[m] = state[m]
          /\ notifyAll'[m] = notifyAll[m] /\ below'[m] = below[m]
      BY <1>0, <2>2 DEF TypeOK, Threads
    <3>. QED
      BY <1>0, <1>2, <1>3, <2>1, <3>1, StackParked DEF CopyInv, Pops, Quiet
  <2>3. CASE m = n
    <3>1. n \in Calling /\ pc'[n] = "notify" /\ state'[n] = mState
      BY <1>0 DEF Calling, TypeOK, Threads
    <3>2. mState.stack # Empty => mState.epoch < epoch[mState.stack]
      BY <1>0, <3>1, TagIsLast DEF TypeOK, State
    <3>. QED
      BY <1>2, <2>3, <3>1, <3>2 DEF CopyInv, Quiet
  <2>. QED
    BY <2>2, <2>3
<1>. QED
  BY <1>3, <1>4, <1>5, <1>6 DEF ListInv, EpochInv

\* Notify with nobody waiting touches no list.
LEMMA NotifyNobodyKeeps ==
  ASSUME IInv, WordInv', NEW n \in Notifiers, NotifyNobody(n)
  PROVE  ListInv' /\ EpochInv' /\ Stack' = Stack
<1>. USE ParameterAssumption
     DEF NotifyNobody, Goto, waiterVars, notifierVars, Return, Forget
<1>0. TypeOK /\ WordInv /\ ListInv /\ EpochInv
  BY DEF IInv, WordInv
<1>1. mState'.stack = mState.stack /\ mState'.epoch = mState.epoch
  BY <1>0 DEF TypeOK, State
<1>2. Quiet
  <2>1. Parked' = Parked /\ Unparking' = Unparking
    BY <1>0 DEF Parked, Unparking, TypeOK, Threads, WordInv, WaiterInv, NotifierInv
  <2>2. \A v \in Parked : next'[v] = next[v]
    BY <1>0 DEF Parked, TypeOK
  <2>3. ASSUME NEW m \in Unparking
        PROVE  /\ target'[m] = target[m]
               /\ pc'[m] = "signal" => below'[m] = next[target[m]]
    BY <1>0 DEF Unparking, TypeOK, Threads, ListInv, HeadInv
  <2>. QED
    BY <1>1, <2>1, <2>2, <2>3 DEF Quiet
<1>3. HeadInv' /\ LinkInv' /\ Entered' /\ Stack' = Stack
  BY <1>0, <1>2, QuietLists
<1>4. ASSUME NEW v \in Waiters PROVE PushInv(v)'
  BY <1>0 DEF PushInv, ListInv, TypeOK, Threads
<1>5. TagInv' /\ \A v \in Waiters : PushBound(v)'
  <2>1. Calling' \subseteq Calling /\ calls' = calls
    BY <1>0 DEF Calling, TypeOK, Threads
  <2>. QED
    BY <1>2, <1>3, <2>1, QuietTags
<1>6. ASSUME NEW m \in Notifiers PROVE CopyInv(m)'
  <2>1. CopyInv(m)
    BY <1>0 DEF EpochInv
  <2>2. CASE m # n
    <3>1. /\ pc'[m] = pc[m] /\ state'[m] = state[m]
          /\ notifyAll'[m] = notifyAll[m] /\ below'[m] = below[m]
      BY <1>0, <2>2 DEF TypeOK, Threads
    <3>. QED
      BY <1>0, <1>2, <1>3, <2>1, <3>1, StackParked DEF CopyInv, Pops, Quiet
  <2>3. CASE m = n
    BY <1>0, <2>3 DEF CopyInv, TypeOK, Threads
  <2>. QED
    BY <2>2, <2>3
<1>. QED
  BY <1>3, <1>4, <1>5, <1>6 DEF ListInv, EpochInv

\* The link read below the top node goes with the copy.
LEMMA NotifyPrepareKeeps ==
  ASSUME IInv, WordInv', NEW n \in Notifiers, NotifyPrepare(n)
  PROVE  ListInv' /\ EpochInv' /\ Stack' = Stack
<1>. USE ParameterAssumption DEF NotifyPrepare, Goto, waiterVars, notifierVars
<1>0. TypeOK /\ WordInv /\ ListInv /\ EpochInv
  BY DEF IInv, WordInv
<1>1. mState'.stack = mState.stack /\ mState'.epoch = mState.epoch
  BY <1>0 DEF TypeOK, State
<1>2. Quiet
  <2>1. Parked' = Parked /\ Unparking' = Unparking
    BY <1>0 DEF Parked, Unparking, TypeOK, Threads, WordInv, WaiterInv, NotifierInv
  <2>2. \A v \in Parked : next'[v] = next[v]
    BY <1>0 DEF Parked, TypeOK
  <2>3. ASSUME NEW m \in Unparking
        PROVE  /\ target'[m] = target[m]
               /\ pc'[m] = "signal" => below'[m] = next[target[m]]
    BY <1>0 DEF Unparking, TypeOK, Threads, ListInv, HeadInv
  <2>. QED
    BY <1>1, <2>1, <2>2, <2>3 DEF Quiet
<1>3. HeadInv' /\ LinkInv' /\ Entered' /\ Stack' = Stack
  BY <1>0, <1>2, QuietLists
<1>4. ASSUME NEW v \in Waiters PROVE PushInv(v)'
  BY <1>0 DEF PushInv, ListInv, TypeOK, Threads
<1>5. TagInv' /\ \A v \in Waiters : PushBound(v)'
  <2>1. Calling' \subseteq Calling /\ calls' = calls
    BY <1>0 DEF Calling, TypeOK, Threads
  <2>. QED
    BY <1>2, <1>3, <2>1, QuietTags
<1>6. ASSUME NEW m \in Notifiers PROVE CopyInv(m)'
  <2>1. CopyInv(m)
    BY <1>0 DEF EpochInv
  <2>2. CASE m # n
    <3>1. /\ pc'[m] = pc[m] /\ state'[m] = state[m]
          /\ notifyAll'[m] = notifyAll[m] /\ below'[m] = below[m]
      BY <1>0, <2>2 DEF TypeOK, Threads
    <3>. QED
      BY <1>0, <1>2, <1>3, <2>1, <3>1, StackParked DEF CopyInv, Pops, Quiet
  <2>3. CASE m = n
    <3>1. /\ pc'[n] = "notifyCas" /\ state' = state /\ next' = next
          /\ notifyAll' = notifyAll
          /\ Pops(n) => below'[n] = next[state[n].stack]
      BY <1>0 DEF TypeOK, Threads
    <3>. QED
      BY <1>2, <2>1, <2>3, <3>1 DEF CopyInv, Pops, Quiet
  <2>. QED
    BY <2>2, <2>3
<1>. QED
  BY <1>3, <1>4, <1>5, <1>6 DEF ListInv, EpochInv

\* The copy of a notifier has the last tag of its top node.
LEMMA NotifyRetryKeeps ==
  ASSUME IInv, WordInv', NEW n \in Notifiers, NotifyRetry(n)
  PROVE  ListInv' /\ EpochInv' /\ Stack' = Stack
<1>. USE ParameterAssumption DEF NotifyRetry, Goto, waiterVars, notifierVars
<1>0. TypeOK /\ WordInv /\ ListInv /\ EpochInv
  BY DEF IInv, WordInv
<1>1. mState'.stack = mState.stack /\ mState'.epoch = mState.epoch
  BY <1>0 DEF TypeOK, State
<1>2. Quiet
  <2>1. Parked' = Parked /\ Unparking' = Unparking
    BY <1>0 DEF Parked, Unparking, TypeOK, Threads, WordInv, WaiterInv, NotifierInv
  <2>2. \A v \in Parked : next'[v] = next[v]
    BY <1>0 DEF Parked, TypeOK
  <2>3. ASSUME NEW m \in Unparking
        PROVE  /\ target'[m] = target[m]
               /\ pc'[m] = "signal" => below'[m] = next[target[m]]
    BY <1>0 DEF Unparking, TypeOK, Threads, ListInv, HeadInv
  <2>. QED
    BY <1>1, <2>1, <2>2, <2>3 DEF Quiet
<1>3. HeadInv' /\ LinkInv' /\ Entered' /\ Stack' = Stack
  BY <1>0, <1>2, QuietLists
<1>4. ASSUME NEW v \in Waiters PROVE PushInv(v)'
  BY <1>0 DEF PushInv, ListInv, TypeOK, Threads
<1>5. TagInv' /\ \A v \in Waiters : PushBound(v)'
  <2>1. Calling' \subseteq Calling /\ calls' = calls
    BY <1>0 DEF Calling, TypeOK, Threads
  <2>. QED
    BY <1>2, <1>3, <2>1, QuietTags
<1>6. ASSUME NEW m \in Notifiers PROVE CopyInv(m)'
  <2>1. CopyInv(m)
    BY <1>0 DEF EpochInv
  <2>2. CASE m # n
    <3>1. /\ pc'[m] = pc[m] /\ state'[m] = state[m]
          /\ notifyAll'[m] = notifyAll[m] /\ below'[m] = below[m]
      BY <1>0, <2>2 DEF TypeOK, Threads
    <3>. QED
      BY <1>0, <1>2, <1>3, <2>1, <3>1, StackParked DEF CopyInv, Pops, Quiet
  <2>3. CASE m = n
    <3>1. n \in Calling /\ pc'[n] = "notify" /\ state'[n] = mState
      BY <1>0 DEF Calling, TypeOK, Threads
    <3>2. mState.stack # Empty => mState.epoch < epoch[mState.stack]
      BY <1>0, <3>1, TagIsLast DEF TypeOK, State
    <3>. QED
      BY <1>2, <2>3, <3>1, <3>2 DEF CopyInv, Quiet
  <2>. QED
    BY <2>2, <2>3
<1>. QED
  BY <1>3, <1>4, <1>5, <1>6 DEF ListInv, EpochInv

\* Signaling threads in pre-wait touches no list.
LEMMA NotifyPrewaitersKeeps ==
  ASSUME IInv, WordInv', NEW n \in Notifiers, NotifyPrewaiters(n)
  PROVE  ListInv' /\ EpochInv' /\ Stack' = Stack
<1>. USE ParameterAssumption
     DEF NotifyPrewaiters, Goto, waiterVars, notifierVars, Return, Forget, Succeeds
<1>0. TypeOK /\ WordInv /\ ListInv /\ EpochInv
  BY DEF IInv, WordInv
<1>1. mState'.stack = mState.stack /\ mState'.epoch = mState.epoch
  <2>1. /\ mState \in State /\ GoodWord(mState)
        /\ ~NobodyWaits(mState)
    BY <1>0 DEF TypeOK, WordInv, NotifierInv
  <2>2. CASE notifyAll[n]
    BY <2>1, <2>2, SignalAllType DEF Notified, GoodWord, HasUnsignaled
  <2>3. CASE ~notifyAll[n]
    <3>1. HasUnsignaled(mState)
      BY <2>1, <2>3 DEF GoodWord, HasUnsignaled, NobodyWaits, State
    <3>. QED
      BY <2>1, <2>3, <3>1, SignalOneType DEF Notified
  <2>. QED
    BY <2>2, <2>3
<1>2. Quiet
  <2>1. Parked' = Parked /\ Unparking' = Unparking
    BY <1>0 DEF Parked, Unparking, TypeOK, Threads, WordInv, WaiterInv, NotifierInv
  <2>2. \A v \in Parked : next'[v] = next[v]
    BY <1>0 DEF Parked, TypeOK
  <2>3. ASSUME NEW m \in Unparking
        PROVE  /\ target'[m] = target[m]
               /\ pc'[m] = "signal" => below'[m] = next[target[m]]
    BY <1>0 DEF Unparking, TypeOK, Threads, ListInv, HeadInv
  <2>. QED
    BY <1>1, <2>1, <2>2, <2>3 DEF Quiet
<1>3. HeadInv' /\ LinkInv' /\ Entered' /\ Stack' = Stack
  BY <1>0, <1>2, QuietLists
<1>4. ASSUME NEW v \in Waiters PROVE PushInv(v)'
  BY <1>0 DEF PushInv, ListInv, TypeOK, Threads
<1>5. TagInv' /\ \A v \in Waiters : PushBound(v)'
  <2>1. Calling' \subseteq Calling /\ calls' = calls
    BY <1>0 DEF Calling, TypeOK, Threads
  <2>. QED
    BY <1>2, <1>3, <2>1, QuietTags
<1>6. ASSUME NEW m \in Notifiers PROVE CopyInv(m)'
  <2>1. CopyInv(m)
    BY <1>0 DEF EpochInv
  <2>2. CASE m # n
    <3>1. /\ pc'[m] = pc[m] /\ state'[m] = state[m]
          /\ notifyAll'[m] = notifyAll[m] /\ below'[m] = below[m]
      BY <1>0, <2>2 DEF TypeOK, Threads
    <3>. HIDE DEF NotifyPrewaiters, Return
    <3>. QED
      BY <1>0, <1>2, <1>3, <2>1, <3>1, StackParked DEF CopyInv, Pops, Quiet
  <2>3. CASE m = n
    BY <1>0, <2>3 DEF CopyInv, TypeOK, Threads
  <2>. QED
    BY <2>2, <2>3
<1>. QED
  BY <1>3, <1>4, <1>5, <1>6 DEF ListInv, EpochInv

\* Unpark reads the link of a node that is still parked.
LEMMA UnparkReadNextKeeps ==
  ASSUME IInv, WordInv', NEW n \in Notifiers, UnparkReadNext(n)
  PROVE  ListInv' /\ EpochInv' /\ Stack' = Stack
<1>. USE ParameterAssumption DEF UnparkReadNext, Goto, waiterVars, notifierVars
<1>0. TypeOK /\ WordInv /\ ListInv /\ EpochInv
  BY DEF IInv, WordInv
<1>1. mState'.stack = mState.stack /\ mState'.epoch = mState.epoch
  BY <1>0 DEF TypeOK, State
<1>2. Quiet
  <2>1. Parked' = Parked /\ Unparking' = Unparking
    BY <1>0 DEF Parked, Unparking, TypeOK, Threads, WordInv, WaiterInv, NotifierInv
  <2>2. \A v \in Parked : next'[v] = next[v]
    BY <1>0 DEF Parked, TypeOK
  <2>3. ASSUME NEW m \in Unparking
        PROVE  /\ target'[m] = target[m]
               /\ pc'[m] = "signal" => below'[m] = next[target[m]]
    BY <1>0 DEF Unparking, TypeOK, Threads, ListInv, HeadInv
  <2>. QED
    BY <1>1, <2>1, <2>2, <2>3 DEF Quiet
<1>3. HeadInv' /\ LinkInv' /\ Entered' /\ Stack' = Stack
  BY <1>0, <1>2, QuietLists
<1>4. ASSUME NEW v \in Waiters PROVE PushInv(v)'
  BY <1>0 DEF PushInv, ListInv, TypeOK, Threads
<1>5. TagInv' /\ \A v \in Waiters : PushBound(v)'
  <2>1. Calling' \subseteq Calling /\ calls' = calls
    BY <1>0 DEF Calling, TypeOK, Threads
  <2>. QED
    BY <1>2, <1>3, <2>1, QuietTags
<1>6. ASSUME NEW m \in Notifiers PROVE CopyInv(m)'
  <2>1. CopyInv(m)
    BY <1>0 DEF EpochInv
  <2>2. CASE m # n
    <3>1. /\ pc'[m] = pc[m] /\ state'[m] = state[m]
          /\ notifyAll'[m] = notifyAll[m] /\ below'[m] = below[m]
      BY <1>0, <2>2 DEF TypeOK, Threads
    <3>. QED
      BY <1>0, <1>2, <1>3, <2>1, <3>1, StackParked DEF CopyInv, Pops, Quiet
  <2>3. CASE m = n
    BY <1>0, <2>3 DEF CopyInv, TypeOK, Threads
  <2>. QED
    BY <2>2, <2>3
<1>. QED
  BY <1>3, <1>4, <1>5, <1>6 DEF ListInv, EpochInv

\* A waiter that pushes itself becomes the head of the stack, with a tag that no
\* notifier at work has seen.
LEMMA CommitPushKeeps ==
  ASSUME NoWrap, IInv, WordInv', NEW w \in Waiters, CommitPush(w)
  PROVE  ListInv' /\ EpochInv' /\ Stack' = {w} \cup Stack
<1>1. WordInv /\ ListInv /\ EpochInv /\ TypeOK
  BY DEF IInv, WordInv
<1>2. /\ mState'.stack = w /\ mState'.epoch = epoch[w]
      /\ next' = next /\ signal' = signal /\ calls' = calls
      /\ target' = target /\ below' = below /\ notifyAll' = notifyAll
      /\ epoch' = [epoch EXCEPT ![w] = NextEpoch(w)]
  BY DEF CommitPush, Pushed, notifierVars
<1>3. /\ \A n \in Notifiers : pc'[n] = pc[n] /\ state'[n] = state[n]
      /\ \A v \in Waiters : v # w => pc'[v] = pc[v] /\ state'[v] = state[v]
      /\ pc[w] = "commitCas" /\ pc'[w] = "park"
  BY <1>1, ParameterAssumption DEF CommitPush, Goto, Forget, TypeOK, Threads
<1>4. /\ signal[w] # "kSignaled"
      /\ next[w].stack = mState.stack /\ next[w].epoch = mState.epoch
  BY <1>1, <1>3, LinkOfType DEF ListInv, PushInv, CommitPush, Succeeds, TypeOK
<1>5. /\ Parked' = Parked \cup {w} /\ w \notin Parked
      /\ Unparking' = Unparking /\ Calling' = Calling
  BY <1>2, <1>3, <1>4 DEF Parked, Unparking, Calling
<1>6. w # Empty /\ next \in [Waiters -> Link]
  BY <1>1, ParameterAssumption DEF TypeOK
<1>7. ASSUME NEW v PROVE IsHead(v)' <=> v = w \/ \E n \in Unparking : v = target[n]
  BY <1>2, <1>5 DEF IsHead
<1>8. HeadInv'
  BY <1>1, <1>2, <1>3, <1>5 DEF ListInv, HeadInv, Unparking
<1>9. LinkInv'
  <2>1. ASSUME NEW v \in Parked \cup {w}, next[v].stack # Empty
        PROVE  next[v].stack \in Parked /\ ~IsHead(next[v].stack)'
    BY <1>1, <1>2, <1>4, <1>5, <1>7, <2>1 DEF ListInv, HeadInv, LinkInv, IsHead
  <2>2. ASSUME NEW u \in Parked \cup {w}, NEW v \in Parked \cup {w},
               next[u].stack = next[v].stack, next[u].stack # Empty
        PROVE  u = v
    BY <1>1, <1>4, <2>2 DEF ListInv, LinkInv, IsHead
  <2>. QED
    BY <1>2, <1>5, <2>1, <2>2 DEF LinkInv
<1>10. Entered'
  <2>1. ASSUME NEW S \in SUBSET (Parked \cup {w}), S # {}
        PROVE  \E x \in S : IsHead(x)' \/ \E v \in (Parked \cup {w}) \ S : next[v].stack = x
    <3>1. CASE w \in S
      BY <1>7, <3>1
    <3>2. CASE w \notin S
      <4>1. PICK x \in S : IsHead(x) \/ \E v \in Parked \ S : next[v].stack = x
        BY <1>1, <2>1, <3>2 DEF ListInv, Entered
      <4>. QED
        BY <1>4, <1>7, <3>2, <4>1 DEF IsHead
    <3>. QED
      BY <3>1, <3>2
  <2>. QED
    BY <1>2, <1>5, <2>1 DEF Entered
<1>11. ASSUME NEW v \in Waiters PROVE PushInv(v)'
  BY <1>1, <1>2, <1>3 DEF ListInv, PushInv
<1>12. Stack' = {w} \cup Stack /\ w \notin Stack /\ Stack \in SUBSET Parked
  BY <1>1, <1>2, <1>4, <1>5, <1>6, BelowStep, StackIsBelow, StackParked
<1>13. /\ epoch[w] \in 0 .. EpochMod - 1 /\ calls \in 0 .. MaxCalls
       /\ Cardinality(Calling) \in Nat /\ EpochMod \in Nat /\ MaxCalls \in Nat
  BY <1>1, ParameterAssumption, PrewaitSize DEF TypeOK
<1>14. epoch[w] + Cardinality(Calling) <= calls
  BY <1>1, <1>12, <1>13 DEF EpochInv, PushBound
<1>15. \/ epoch'[w] = epoch[w] + 1
       \/ epoch'[w] = 0 /\ calls = MaxCalls /\ Calling = {}
  <2>1. epoch'[w] = (epoch[w] + 1) % EpochMod
    BY <1>1, <1>2 DEF NextEpoch, TypeOK
  <2>2. CASE epoch[w] + 1 < EpochMod
    BY <1>13, <2>1, <2>2
  <2>3. CASE epoch[w] + 1 = EpochMod
    <3>1. epoch'[w] = 0
      BY <1>13, <2>1, <2>3
    <3>2. calls = MaxCalls /\ Cardinality(Calling) = 0
      BY <1>13, <1>14, <2>3 DEF NoWrap
    <3>. QED
      BY <3>1, <3>2, PrewaitSize, FS_EmptySet
  <2>. QED
    BY <1>13, <2>2, <2>3
<1>16. \A v \in Waiters : v # w => epoch'[v] = epoch[v]
  BY <1>1, <1>2 DEF TypeOK
<1>17. TagInv'
  <2>1. ASSUME NEW e, e = epoch[w] PROVE Tag(w, e)'
    BY <1>2, <1>5, <1>13, <1>15, <2>1 DEF Tag
  <2>2. ASSUME NEW v \in Parked, NEW e, Tag(v, e) PROVE Tag(v, e)'
    BY <1>2, <1>5, <1>16, <2>2 DEF Tag, Parked
  <2>3. ASSUME NEW v \in {w} \cup Stack, NEW u, NEW e,
               u = next[v].stack, e = next[v].epoch, u # Empty
        PROVE  Tag(u, e)'
    <3>1. v \in Stack => u \in Parked /\ Tag(u, e)
      BY <1>1, <1>12, <2>3 DEF EpochInv, TagInv, ListInv, LinkInv
    <3>2. v = w => u \in Parked /\ Tag(u, e)
      BY <1>1, <1>4, <2>3 DEF EpochInv, TagInv, ListInv, HeadInv
    <3>. QED
      BY <2>2, <3>1, <3>2
  <2>. QED
    BY <1>2, <1>12, <2>1, <2>3 DEF TagInv
<1>18. ASSUME NEW v \in Waiters PROVE PushBound(v)'
  BY <1>1, <1>2, <1>5, <1>12, <1>13, <1>14, <1>15, <1>16 DEF EpochInv, PushBound
<1>19. ASSUME NEW m \in Notifiers PROVE CopyInv(m)'
  <2>1. CopyInv(m) /\ state[m] \in State /\ state[m].epoch \in Int
    BY <1>1 DEF EpochInv, TypeOK, Threads, State
  <2>2. CASE state[m].stack = w
    <3>1. pc[m] \in {"notify", "notifyCas"} => epoch'[w] = epoch[w] + 1
      BY <1>15 DEF Calling
    <3>. QED
      BY <1>2, <1>3, <1>6, <1>13, <2>1, <2>2, <3>1 DEF CopyInv
  <2>3. CASE state[m].stack # w
    BY <1>2, <1>3, <1>12, <1>16, <2>1, <2>3 DEF CopyInv, Pops, State, StackPtr
  <2>. QED
    BY <2>2, <2>3
<1>. QED
  BY <1>8, <1>9, <1>10, <1>11, <1>12, <1>17, <1>18, <1>19 DEF ListInv, EpochInv

\* A notifier whose exchange succeeds in taking from the stack has read the right
\* link: no node was popped and pushed again in between.
LEMMA PopReadsRight ==
  ASSUME IInv, NEW n \in Notifiers, pc[n] = "notifyCas", Succeeds(n),
         ~notifyAll[n], ~HasUnsignaled(mState), mState.stack # Empty
  PROVE  below[n] = next[mState.stack]
<1>1. n \in Calling
  BY DEF Calling
<1>2. mState.stack \in Stack /\ epoch[mState.stack] = mState.epoch + 1
  BY <1>1, TagIsLast
<1>3. CopyInv(n)
  BY DEF IInv, EpochInv
<1>. QED
  BY <1>2, <1>3 DEF CopyInv, Pops, Succeeds

\* What a notifier takes from the stack: the top node, or all of it.
LEMMA TakenFromStack ==
  ASSUME IInv, WordInv', NEW n \in Notifiers, NotifyParked(n)
  PROVE  /\ mState.stack \in Stack /\ mState.stack \in Parked
         /\ \A v \in Waiters : v # mState.stack => next'[v] = next[v]
         /\ \/ /\ notifyAll[n] /\ next' = next
               /\ mState'.stack = Empty /\ Stack' = {}
            \/ /\ ~notifyAll[n] /\ next'[mState.stack].stack = Empty
               /\ mState'.stack = next[mState.stack].stack
               /\ mState'.epoch = next[mState.stack].epoch
               /\ Stack' = Stack \ {mState.stack}
         /\ mState'.signals = IF notifyAll[n] THEN mState.waiters ELSE mState.signals
<1>1. WordInv /\ ListInv /\ EpochInv /\ TypeOK /\ TypeOK'
  BY DEF IInv, WordInv
<1>2. /\ pc[n] = "notifyCas" /\ Succeeds(n) /\ mState.stack # Empty
      /\ notifyAll[n] \/ ~HasUnsignaled(mState)
      /\ mState' = Notified(n)
      /\ next' = IF notifyAll[n] THEN next ELSE [next EXCEPT ![mState.stack] = LinkOf(NoState)]
  BY DEF NotifyParked
<1>3. mState.stack \in Stack /\ mState.stack \in Parked /\ mState.stack \in Waiters
  BY <1>2, TagIsLast, StackParked DEF IInv, Calling
<1>4. next \in [Waiters -> Link] /\ next' \in [Waiters -> Link] /\ mState \in State
  BY <1>1 DEF TypeOK
<1>5. CASE notifyAll[n]
  <2>1. mState'.stack = Empty /\ mState'.signals = mState.waiters
    BY <1>2, <1>4, <1>5, SignalAllType DEF Notified
  <2>2. Stack' = {}
    BY <1>4, <2>1, BelowEmpty, StackIsBelow
  <2>. QED
    BY <1>2, <1>3, <1>5, <2>1, <2>2
<1>6. CASE ~notifyAll[n]
  <2>1. below[n] = next[mState.stack] /\ below[n] \in Link
    BY <1>1, <1>2, <1>6, PopReadsRight DEF TypeOK
  <2>2. /\ mState'.stack = next[mState.stack].stack
        /\ mState'.epoch = next[mState.stack].epoch
        /\ mState'.signals = mState.signals
    BY <1>2, <1>4, <1>6, <2>1, PoppedType DEF Notified
  <2>3. next'[mState.stack] = LinkOf(NoState)
    BY <1>2, <1>3, <1>4, <1>6
  <2>4. next'[mState.stack].stack = Empty
    BY <2>3, NoStateType, LinkOfType DEF NoState
  <2>5. \A v \in Waiters : v # mState.stack => next'[v] = next[v]
    BY <1>2, <1>4, <1>6
  <2>6. /\ Stack = {mState.stack} \cup Below(next, next[mState.stack].stack)
        /\ mState.stack \notin Below(next, next[mState.stack].stack)
    BY <1>1, <1>3, <1>4, BelowStep, StackIsBelow, HeadNotBelow DEF IsHead
  <2>7. /\ next[mState.stack].stack \in StackPtr
        /\ Below(next, next[mState.stack].stack) \in SUBSET Waiters
    BY <1>3, <1>4, BelowClosed DEF Link
  <2>8. Stack' = Below(next, next[mState.stack].stack)
    BY <1>4, <2>2, <2>5, <2>6, <2>7, BelowSame, StackIsBelow
  <2>. QED
    BY <1>3, <1>6, <2>2, <2>4, <2>5, <2>6, <2>8
<1>. QED
  BY <1>5, <1>6

\* The nodes that are taken form a list of their own, with the notifier.
LEMMA NotifyParkedKeeps ==
  ASSUME IInv, WordInv', NEW n \in Notifiers, NotifyParked(n)
  PROVE  ListInv' /\ EpochInv'
<1>. DEFINE top == mState.stack
<1>1. WordInv /\ ListInv /\ EpochInv /\ TypeOK
  BY DEF IInv, WordInv
<1>2. /\ pc[n] = "notifyCas" /\ pc'[n] = "unpark"
      /\ signal' = signal /\ epoch' = epoch /\ below' = below /\ calls' = calls
      /\ notifyAll' = notifyAll
      /\ target' = [target EXCEPT ![n] = top]
  BY <1>1 DEF NotifyParked, Goto, TypeOK, Threads
<1>3. /\ \A m \in Notifiers : m # n => pc'[m] = pc[m] /\ state'[m] = state[m]
      /\ \A v \in Waiters : pc'[v] = pc[v] /\ state'[v] = state[v]
  BY <1>1, ParameterAssumption DEF NotifyParked, Goto, Forget, TypeOK, Threads
<1>4. /\ Parked' = Parked /\ Unparking' = Unparking \cup {n} /\ n \notin Unparking
      /\ Calling' = Calling \ {n} /\ n \in Calling
  BY <1>2, <1>3 DEF Parked, Unparking, Calling
<1>5. target'[n] = top /\ \A m \in Unparking : target'[m] = target[m] /\ pc'[m] = pc[m]
  BY <1>1, <1>2, <1>3, <1>4 DEF TypeOK, Unparking
<1>6. /\ top \in Stack /\ top \in Parked /\ top \in Waiters /\ top # Empty
      /\ \A v \in Waiters : v # top => next'[v] = next[v]
  BY TakenFromStack, ParameterAssumption DEF Parked
<1>7. \/ /\ next' = next /\ mState'.stack = Empty /\ Stack' = {}
      \/ /\ next'[top].stack = Empty /\ mState'.stack = next[top].stack
         /\ mState'.epoch = next[top].epoch /\ Stack' = Stack \ {top}
  BY TakenFromStack
<1>8. Stack \in SUBSET Parked /\ Parked \in SUBSET Waiters
  BY <1>1, StackParked DEF Parked
<1>. HIDE DEF top
<1>9. top = mState.stack
  BY DEF top
<1>10. ASSUME NEW v \in Waiters
       PROVE  IsHead(v)' <=> IsHead(v) \/ v = mState'.stack
  <2>1. v # Empty
    BY ParameterAssumption
  <2>. QED
    BY <1>4, <1>5, <1>7, <1>9, <2>1 DEF IsHead
<1>11. HeadInv'
  <2>1. mState'.stack \in Parked' \cup {Empty} /\ mState'.stack # top
    BY <1>1, <1>4, <1>6, <1>7, <1>9 DEF ListInv, LinkInv, IsHead
  <2>2. ASSUME NEW m \in Unparking
        PROVE  /\ target'[m] \in Parked' /\ target'[m] # mState'.stack /\ target'[m] # top
               /\ pc'[m] = "signal" => below'[m] = next'[target'[m]]
    <3>1. /\ target[m] \in Parked /\ target[m] # top
          /\ pc[m] = "signal" => below[m] = next[target[m]]
      BY <1>1, <1>9 DEF ListInv, HeadInv
    <3>2. target[m] # mState'.stack
      BY <1>1, <1>6, <1>7, <1>8, <3>1, ParameterAssumption DEF ListInv, LinkInv, IsHead
    <3>. QED
      BY <1>2, <1>4, <1>5, <1>6, <1>8, <3>1, <3>2
  <2>3. \A m1, m2 \in Unparking' : target'[m1] = target'[m2] => m1 = m2
    BY <1>1, <1>4, <1>5, <2>2 DEF ListInv, HeadInv
  <2>. QED
    BY <1>2, <1>4, <1>5, <1>6, <2>1, <2>2, <2>3 DEF HeadInv
<1>12. LinkInv'
  <2>1. ASSUME NEW v \in Parked, next'[v].stack # Empty
        PROVE  next'[v].stack = next[v].stack /\ (v = top => mState'.stack = Empty)
    BY <1>6, <1>7, <1>8, <2>1
  <2>2. ASSUME NEW v \in Parked, NEW u, u = next'[v].stack, u # Empty
        PROVE  u \in Parked /\ ~IsHead(u)'
    <3>1. u = next[v].stack /\ u \in Parked /\ ~IsHead(u)
      BY <1>1, <2>1, <2>2 DEF ListInv, LinkInv
    <3>2. u # mState'.stack
      BY <1>1, <1>6, <1>7, <2>1, <2>2, <3>1 DEF ListInv, LinkInv
    <3>. QED
      BY <1>8, <1>10, <3>1, <3>2
  <2>3. ASSUME NEW u \in Parked, NEW v \in Parked,
               next'[u].stack = next'[v].stack, next'[u].stack # Empty
        PROVE  u = v
    BY <1>1, <2>1, <2>3 DEF ListInv, LinkInv
  <2>. QED
    BY <1>4, <2>2, <2>3 DEF LinkInv
<1>13. Entered'
  <2>1. ASSUME NEW S \in SUBSET Parked, S # {}
        PROVE  \E x \in S : IsHead(x)' \/ \E v \in Parked \ S : next'[v].stack = x
    <3>1. PICK x \in S : IsHead(x) \/ \E v \in Parked \ S : next[v].stack = x
      BY <1>1, <2>1 DEF ListInv, Entered
    <3>2. CASE IsHead(x)
      BY <1>8, <1>10, <3>2
    <3>3. CASE \E v \in Parked \ S : next[v].stack = x
      BY <1>6, <1>7, <1>8, <1>10, <3>3
    <3>. QED
      BY <3>1, <3>2, <3>3
  <2>. QED
    BY <1>4, <2>1 DEF Entered
<1>14. ASSUME NEW v \in Waiters PROVE PushInv(v)'
  BY <1>1, <1>2, <1>3, <1>6 DEF ListInv, PushInv, Parked
<1>15. TagInv'
  <2>1. ASSUME NEW v, NEW e, Tag(v, e) PROVE Tag(v, e)'
    BY <1>2, <1>4, <2>1 DEF Tag
  <2>2. \A v \in Stack : next[v].stack # Empty => Tag(next[v].stack, next[v].epoch)
    BY <1>1 DEF EpochInv, TagInv
  <2>3. \A v \in Stack' : v \in Stack /\ v # top /\ next'[v] = next[v]
    BY <1>6, <1>7, <1>8
  <2>. QED
    BY <1>6, <1>7, <2>1, <2>2, <2>3 DEF TagInv
<1>16. ASSUME NEW v \in Waiters PROVE PushBound(v)'
  <2>1. Cardinality(Calling') = Cardinality(Calling) - 1 /\ Cardinality(Calling) \in Nat
    BY <1>4, PrewaitSize, SizeOfRemoved
  <2>2. epoch[v] \in Int /\ calls \in Int /\ PushBound(v)
    BY <1>1 DEF TypeOK, EpochInv
  <2>. QED
    BY <1>2, <2>1, <2>2 DEF PushBound
<1>17. ASSUME NEW m \in Notifiers PROVE CopyInv(m)'
  <2>1. CASE m = n
    BY <1>2, <2>1 DEF CopyInv
  <2>2. CASE m # n
    <3>1. CopyInv(m) /\ pc'[m] = pc[m] /\ state'[m] = state[m]
      BY <1>1, <1>3, <2>2 DEF EpochInv
    <3>2. \A v \in Stack' : v \in Stack /\ next'[v] = next[v]
      BY <1>6, <1>7, <1>8
    <3>. QED
      BY <1>2, <3>1, <3>2 DEF CopyInv, Pops
  <2>. QED
    BY <2>1, <2>2
<1>. QED
  BY <1>11, <1>12, <1>13, <1>14, <1>15, <1>16, <1>17 DEF ListInv, EpochInv

\* A waiter that is signaled was the head of the notifier's list, and the next one
\* becomes the head.
LEMMA UnparkSignalKeeps ==
  ASSUME IInv, WordInv', NEW n \in Notifiers, UnparkSignal(n)
  PROVE  ListInv' /\ EpochInv' /\ Stack' = Stack
<1>. DEFINE x == target[n]
            y == below[n].stack
<1>1. WordInv /\ ListInv /\ EpochInv /\ TypeOK
  BY DEF IInv, WordInv
<1>2. pc[n] = "signal" /\ n \in Unparking /\ n \notin Calling
  BY DEF UnparkSignal, Unparking, Calling
<1>3. /\ mState' = mState /\ next' = next /\ epoch' = epoch /\ calls' = calls
      /\ signal' = [signal EXCEPT ![x] = "kSignaled"]
      /\ \/ y = Empty /\ pc'[n] = "idle"
         \/ y # Empty /\ pc'[n] = "unpark" /\ target'[n] = y
  BY <1>1 DEF UnparkSignal, Return, Goto, TypeOK, Threads
<1>4. /\ \A m \in Notifiers :
           m # n => /\ pc'[m] = pc[m] /\ state'[m] = state[m] /\ target'[m] = target[m]
                    /\ below'[m] = below[m] /\ notifyAll'[m] = notifyAll[m]
      /\ \A v \in Waiters : pc'[v] = pc[v] /\ state'[v] = state[v]
  BY <1>1, ParameterAssumption DEF UnparkSignal, Return, Goto, Forget, TypeOK, Threads
<1>5. /\ x \in Parked /\ x \in Waiters /\ x # mState.stack /\ y = next[x].stack
      /\ IsHead(x)
  BY <1>1, <1>2 DEF ListInv, HeadInv, Parked, IsHead
<1>6. y # Empty => y \in Parked /\ ~IsHead(y) /\ y # x
  BY <1>1, <1>5 DEF ListInv, LinkInv
<1>7. Parked' = Parked \ {x} /\ Calling' = Calling
  BY <1>1, <1>2, <1>3, <1>4, <1>5 DEF Parked, Calling, TypeOK
<1>8. Unparking' = IF y = Empty THEN Unparking \ {n} ELSE Unparking
  BY <1>2, <1>3, <1>4 DEF Unparking
<1>. HIDE DEF x, y
<1>9. \A m \in Unparking :
        /\ target[m] \in Parked /\ target[m] # mState.stack
        /\ m # n => target[m] # x
        /\ pc[m] = "signal" => below[m] = next[target[m]]
  BY <1>1, <1>2 DEF ListInv, HeadInv, x
<1>10. \A m \in Unparking' : m # n => m \in Unparking /\ target'[m] = target[m] /\ target[m] # y
  BY <1>4, <1>6, <1>8, <1>9, ParameterAssumption DEF Unparking, IsHead, Parked
<1>11. ASSUME NEW v \in Waiters, v # x
       PROVE  IsHead(v)' <=> IsHead(v) \/ v = y
  <2>1. v # Empty /\ x = target[n]
    BY ParameterAssumption DEF x
  <2>. QED
    BY <1>2, <1>3, <1>4, <1>8, <1>10, <1>11, <2>1 DEF IsHead, Unparking
<1>12. HeadInv'
  <2>1. mState'.stack \in Parked' \cup {Empty}
    BY <1>1, <1>3, <1>5, <1>7 DEF ListInv, HeadInv
  <2>2. ASSUME NEW m \in Unparking'
        PROVE  /\ target'[m] \in Parked' /\ target'[m] # mState'.stack
               /\ pc'[m] = "signal" => below'[m] = next'[target'[m]]
    <3>1. CASE m = n
      BY <1>3, <1>5, <1>6, <1>7, <1>8, <2>2, <3>1 DEF IsHead
    <3>2. CASE m # n
      BY <1>3, <1>4, <1>7, <1>9, <1>10, <2>2, <3>2 DEF Unparking
    <3>. QED
      BY <3>1, <3>2
  <2>3. ASSUME NEW m1 \in Unparking', NEW m2 \in Unparking', target'[m1] = target'[m2]
        PROVE  m1 = m2
    BY <1>1, <1>3, <1>8, <1>10, <2>3 DEF ListInv, HeadInv
  <2>. QED
    BY <2>1, <2>2, <2>3 DEF HeadInv
<1>13. LinkInv'
  <2>1. ASSUME NEW v \in Parked \ {x}, NEW u, u = next[v].stack, u # Empty
        PROVE  u \in Parked \ {x} /\ ~IsHead(u)'
    <3>1. u \in Parked /\ ~IsHead(u) /\ u # x /\ u # y
      BY <1>1, <1>5, <1>6, <2>1 DEF ListInv, LinkInv
    <3>. QED
      BY <1>11, <3>1 DEF Parked
  <2>2. ASSUME NEW u \in Parked \ {x}, NEW v \in Parked \ {x},
               next[u].stack = next[v].stack, next[u].stack # Empty
        PROVE  u = v
    BY <1>1, <2>2 DEF ListInv, LinkInv
  <2>. QED
    BY <1>3, <1>7, <2>1, <2>2 DEF LinkInv
<1>14. Entered'
  <2>1. ASSUME NEW S \in SUBSET (Parked \ {x}), S # {}
        PROVE  \E v \in S : IsHead(v)' \/ \E u \in (Parked \ {x}) \ S : next[u].stack = v
    <3>1. PICK v \in S : IsHead(v) \/ \E u \in Parked \ S : next[u].stack = v
      BY <1>1, <2>1 DEF ListInv, Entered
    <3>2. v \in Waiters /\ v # x
      BY <2>1 DEF Parked
    <3>. QED
      BY <1>5, <1>11, <3>1, <3>2
  <2>. QED
    BY <1>3, <1>7, <2>1 DEF Entered
<1>15. ASSUME NEW v \in Waiters PROVE PushInv(v)'
  BY <1>1, <1>3, <1>4, <1>5 DEF ListInv, PushInv, Parked, TypeOK
<1>16. Stack' = Stack
  BY <1>3, StackIsBelow
<1>17. TagInv' /\ \A v \in Waiters : PushBound(v)'
  BY <1>1, <1>3, <1>7, <1>16 DEF EpochInv, TagInv, Tag, PushBound
<1>18. ASSUME NEW m \in Notifiers PROVE CopyInv(m)'
  BY <1>1, <1>3, <1>4, <1>16 DEF EpochInv, CopyInv, Pops
<1>. QED
  BY <1>12, <1>13, <1>14, <1>15, <1>16, <1>17, <1>18 DEF ListInv, EpochInv

\* At first there is no list.
LEMMA InitIInv == Init => IInv
<1>. SUFFICES ASSUME Init PROVE IInv
  OBVIOUS
<1>1. WordInv /\ TypeOK
  BY InitWord DEF WordInv
<1>2. /\ Parked = {} /\ Unparking = {} /\ Calling = {}
      /\ mState.stack = Empty /\ calls = 0 /\ \A w \in Waiters : epoch[w] = 0
  BY ParameterAssumption DEF Init, Parked, Unparking, Calling, Threads, NoState
<1>3. Stack = {}
  BY <1>1, <1>2, BelowEmpty, StackIsBelow DEF TypeOK
<1>4. ListInv
  <2>1. \A w \in Waiters : PushInv(w)
    BY ParameterAssumption DEF Init, PushInv, Threads
  <2>. QED
    BY <1>2, <2>1 DEF ListInv, HeadInv, LinkInv, Entered
<1>5. EpochInv
  <2>1. ASSUME NEW w \in Waiters PROVE PushBound(w)
    BY <1>2, <1>3, FS_EmptySet DEF PushBound
  <2>2. ASSUME NEW n \in Notifiers PROVE CopyInv(n)
    BY ParameterAssumption DEF Init, CopyInv, Threads
  <2>. QED
    BY <1>2, <1>3, <2>1, <2>2 DEF EpochInv, TagInv
<1>. QED
  BY <1>1, <1>4, <1>5 DEF IInv

\* Every step keeps the lists and the tags.
LEMMA IInvStep == NoWrap /\ IInv /\ [Next]_vars => IInv'
<1>. SUFFICES ASSUME NoWrap, IInv, [Next]_vars PROVE IInv'
  OBVIOUS
<1>1. WordInv'
  BY WordStep DEF IInv
<1>2. CASE UNCHANGED vars
  <2>1. Stack' = Stack /\ Parked' = Parked /\ Unparking' = Unparking /\ Calling' = Calling
    BY <1>2, StackIsBelow DEF vars, Parked, Unparking, Calling
  <2>2. ListInv'
    BY <1>2, <2>1 DEF vars, IInv, ListInv, HeadInv, LinkInv, Entered, IsHead, PushInv
  <2>3. EpochInv'
    BY <1>2, <2>1 DEF vars, IInv, EpochInv, TagInv, Tag, PushBound, CopyInv, Pops
  <2>. QED
    BY <1>1, <2>2, <2>3 DEF IInv
<1>3. ASSUME NEW w \in Waiters, WaiterStep(w) \/ SpuriousWakeup(w) PROVE ListInv' /\ EpochInv'
  BY <1>1, <1>3, PrewaitKeeps, CheckPredicateKeeps, CancelWaitKeeps, TakeItemKeeps,
     CommitLoadKeeps, CommitRetryKeeps, CommitConsumeKeeps, CommitPushKeeps, ParkKeeps,
     SpuriousWakeupKeeps
  DEF WaiterStep, CommitWait
<1>4. ASSUME NEW n \in Notifiers,
             NotifyStep(n) \/ \E all \in BOOLEAN : AddItem(n, all)
      PROVE  ListInv' /\ EpochInv'
  BY <1>1, <1>4, AddItemKeeps, NotifyLoadKeeps, NotifyNobodyKeeps, NotifyPrepareKeeps,
     NotifyRetryKeeps, NotifyPrewaitersKeeps, NotifyParkedKeeps, UnparkReadNextKeeps,
     UnparkSignalKeeps
  DEF NotifyStep, Notify, Unpark
<1>. QED
  BY <1>1, <1>2, <1>3, <1>4 DEF Next, IInv

\* The stack and the lists of Unpark are well-formed, and a stale link is never
\* written into the word, in every behaviour in which the counter does not wrap.
THEOREM EventCountInvariant == NoWrap => (Spec => []IInv)
<1>. SUFFICES ASSUME NoWrap PROVE Spec => []IInv
  OBVIOUS
<1>1. Init => IInv
  BY InitIInv
<1>2. IInv /\ [Next]_vars => IInv'
  BY IInvStep
<1>. QED
  BY <1>1, <1>2, PTL DEF Spec

\* What CheckState asserts: the fields are exact and with nobody waiting the word
\* is the initial one, its ABA counter included.
THEOREM WordIsExact == NoWrap => (Spec => []CheckState)
<1>. SUFFICES ASSUME NoWrap PROVE Spec => []CheckState
  OBVIOUS
<1>1. IInv => CheckState
  <2>. SUFFICES ASSUME IInv PROVE CheckState
    OBVIOUS
  <2>1. /\ WordInv /\ TypeOK /\ mState \in State
        /\ GoodWord(mState) /\ mState.waiters = Cardinality(InPrewait)
    BY DEF IInv, WordInv, TypeOK
  <2>2. ASSUME \A w \in Waiters : pc[w] \in {"idle", "take"} PROVE mState = NoState
    <3>1. InPrewait = {} /\ Parked = {}
      BY <2>2 DEF InPrewait, Parked
    <3>2. mState.waiters = 0 /\ mState.signals = 0
      BY <2>1, <3>1, FS_EmptySet DEF GoodWord, State
    <3>3. mState.stack = Empty /\ mState.epoch = 0
      BY <2>1, <3>1 DEF IInv, ListInv, HeadInv, GoodWord
    <3>. QED
      BY <2>1, <3>2, <3>3 DEF NoState, State
  <2>. QED
    BY <2>1, <2>2 DEF CheckState, GoodWord
<1>. QED
  BY <1>1, EventCountInvariant, PTL

\* The waiters an Unpark still has to signal are those below its target.
LEMMA UnparkedAreBelow ==
  ASSUME IInv, NEW n \in Notifiers
  PROVE  BeingUnparked(n) = IF n \in Unparking THEN Below(next, target[n]) ELSE {}
<1>1. \A p : Chain(p) = Below(next, p)
  BY DEF Chain, Closed, Below, ClosedIn
<1>2. CASE pc[n] = "unpark"
  BY <1>1, <1>2 DEF BeingUnparked, Unparking
<1>3. CASE pc[n] = "signal"
  <2>1. n \in Unparking /\ target[n] \in Waiters /\ below[n] = next[target[n]]
    BY <1>3 DEF IInv, ListInv, HeadInv, Unparking, Parked
  <2>2. next \in [Waiters -> Link]
    BY DEF IInv, WordInv, TypeOK
  <2>. QED
    BY <1>1, <1>3, <2>1, <2>2, BelowStep DEF BeingUnparked
<1>4. CASE pc[n] \notin {"unpark", "signal"}
  BY <1>4 DEF BeingUnparked, Unparking
<1>. QED
  BY <1>2, <1>3, <1>4

\* A thread that committed to waiting is on the stack or with exactly one Unpark.
THEOREM NoParkedThreadLost == NoWrap => (Spec => []ParkedAreReachable)
<1>. SUFFICES ASSUME NoWrap PROVE Spec => []ParkedAreReachable
  OBVIOUS
<1>1. IInv => ParkedAreReachable
  <2>. SUFFICES ASSUME IInv PROVE ParkedAreReachable
    OBVIOUS
  <2>1. WordInv /\ ListInv
    BY DEF IInv
  <2>2. Chain(mState.stack) = Below(next, mState.stack)
    BY DEF Chain, Closed, Below, ClosedIn
  <2>3. Chain(mState.stack) \in SUBSET Parked
    BY <2>1, StackParked DEF Stack
  <2>4. ASSUME NEW n \in Notifiers PROVE BeingUnparked(n) \in SUBSET Parked
    BY <2>1, UnparkedAreBelow, BelowParked DEF ListInv, HeadInv
  <2>5. ASSUME NEW w \in Parked
        PROVE  w \in Chain(mState.stack) \/ \E n \in Notifiers : w \in BeingUnparked(n)
    <3>1. PICK p \in Parked : IsHead(p) /\ w \in Below(next, p)
      BY <2>1, EveryoneListed
    <3>. QED
      BY <2>2, <3>1, UnparkedAreBelow DEF IsHead, Unparking
  <2>6. ASSUME NEW n \in Notifiers PROVE Chain(mState.stack) \cap BeingUnparked(n) = {}
    <3>1. CASE n \in Unparking /\ mState.stack # Empty
      <4>1. /\ mState.stack \in Parked /\ target[n] \in Parked /\ target[n] # mState.stack
            /\ IsHead(mState.stack) /\ IsHead(target[n])
        BY <2>1, <3>1 DEF ListInv, HeadInv, IsHead
      <4>. QED
        BY <2>1, <2>2, <3>1, <4>1, ListsDisjoint, UnparkedAreBelow
    <3>2. CASE mState.stack = Empty
      BY <2>1, <2>2, <3>2, BelowEmpty DEF WordInv, TypeOK
    <3>3. CASE n \notin Unparking
      BY <3>3, UnparkedAreBelow
    <3>. QED
      BY <3>1, <3>2, <3>3
  <2>7. ASSUME NEW m \in Notifiers, NEW n \in Notifiers, m # n
        PROVE  BeingUnparked(m) \cap BeingUnparked(n) = {}
    <3>1. CASE m \in Unparking /\ n \in Unparking
      <4>1. /\ target[m] \in Parked /\ target[n] \in Parked /\ target[m] # target[n]
            /\ IsHead(target[m]) /\ IsHead(target[n])
        BY <2>1, <2>7, <3>1 DEF ListInv, HeadInv, IsHead
      <4>. QED
        BY <2>1, <3>1, <4>1, ListsDisjoint, UnparkedAreBelow
    <3>2. CASE m \notin Unparking \/ n \notin Unparking
      BY <3>2, UnparkedAreBelow
    <3>. QED
      BY <3>1, <3>2
  <2>8. Parked = Chain(mState.stack) \cup UNION {BeingUnparked(n) : n \in Notifiers}
    BY <2>3, <2>4, <2>5
  <2>. QED
    BY <2>6, <2>7, <2>8 DEF ParkedAreReachable, Parked
<1>. QED
  BY <1>1, EventCountInvariant, PTL

(***************************************************************************)
(* The refinement.                                                         *)
(***************************************************************************)

\* The status of a waiter, before and after a step, by its control point.
LEMMA StatusIs ==
  ASSUME NEW w \in Waiters
  PROVE  /\ Status[w] = IF pc[w] \in {"check", "cancel", "commit", "commitCas"} THEN "pre"
                        ELSE IF pc[w] # "park" THEN "out"
                        ELSE IF w \in Stack THEN "parked" ELSE "woken"
         /\ Status'[w] = IF pc'[w] \in {"check", "cancel", "commit", "commitCas"} THEN "pre"
                         ELSE IF pc'[w] # "park" THEN "out"
                         ELSE IF w \in Stack' THEN "parked" ELSE "woken"
BY DEF Status, StatusOf, InPrewait, Stack

\* A step that changes the status of one waiter at most.
LEMMA StatusMoved ==
  ASSUME NEW w \in Waiters, \A v \in Waiters : v # w => Status'[v] = Status[v]
  PROVE  Status' = [Status EXCEPT ![w] = Status'[w]]
BY DEF Status

\* A step that changes none.
LEMMA StatusSame ==
  ASSUME \A v \in Waiters : Status'[v] = Status[v]
  PROVE  Status' = Status
BY DEF Status

\* The threads in pre-wait and the parked ones are those of WaitSet.
LEMMA StatusSets ==
  ASSUME IInv
  PROVE  /\ WS!With("pre") = InPrewait
         /\ WS!With("parked") = Stack
         /\ WS!Unsignaled <=> mState.signals < mState.waiters
         /\ WS!Cardinality(WS!With("pre")) = mState.waiters
<1>1. WS!With("pre") = InPrewait
  BY StatusIs DEF WS!With, InPrewait
<1>2. WS!With("parked") = Stack
  <2>1. Stack \in SUBSET Parked
    BY StackParked DEF IInv
  <2>. QED
    BY <2>1, StatusIs DEF WS!With, Parked
<1>3. WS!Cardinality(InPrewait) = mState.waiters
  BY DEF IInv, WordInv, WS!Cardinality, Cardinality
<1>. QED
  BY <1>1, <1>2, <1>3 DEF WS!Unsignaled

\* The steps of a waiter.
LEMMA WaiterRefines ==
  ASSUME NoWrap, IInv, IInv', NEW w \in Waiters, WaiterStep(w) \/ SpuriousWakeup(w)
  PROVE  [WS!Next]_WS!vars
<1>1. TypeOK /\ WordInv' /\ mState \in State
  BY DEF IInv, WordInv, TypeOK
<1>2. Stack \in SUBSET Parked
  BY StackParked DEF IInv
<1>3. ASSUME NEW to, pc' = [pc EXCEPT ![w] = to], Stack' = Stack
      PROVE  /\ pc'[w] = to
             /\ \A v \in Waiters : v # w => Status'[v] = Status[v]
  BY <1>1, <1>3, StatusIs DEF TypeOK, Threads
<1>4. CASE Prewait(w)
  <2>1. Stack' = Stack /\ mState'.signals = mState.signals
    BY <1>1, <1>4, PrewaitKeeps DEF Prewait, State
  <2>2. Status[w] = "out" /\ Status'[w] = "pre" /\ Status' = [Status EXCEPT ![w] = "pre"]
    BY <1>3, <1>4, <2>1, StatusIs, StatusMoved DEF Prewait, Goto
  <2>3. WS!Prewait(w)
    BY <2>1, <2>2 DEF WS!Prewait, WS!Move
  <2>. QED
    BY <2>3 DEF WS!Next
<1>5. CASE CheckPredicate(w)
  <2>1. Stack' = Stack /\ mState' = mState
    BY <1>1, <1>5, CheckPredicateKeeps DEF CheckPredicate
  <2>2. Status' = Status
    BY <1>3, <1>5, <2>1, StatusIs, StatusSame DEF CheckPredicate, Goto
  <2>. QED
    BY <2>1, <2>2 DEF WS!vars
<1>6. CASE CancelWait(w)
  <2>1. /\ Stack' = Stack
        /\ mState'.signals = IF mState.waiters = mState.signals THEN mState.signals - 1
                             ELSE mState.signals
    BY <1>1, <1>6, CancelWaitKeeps, CancelledType DEF CancelWait
  <2>2. /\ Status[w] = "pre" /\ Status' = [Status EXCEPT ![w] = "out"]
    <3>1. pc[w] \in {"cancel", "commitCas"} /\ pc' = [pc EXCEPT ![w] = "take"]
      BY <1>6 DEF CancelWait, Goto
    <3>2. /\ Status[w] = "pre" /\ Status'[w] = "out"
          /\ \A v \in Waiters : v # w => Status'[v] = Status[v]
      BY <1>3, <2>1, <3>1, StatusIs
    <3>. QED
      BY <3>2, StatusMoved
  <2>3. WS!Unsignaled <=> mState.signals # mState.waiters
    BY <1>1, StatusSets DEF IInv, WordInv, GoodWord, State
  <2>4. WS!CancelWait(w)
    BY <2>1, <2>2, <2>3 DEF WS!CancelWait, WS!Move
  <2>. QED
    BY <2>4 DEF WS!Next
<1>7. CASE TakeItem(w)
  <2>1. Stack' = Stack /\ mState' = mState
    BY <1>1, <1>7, TakeItemKeeps DEF TakeItem
  <2>2. Status' = Status
    BY <1>3, <1>7, <2>1, StatusIs, StatusSame DEF TakeItem, Goto
  <2>. QED
    BY <2>1, <2>2 DEF WS!vars
<1>8. CASE CommitLoad(w)
  <2>1. Stack' = Stack /\ mState' = mState
    BY <1>1, <1>8, CommitLoadKeeps DEF CommitLoad
  <2>2. Status' = Status
    BY <1>3, <1>8, <2>1, StatusIs, StatusSame DEF CommitLoad, Goto
  <2>. QED
    BY <2>1, <2>2 DEF WS!vars
<1>9. CASE CommitRetry(w)
  <2>1. Stack' = Stack /\ mState' = mState /\ pc' = pc
    BY <1>1, <1>9, CommitRetryKeeps DEF CommitRetry
  <2>2. Status' = Status
    BY <2>1, StatusIs, StatusSame
  <2>. QED
    BY <2>1, <2>2 DEF WS!vars
<1>10. CASE CommitConsume(w)
  <2>1. Stack' = Stack /\ mState'.signals = mState.signals - 1 /\ mState.signals > 0
    <3>1. Stack' = Stack /\ mState'.signals = mState.signals - 1 /\ mState.signals # 0
      BY <1>1, <1>10, CommitConsumeKeeps, ConsumedType DEF CommitConsume
    <3>2. mState.signals \in Int /\ 0 <= mState.signals
      BY <1>1 DEF IInv, WordInv, GoodWord, State
    <3>. QED
      BY <3>1, <3>2
  <2>2. /\ Status[w] = "pre" /\ Status' = [Status EXCEPT ![w] = "out"]
    <3>1. pc[w] \in {"cancel", "commitCas"} /\ pc' = [pc EXCEPT ![w] = "idle"]
      BY <1>10 DEF CommitConsume, Goto
    <3>2. /\ Status[w] = "pre" /\ Status'[w] = "out"
          /\ \A v \in Waiters : v # w => Status'[v] = Status[v]
      BY <1>3, <2>1, <3>1, StatusIs
    <3>. QED
      BY <3>2, StatusMoved
  <2>3. WS!CommitConsume(w)
    BY <2>1, <2>2 DEF WS!CommitConsume, WS!Move
  <2>. QED
    BY <2>3 DEF WS!Next, WS!CommitWait
<1>11. CASE CommitPush(w)
  <2>1. Stack' = {w} \cup Stack /\ mState.signals = 0 /\ mState'.signals = 0
    BY <1>1, <1>11, CommitPushKeeps DEF CommitPush, Pushed
  <2>2. pc[w] = "commitCas" /\ pc'[w] = "park" /\ \A v \in Waiters : v # w => pc'[v] = pc[v]
    BY <1>1, <1>11 DEF CommitPush, Goto, TypeOK, Threads
  <2>3. Status[w] = "pre" /\ Status'[w] = "parked" /\ Status' = [Status EXCEPT ![w] = "parked"]
    BY <2>1, <2>2, StatusIs, StatusMoved
  <2>4. WS!CommitPark(w)
    BY <2>1, <2>3 DEF WS!CommitPark, WS!Move
  <2>. QED
    BY <2>4 DEF WS!Next, WS!CommitWait
<1>12. CASE Park(w)
  <2>1. Stack' = Stack /\ mState' = mState /\ pc[w] = "park"
    BY <1>1, <1>12, ParkKeeps DEF Park
  <2>2. CASE pc' = pc
    <3>1. Status' = Status
      BY <2>1, <2>2, StatusIs, StatusSame
    <3>. QED
      BY <2>1, <3>1 DEF WS!vars
  <2>3. CASE signal[w] = "kSignaled" /\ pc' = [pc EXCEPT ![w] = "idle"]
    <3>1. w \notin Stack
      BY <1>2, <2>3 DEF Parked
    <3>2. Status[w] = "woken" /\ Status' = [Status EXCEPT ![w] = "out"]
      <4>1. /\ Status[w] = "woken" /\ Status'[w] = "out"
            /\ \A v \in Waiters : v # w => Status'[v] = Status[v]
        BY <1>3, <2>1, <2>3, <3>1, StatusIs
      <4>. QED
        BY <4>1, StatusMoved
    <3>3. WS!Return(w)
      BY <2>1, <3>2 DEF WS!Return, WS!Move
    <3>. QED
      BY <3>3 DEF WS!Next
  <2>. QED
    BY <1>12, <2>2, <2>3 DEF Park, Goto
<1>13. CASE SpuriousWakeup(w)
  <2>1. Stack' = Stack /\ mState' = mState /\ pc' = pc
    BY <1>1, <1>13, SpuriousWakeupKeeps DEF SpuriousWakeup
  <2>2. Status' = Status
    BY <2>1, StatusIs, StatusSame
  <2>. QED
    BY <2>1, <2>2 DEF WS!vars
<1>. QED
  BY <1>4, <1>5, <1>6, <1>7, <1>8, <1>9, <1>10, <1>11, <1>12, <1>13
  DEF WaiterStep, CommitWait

\* The steps of a notifier: its successful exchange is the call of Notify.
LEMMA NotifierRefines ==
  ASSUME NoWrap, IInv, IInv', NEW n \in Notifiers,
         NotifyStep(n) \/ \E all \in BOOLEAN : AddItem(n, all)
  PROVE  [WS!Next]_WS!vars
<1>1. TypeOK /\ WordInv' /\ WordInv /\ mState \in State
  BY DEF IInv, WordInv, TypeOK
<1>2. \A v \in Waiters : pc'[v] = pc[v]
  BY <1>1, ParameterAssumption
  DEF NotifyStep, Notify, Unpark, AddItem, NotifyLoad, NotifyNobody, NotifyPrepare,
      NotifyRetry, 
      NotifyPrewaiters, NotifyParked, UnparkReadNext, UnparkSignal, Return, Goto, TypeOK, Threads
<1>3. ASSUME Stack' = Stack PROVE Status' = Status
  BY <1>2, <1>3, StatusIs, StatusSame
<1>4. ASSUME Stack' = Stack, mState' = mState PROVE [WS!Next]_WS!vars
  BY <1>3, <1>4 DEF WS!vars
<1>5. CASE \E all \in BOOLEAN : AddItem(n, all)
  BY <1>1, <1>4, <1>5, AddItemKeeps DEF AddItem
<1>6. CASE NotifyLoad(n)
  BY <1>1, <1>4, <1>6, NotifyLoadKeeps DEF NotifyLoad
<1>7. CASE NotifyNobody(n)
  BY <1>1, <1>4, <1>7, NotifyNobodyKeeps DEF NotifyNobody
<1>8. CASE NotifyPrepare(n)
  BY <1>1, <1>4, <1>8, NotifyPrepareKeeps DEF NotifyPrepare
<1>9. CASE NotifyRetry(n)
  BY <1>1, <1>4, <1>9, NotifyRetryKeeps DEF NotifyRetry
<1>10. CASE UnparkReadNext(n)
  BY <1>1, <1>4, <1>10, UnparkReadNextKeeps DEF UnparkReadNext
<1>11. CASE UnparkSignal(n)
  BY <1>1, <1>4, <1>11, UnparkSignalKeeps DEF UnparkSignal
<1>12. CASE NotifyPrewaiters(n)
  <2>1. /\ Stack' = Stack /\ mState' = Notified(n)
        /\ (~notifyAll[n] /\ HasUnsignaled(mState)) \/ mState.stack = Empty
    BY <1>1, <1>12, NotifyPrewaitersKeeps DEF NotifyPrewaiters
  <2>2. Status' = Status /\ ~NobodyWaits(mState)
    BY <1>1, <1>3, <1>12, <2>1 DEF NotifyPrewaiters, Succeeds, WordInv, NotifierInv
  <2>3. CASE ~notifyAll[n]
    <3>1. mState.signals < mState.waiters
      BY <1>1, <2>1, <2>2, <2>3 DEF HasUnsignaled, NobodyWaits, WordInv, GoodWord, State
    <3>2. mState'.signals = mState.signals + 1
      BY <1>1, <2>1, <2>3, <3>1, SignalOneType DEF Notified, HasUnsignaled
    <3>3. WS!NotifyOne
      BY <2>2, <3>1, <3>2, StatusSets DEF WS!NotifyOne
    <3>. QED
      BY <3>3 DEF WS!Next
  <2>4. CASE notifyAll[n]
    <3>1. mState.stack = Empty /\ mState'.signals = mState.waiters
      BY <1>1, <2>1, <2>4, SignalAllType DEF Notified
    <3>2. \A w \in Waiters : Status[w] # "parked"
      <4>1. Stack = {}
        BY <1>1, <3>1, BelowEmpty, StackIsBelow DEF TypeOK
      <4>. QED
        BY <4>1, StatusIs
    <3>3. Status' = [w \in Waiters |-> IF Status[w] = "parked" THEN "woken" ELSE Status[w]]
      BY <2>2, <3>2 DEF Status
    <3>4. WS!NotifyAll
      BY <3>1, <3>3, StatusSets DEF WS!NotifyAll
    <3>. QED
      BY <3>4 DEF WS!Next
  <2>. QED
    BY <2>3, <2>4
<1>13. CASE NotifyParked(n)
  <2>1. /\ mState.stack \in Stack /\ mState.stack \in Parked
        /\ mState'.signals = IF notifyAll[n] THEN mState.waiters ELSE mState.signals
        /\ Stack' = IF notifyAll[n] THEN {} ELSE Stack \ {mState.stack}
    BY <1>1, <1>13, TakenFromStack
  <2>2. mState.stack \in Waiters /\ pc[mState.stack] = "park" /\ Stack \in SUBSET Parked
    BY <1>1, <2>1, StackParked DEF Parked, IInv
  <2>3. CASE ~notifyAll[n]
    <3>1. ~WS!Unsignaled
      BY <1>13, <2>3, StatusSets DEF NotifyParked, HasUnsignaled
    <3>2. PICK w \in Waiters : w = mState.stack
      BY <2>2
    <3>3. /\ Status[w] = "parked" /\ Status'[w] = "woken"
          /\ \A v \in Waiters : v # w => Status'[v] = Status[v]
      BY <1>2, <2>1, <2>2, <2>3, <3>2, StatusIs
    <3>4. Status' = [Status EXCEPT ![w] = "woken"]
      BY <3>3, StatusMoved
    <3>5. WS!NotifyOne
      BY <2>1, <2>3, <3>1, <3>2, <3>3, <3>4, StatusSets DEF WS!NotifyOne, WS!Move
    <3>. QED
      BY <3>5 DEF WS!Next
  <2>4. CASE notifyAll[n]
    <3>1. \A w \in Waiters : Status'[w] = IF Status[w] = "parked" THEN "woken" ELSE Status[w]
      BY <1>2, <2>1, <2>2, <2>4, StatusIs
    <3>2. Status' = [w \in Waiters |-> IF Status[w] = "parked" THEN "woken" ELSE Status[w]]
      BY <3>1 DEF Status
    <3>3. WS!NotifyAll
      BY <2>1, <2>4, <3>2, StatusSets DEF WS!NotifyAll
    <3>. QED
      BY <3>3 DEF WS!Next
  <2>. QED
    BY <2>3, <2>4
<1>. QED
  BY <1>5, <1>6, <1>7, <1>8, <1>9, <1>10, <1>11, <1>12, <1>13 DEF NotifyStep, Notify, Unpark

\* Each operation of the event count takes effect at one instant: the
\* compare-exchange loops, the stack of nodes and the mutexes implement WaitSet.
THEOREM Refinement == NoWrap => (Spec => WS!Spec)
<1>. SUFFICES ASSUME NoWrap PROVE Spec => WS!Spec
  OBVIOUS
<1>1. Init => WS!Init
  <2>. SUFFICES ASSUME Init PROVE WS!Init
    OBVIOUS
  <2>1. \A w \in Waiters : Status[w] = "out"
    BY StatusIs, ParameterAssumption DEF Init, Threads
  <2>2. Status = [w \in Waiters |-> "out"]
    BY <2>1 DEF Status
  <2>. QED
    BY <2>2 DEF WS!Init, Init, NoState
<1>2. IInv /\ IInv' /\ [Next]_vars => [WS!Next]_WS!vars
  <2>. SUFFICES ASSUME IInv, IInv', [Next]_vars PROVE [WS!Next]_WS!vars
    OBVIOUS
  <2>1. CASE UNCHANGED vars
    <3>1. pc' = pc /\ mState' = mState /\ Stack' = Stack
      BY <2>1, StackIsBelow DEF vars
    <3>2. Status' = Status
      BY <3>1, StatusIs, StatusSame
    <3>. QED
      BY <3>1, <3>2 DEF WS!vars
  <2>. QED
    BY <2>1, WaiterRefines, NotifierRefines DEF Next
<1>3. IInv /\ [Next]_vars => IInv'
  BY IInvStep
<1>4. Init => IInv
  BY InitIInv
<1>. QED
  BY <1>1, <1>2, <1>3, <1>4, PTL DEF Spec, WS!Spec
===============================================================================
