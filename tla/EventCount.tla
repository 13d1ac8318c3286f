------------------------------ MODULE EventCount ------------------------------
(***************************************************************************)
(* EventCount (concurrent/event_count.h): threads park on a lock-free      *)
(* stack of waiters until a notifier changes the predicate they wait for.  *)
(* Every load and every compare-exchange of mState, every access to        *)
(* Waiter::next and every critical section of Waiter::mu is one step.      *)
(*                                                                         *)
(* The predicate is the client's: here the number of items on offer.  A    *)
(* waiter uses the event count as WorkQueueBase::WaitForWork does: Prewait,*)
(* check the predicate, then CancelWait and take an item, or CommitWait    *)
(* and start over.  A notifier adds an item and then calls Notify.         *)
(***************************************************************************)
EXTENDS Integers, FiniteSets

CONSTANTS Waiters,    \* threads that wait; also the indices into mWaiters
          Notifiers,  \* free-standing threads that add items
          MaxCalls,   \* bound: Notify calls in all
          EpochMod,   \* number of values of the ABA counter (2^22 in the code)
          Empty       \* kStackMask in the stack field: no waiter

ASSUME ParameterAssumption ==
  /\ IsFiniteSet(Waiters) /\ IsFiniteSet(Notifiers)
  /\ Waiters \cap Notifiers = {}
  /\ Empty \notin Waiters
  /\ MaxCalls \in Nat
  /\ EpochMod \in Nat \ {0}

VARIABLES
  mState,   \* [stack, waiters, signals, epoch]
  next,     \* Waiter::next: the stack and epoch fields below this node
  epoch,    \* Waiter::epoch
  signal,   \* Waiter::state
  asleep,   \* the thread is inside cv.wait
  items,    \* the client's predicate is items > 0
  calls,    \* bound: Notify calls made
  pc, state, \* per thread: control point and local copy of mState
  below,    \* per notifier: the next field it read (Notify), or the node that
            \* Unpark goes on to
  target,   \* per notifier: the node Unpark is working on
  notifyAll \* per notifier: the argument of Notify

vars == <<mState, next, epoch, signal, asleep, items, calls, pc, state,
          below, target, notifyAll>>
waiterVars   == <<next, epoch, signal, asleep>>
notifierVars == <<below, target, notifyAll, calls>>

Threads == Waiters \cup Notifiers
StackPtr == Waiters \cup {Empty}
Link  == [stack : StackPtr, epoch : 0 .. EpochMod - 1]
State == [stack : StackPtr, waiters : Int, signals : Int, epoch : 0 .. EpochMod - 1]
NoState == [stack |-> Empty, waiters |-> 0, signals |-> 0, epoch |-> 0]
LinkOf(s) == [stack |-> s.stack, epoch |-> s.epoch]

Init ==
  /\ mState = NoState
  /\ next = [w \in Waiters |-> LinkOf(NoState)]
  /\ epoch = [w \in Waiters |-> 0]
  /\ signal = [w \in Waiters |-> "kNotSignaled"]
  /\ asleep = [w \in Waiters |-> FALSE]
  /\ items = 0
  /\ calls = 0
  /\ pc = [t \in Threads |-> "idle"]
  /\ state = [t \in Threads |-> NoState]
  /\ below = [n \in Notifiers |-> LinkOf(NoState)]
  /\ target = [n \in Notifiers |-> Empty]
  /\ notifyAll = [n \in Notifiers |-> FALSE]

Goto(t, to) == pc' = [pc EXCEPT ![t] = to]

(***************************************************************************)
(* Prewait.  The new word of this compare-exchange loop, and of the one in *)
(* CancelWait, is a function of the expected word alone: whatever happened *)
(* between the load and the exchange that succeeds, the loop as a whole is *)
(* one atomic update.                                                      *)
(***************************************************************************)
Prewait(w) ==
  /\ pc[w] = "idle"
  /\ mState' = [mState EXCEPT !.waiters = @ + 1]
  /\ Goto(w, "check")
  /\ UNCHANGED <<waiterVars, items, state, notifierVars>>

(***************************************************************************)
(* The client re-checks its predicate between Prewait and the wait (here   *)
(* NonEmptyQueueIndex of WaitForWork).                                     *)
(***************************************************************************)
CheckPredicate(w) ==
  /\ pc[w] = "check"
  /\ Goto(w, IF items > 0 THEN "cancel" ELSE "commit")
  /\ UNCHANGED <<mState, waiterVars, items, state, notifierVars>>

(***************************************************************************)
(* CancelWait.  A signal is taken along only when every thread in pre-wait *)
(* has one.                                                                *)
(***************************************************************************)
\* Mutant: CancelWait never takes a signal along.
CancelledKeepsSignals(s) == [s EXCEPT !.waiters = @ - 1]

Cancelled(s) ==
  [s EXCEPT !.waiters = @ - 1,
            !.signals = IF s.waiters = s.signals THEN @ - 1 ELSE @]

CancelWait(w) ==
  /\ pc[w] = "cancel"
  /\ mState' = Cancelled(mState)
  /\ Goto(w, "take")
  /\ UNCHANGED <<waiterVars, items, state, notifierVars>>

\* The client takes an item if one is left (Steal) and works on.
TakeItem(w) ==
  /\ pc[w] = "take"
  /\ items' = IF items > 0 THEN items - 1 ELSE items
  /\ Goto(w, "idle")
  /\ UNCHANGED <<mState, waiterVars, state, notifierVars>>

(***************************************************************************)
(* CommitWait: consume a pending signal and return, or push this waiter    *)
(* on the stack and park.  A compare-exchange that fails leaves the        *)
(* current word in the local copy; next is written before each attempt to  *)
(* push.  A spurious failure is a stuttering step.                         *)
(***************************************************************************)
Succeeds(t) == mState = state[t]

\* (Re-)read the word and, if there is no signal to consume, store next.
LoadAndLink(w) ==
  /\ state' = [state EXCEPT ![w] = mState]
  /\ next' = IF mState.signals # 0 THEN next
             ELSE [next EXCEPT ![w] = LinkOf(mState)]

CommitLoad(w) ==
  /\ pc[w] = "commit"
  /\ signal' = [signal EXCEPT ![w] = "kNotSignaled"]
  /\ LoadAndLink(w)
  /\ Goto(w, "commitCas")
  /\ UNCHANGED <<mState, epoch, asleep, items, notifierVars>>

CommitRetry(w) ==
  /\ pc[w] = "commitCas" /\ ~Succeeds(w)
  /\ LoadAndLink(w)
  /\ UNCHANGED <<mState, epoch, signal, asleep, items, pc, notifierVars>>

\* The local copies are dead once the call is over.
Forget(t) == state' = [state EXCEPT ![t] = NoState]

CommitConsume(w) ==
  /\ pc[w] = "commitCas" /\ Succeeds(w) /\ mState.signals # 0
  /\ mState' = [mState EXCEPT !.waiters = @ - 1, !.signals = @ - 1]
  /\ Forget(w)
  /\ Goto(w, "idle")
  /\ UNCHANGED <<waiterVars, items, notifierVars>>

\* Mutant: no ABA counter in the word.
PushedNoEpoch(s, w) ==
  [stack |-> w, waiters |-> s.waiters - 1, signals |-> 0, epoch |-> 0]

Pushed(s, w) ==
  [stack |-> w, waiters |-> s.waiters - 1, signals |-> 0, epoch |-> epoch[w]]
NextEpoch(w) == (epoch[w] + 1) % EpochMod

CommitPush(w) ==
  /\ pc[w] = "commitCas" /\ Succeeds(w) /\ mState.signals = 0
  /\ mState' = Pushed(mState, w)
  /\ epoch' = [epoch EXCEPT ![w] = NextEpoch(w)]
  /\ Forget(w)
  /\ Goto(w, "park")
  /\ UNCHANGED <<next, signal, asleep, items, notifierVars>>

CommitWait(w) == CommitLoad(w) \/ CommitRetry(w) \/ CommitConsume(w) \/ CommitPush(w)

(***************************************************************************)
(* Park: under Waiter::mu, return if signaled, otherwise wait on the       *)
(* condition variable (and look again after a wake-up, spurious or not).   *)
(***************************************************************************)
Park(w) ==
  /\ pc[w] = "park" /\ ~asleep[w]
  /\ \/ /\ signal[w] = "kSignaled"
        /\ Goto(w, "idle")
        /\ UNCHANGED <<signal, asleep>>
     \/ /\ signal[w] # "kSignaled"
        /\ signal' = [signal EXCEPT ![w] = "kWaiting"]
        /\ asleep' = [asleep EXCEPT ![w] = TRUE]
        /\ UNCHANGED pc
  /\ UNCHANGED <<mState, next, epoch, items, state, notifierVars>>

SpuriousWakeup(w) ==
  /\ asleep[w]
  /\ asleep' = [asleep EXCEPT ![w] = FALSE]
  /\ UNCHANGED <<mState, next, epoch, signal, items, pc, state, notifierVars>>

(***************************************************************************)
(* A notifier changes the predicate, then calls Notify(one) or             *)
(* Notify(all).                                                            *)
(***************************************************************************)
AddItem(n, all) ==
  /\ pc[n] = "idle" /\ calls < MaxCalls
  /\ calls' = calls + 1
  /\ items' = items + 1
  /\ notifyAll' = [notifyAll EXCEPT ![n] = all]
  /\ Goto(n, "notifyLoad")
  /\ UNCHANGED <<mState, waiterVars, state, below, target>>

NotifyLoad(n) ==
  /\ pc[n] = "notifyLoad"
  /\ state' = [state EXCEPT ![n] = mState]
  /\ Goto(n, "notify")
  /\ UNCHANGED <<mState, waiterVars, items, notifierVars>>

\* Mutant: Notify signals one thread too many.
HasUnsignaledOrEqual(s) == s.signals <= s.waiters

NobodyWaits(s) == s.stack = Empty /\ s.waiters = s.signals
HasUnsignaled(s) == s.signals < s.waiters
Pops(n) == ~notifyAll[n] /\ ~HasUnsignaled(state[n])

Return(n) ==
  /\ Goto(n, "idle")
  /\ Forget(n)
  /\ below' = [below EXCEPT ![n] = LinkOf(NoState)]
  /\ target' = [target EXCEPT ![n] = Empty]
  /\ notifyAll' = [notifyAll EXCEPT ![n] = FALSE]

NotifyNobody(n) ==
  /\ pc[n] = "notify" /\ NobodyWaits(state[n])
  /\ Return(n)
  /\ UNCHANGED <<mState, waiterVars, items, calls>>

\* A pop reads next of the top node it saw.
NotifyPrepare(n) ==
  /\ pc[n] = "notify" /\ ~NobodyWaits(state[n])
  /\ below' = IF Pops(n) THEN [below EXCEPT ![n] = next[state[n].stack]]
              ELSE below
  /\ Goto(n, "notifyCas")
  /\ UNCHANGED <<mState, waiterVars, items, state, target, notifyAll, calls>>

NotifyRetry(n) ==
  /\ pc[n] = "notifyCas" /\ ~Succeeds(n)
  /\ state' = [state EXCEPT ![n] = mState]
  /\ Goto(n, "notify")
  /\ UNCHANGED <<mState, waiterVars, items, notifierVars>>

SignalAll(s) ==
  [stack |-> Empty, waiters |-> s.waiters, signals |-> s.waiters, epoch |-> 0]
SignalOne(s) == [s EXCEPT !.signals = @ + 1]
Popped(s, link) == [s EXCEPT !.stack = link.stack, !.epoch = link.epoch]

Notified(n) ==
  IF notifyAll[n] THEN SignalAll(mState)
  ELSE IF HasUnsignaled(mState) THEN SignalOne(mState)
  ELSE Popped(mState, below[n])

\* The stack keeps its nodes: a pre-wait thread was signaled, or all of them.
NotifyPrewaiters(n) ==
  /\ pc[n] = "notifyCas" /\ Succeeds(n)
  /\ (~notifyAll[n] /\ HasUnsignaled(mState)) \/ mState.stack = Empty
  /\ mState' = Notified(n)
  /\ Return(n)
  /\ UNCHANGED <<waiterVars, items, calls>>

\* One node, or the whole stack, is taken to Unpark; a notify-one cuts the
\* popped node off the rest.
NotifyParked(n) ==
  /\ pc[n] = "notifyCas" /\ Succeeds(n)
  /\ notifyAll[n] \/ ~HasUnsignaled(mState)
  /\ mState.stack # Empty
  /\ mState' = Notified(n)
  /\ next' = IF notifyAll[n] THEN next
             ELSE [next EXCEPT ![mState.stack] = LinkOf(NoState)]
  /\ target' = [target EXCEPT ![n] = mState.stack]
  /\ Goto(n, "unpark")
  /\ Forget(n)
  /\ UNCHANGED <<epoch, signal, asleep, items, below, notifyAll, calls>>

(***************************************************************************)
(* Unpark: read the successor before the waiter may run again, then signal *)
(* it under its mutex and wake it if it was waiting.                       *)
(***************************************************************************)
UnparkReadNext(n) ==
  /\ pc[n] = "unpark"
  /\ below' = [below EXCEPT ![n] = next[target[n]]]
  /\ Goto(n, "signal")
  /\ UNCHANGED <<mState, waiterVars, items, state, target, notifyAll, calls>>

\* Mutant: the waiter is marked but its condition variable is not notified.
UnparkSilently(n) ==
  LET w == target[n] IN
  /\ pc[n] = "signal"
  /\ signal' = [signal EXCEPT ![w] = "kSignaled"]
  /\ \/ /\ below[n].stack = Empty
        /\ Return(n)
     \/ /\ below[n].stack # Empty
        /\ target' = [target EXCEPT ![n] = below[n].stack]
        /\ Goto(n, "unpark")
        /\ UNCHANGED <<state, below, notifyAll>>
  /\ UNCHANGED <<mState, next, epoch, asleep, items, calls>>

UnparkSignal(n) ==
  LET w == target[n] IN
  /\ pc[n] = "signal"
  /\ signal' = [signal EXCEPT ![w] = "kSignaled"]
  /\ asleep' = IF signal[w] = "kWaiting" THEN [asleep EXCEPT ![w] = FALSE]
               ELSE asleep
  /\ \/ /\ below[n].stack = Empty
        /\ Return(n)
     \/ /\ below[n].stack # Empty
        /\ target' = [target EXCEPT ![n] = below[n].stack]
        /\ Goto(n, "unpark")
        /\ UNCHANGED <<state, below, notifyAll>>
  /\ UNCHANGED <<mState, next, epoch, items, calls>>

WaiterStep(w) ==
  \/ Prewait(w) \/ CheckPredicate(w) \/ CancelWait(w) \/ TakeItem(w)
  \/ CommitWait(w) \/ Park(w)
Notify(n) ==
  \/ NotifyLoad(n) \/ NotifyNobody(n) \/ NotifyPrepare(n) \/ NotifyRetry(n)
  \/ NotifyPrewaiters(n) \/ NotifyParked(n)
Unpark(n) == UnparkReadNext(n) \/ UnparkSignal(n)
NotifyStep(n) == Notify(n) \/ Unpark(n)

Next ==
  \/ \E w \in Waiters : WaiterStep(w) \/ SpuriousWakeup(w)
  \/ \E n \in Notifiers : NotifyStep(n) \/ \E all \in BOOLEAN : AddItem(n, all)

(***************************************************************************)
(* The operating system runs every thread; nobody is obliged to notify.    *)
(***************************************************************************)
Fairness ==
  /\ \A w \in Waiters : WF_vars(WaiterStep(w))
  /\ \A n \in Notifiers : WF_vars(NotifyStep(n))

Spec == Init /\ [][Next]_vars
FairSpec == Spec /\ Fairness
-------------------------------------------------------------------------------
(***************************************************************************)
(* Properties                                                              *)
(***************************************************************************)

\* Every variable keeps its type.
TypeOK ==
  /\ mState \in State
  /\ next \in [Waiters -> Link]
  /\ epoch \in [Waiters -> 0 .. EpochMod - 1]
  /\ signal \in [Waiters -> {"kNotSignaled", "kWaiting", "kSignaled"}]
  /\ asleep \in [Waiters -> BOOLEAN]
  /\ items \in Nat
  /\ calls \in 0 .. MaxCalls
  /\ pc \in [Threads -> {"idle", "check", "cancel", "take", "commit", "commitCas",
                         "park", "notifyLoad", "notify", "notifyCas", "unpark",
                         "signal"}]
  /\ state \in [Threads -> State]
  /\ below \in [Notifiers -> Link]
  /\ target \in [Notifiers -> StackPtr]
  /\ notifyAll \in [Notifiers -> BOOLEAN]

\* The threads between Prewait and the end of CommitWait or CancelWait.
InPrewait == {w \in Waiters : pc[w] \in {"check", "cancel", "commit", "commitCas"}}

\* What CheckState asserts of every word, and more: the waiters field counts
\* exactly the threads in pre-wait, however CancelWait, CommitWait and Notify
\* interleave, there are never more signals than threads to take them, and with
\* no thread waiting the word is back at its initial value, its ABA counter
\* included (~EventCount).
CheckState ==
  /\ TypeOK
  /\ mState.waiters = Cardinality(InPrewait)
  /\ 0 <= mState.signals /\ mState.signals <= mState.waiters
  /\ (\A w \in Waiters : pc[w] \in {"idle", "take"}) => mState = NoState

\* The waiters reachable from a stack pointer: those in every set that holds the
\* pointer and with each node the one below it.
Closed(S) == \A w \in S : next[w].stack \in S \cup {Empty}
Chain(p) ==
  {w \in Waiters : \A S \in SUBSET Waiters : Closed(S) /\ p \in S \cup {Empty} => w \in S}

\* The waiters an Unpark has taken off the stack and still has to signal.
BeingUnparked(n) ==
  CASE pc[n] = "unpark" -> Chain(target[n])
    [] pc[n] = "signal" -> {target[n]} \cup Chain(below[n].stack)
    [] OTHER -> {}

\* A thread that committed to waiting and has not been signaled is on the
\* stack or in the hands of exactly one Unpark: a pop that read a stale next
\* (the ABA case) would drop a waiter or link one in twice.
ParkedAreReachable ==
  LET unsignaled == {w \in Waiters : pc[w] = "park" /\ signal[w] # "kSignaled"}
  IN /\ unsignaled = Chain(mState.stack)
                       \cup UNION {BeingUnparked(n) : n \in Notifiers}
     /\ \A n \in Notifiers : Chain(mState.stack) \cap BeingUnparked(n) = {}
     /\ \A m, n \in Notifiers :
          m # n => BeingUnparked(m) \cap BeingUnparked(n) = {}

\* With fair threads no item is left while every thread sleeps: each item that
\* was announced by a Notify is taken.
EveryItemTaken == items > 0 ~> items = 0

\* A waiter as the client sees it.
StatusOf(w) ==
  IF w \in InPrewait THEN "pre"
  ELSE IF pc[w] # "park" THEN "out"
  ELSE IF w \in Chain(mState.stack) THEN "parked"
  ELSE "woken"
Status == [w \in Waiters |-> StatusOf(w)]

WS == INSTANCE WaitSet WITH signals <- mState.signals, status <- Status

\* Every operation takes effect at one instant, as WaitSet says: no interleaving
\* of the compare-exchange loops, the stack of nodes and the mutexes is visible
\* to the client, and a thread that was popped does come back.
ImplementsWaitSet == WS!FairSpec
===============================================================================
