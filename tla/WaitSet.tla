------------------------------- MODULE WaitSet --------------------------------
(***************************************************************************)
(* What EventCount promises its client: Prewait, CancelWait, CommitWait    *)
(* and Notify each take effect at one instant, on the set of parked        *)
(* threads and a number of signals for the threads in pre-wait.  The words *)
(* and node links of event_count.h are gone, and so is the order in which  *)
(* parked threads are woken.                                               *)
(***************************************************************************)
EXTENDS Integers, FiniteSets

CONSTANT Waiters

VARIABLES status,  \* per waiter: "out", "pre" (wait announced), "parked", "woken"
          signals  \* signals that threads in pre-wait have not consumed

vars == <<status, signals>>

With(s) == {w \in Waiters : status[w] = s}
Unsignaled == signals < Cardinality(With("pre"))
Move(w, from, to) ==
  /\ status[w] = from
  /\ status' = [status EXCEPT ![w] = to]

Init ==
  /\ status = [w \in Waiters |-> "out"]
  /\ signals = 0

Prewait(w) == Move(w, "out", "pre") /\ UNCHANGED signals

\* Giving up a wait takes a signal along when there is one for every thread.
CancelWait(w) ==
  /\ Move(w, "pre", "out")
  /\ signals' = IF Unsignaled THEN signals ELSE signals - 1

\* With a signal to consume, CommitWait returns at once.
CommitConsume(w) ==
  /\ signals > 0
  /\ Move(w, "pre", "out")
  /\ signals' = signals - 1

CommitPark(w) ==
  /\ signals = 0
  /\ Move(w, "pre", "parked")
  /\ UNCHANGED signals

CommitWait(w) == CommitConsume(w) \/ CommitPark(w)

\* The rest of CommitWait, for a thread that was parked.
Return(w) == Move(w, "woken", "out") /\ UNCHANGED signals

\* Notify(false) reaches a thread in pre-wait, or else a parked one, or nobody.
NotifyOne ==
  \/ /\ Unsignaled
     /\ signals' = signals + 1
     /\ UNCHANGED status
  \/ /\ ~Unsignaled
     /\ \E w \in With("parked") : Move(w, "parked", "woken")
     /\ UNCHANGED signals
  \/ /\ ~Unsignaled
     /\ With("parked") = {}
     /\ UNCHANGED vars

NotifyAll ==
  /\ signals' = Cardinality(With("pre"))
  /\ status' = [w \in Waiters |-> IF status[w] = "parked" THEN "woken" ELSE status[w]]

Next ==
  \/ \E w \in Waiters : Prewait(w) \/ CancelWait(w) \/ CommitWait(w) \/ Return(w)
  \/ NotifyOne \/ NotifyAll

Spec == Init /\ [][Next]_vars
FairSpec == Spec /\ \A w \in Waiters : WF_vars(Return(w))
===============================================================================
