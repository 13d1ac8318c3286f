-------------------------------- MODULE Future --------------------------------
(***************************************************************************)
(* What an async value promises its users, without the waiter list: it is  *)
(* resolved once, to a value or to an error, and every closure handed to   *)
(* it is called exactly once, after that.                                  *)
(***************************************************************************)
CONSTANT Closures

VARIABLES resolution,  \* "pending", "kConcrete" or "kError"
          registered,  \* closures handed over by AndThen
          called       \* closures that have been called

vars == <<resolution, registered, called>>

Init ==
  /\ resolution = "pending"
  /\ registered = {}
  /\ called = {}

Resolve ==
  /\ resolution = "pending"
  /\ resolution' \in {"kConcrete", "kError"}
  /\ UNCHANGED <<registered, called>>

Register(c) ==
  /\ c \notin registered
  /\ registered' = registered \cup {c}
  /\ UNCHANGED <<resolution, called>>

\* A closure registered on a resolved value may be called on the spot.
CallAtOnce(c) ==
  /\ resolution # "pending"
  /\ c \notin registered
  /\ registered' = registered \cup {c}
  /\ called' = called \cup {c}
  /\ UNCHANGED resolution

Call(c) ==
  /\ resolution # "pending"
  /\ c \in registered \ called
  /\ called' = called \cup {c}
  /\ UNCHANGED <<resolution, registered>>

Next ==
  \/ Resolve
  \/ \E c \in Closures : Register(c) \/ CallAtOnce(c) \/ Call(c)

Spec == Init /\ [][Next]_vars
FairSpec == Spec /\ WF_vars(Resolve) /\ \A c \in Closures : WF_vars(Call(c))
===============================================================================
