----------------------------- MODULE MCEventCount -----------------------------
(***************************************************************************)
(* EventCount for TLC.  Waiters and Notifiers are sets of model values; no *)
(* symmetry is declared, since the run checks liveness.                    *)
(***************************************************************************)
EXTENDS EventCount
===============================================================================
