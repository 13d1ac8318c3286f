----------------------- MODULE MCMultiThreadedWorkQueue -----------------------
(***************************************************************************)
(* MultiThreadedWorkQueue for TLC; no symmetry is declared, since the run  *)
(* checks liveness.                                                        *)
(***************************************************************************)
EXTENDS MultiThreadedWorkQueue
===============================================================================
