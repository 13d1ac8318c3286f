----------------------------- MODULE MCWorkQueue ------------------------------
(***************************************************************************)
(* WorkQueue for TLC: a pool of two workers; no symmetry is declared, since*)
(* the run checks liveness.                                                *)
(***************************************************************************)
EXTENDS WorkQueue
===============================================================================
