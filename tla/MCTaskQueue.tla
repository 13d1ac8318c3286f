------------------------------ MODULE MCTaskQueue ------------------------------
(***************************************************************************)
(* TaskQueue for TLC: interchangeable threads.                             *)
(***************************************************************************)
EXTENDS TaskQueue, TLC

Symmetry == Permutations(Threads)
===============================================================================
