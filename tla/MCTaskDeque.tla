------------------------------ MODULE MCTaskDeque ------------------------------
(***************************************************************************)
(* TaskDeque for TLC: the owner and a set of interchangeable thieves.      *)
(***************************************************************************)
EXTENDS TaskDeque, TLC

Symmetry == Permutations(Thieves)
===============================================================================
