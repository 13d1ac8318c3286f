----------------------------- MODULE MCSharedTask -----------------------------
(***************************************************************************)
(* SharedTask for TLC: three awaiters, one of which uses when_ready(), and *)
(* a body that suspends at most once.                                      *)
(***************************************************************************)
EXTENDS SharedTask
===============================================================================
