----------------------------- MODULE MCAsyncValue -----------------------------
(***************************************************************************)
(* AsyncValue for TLC: three callers, one of whose closures owns its       *)
(* reference, and the resolver.                                            *)
(***************************************************************************)
EXTENDS AsyncValue
===============================================================================
