----------------------------- MODULE MCTaskGraph ------------------------------
(***************************************************************************)
(* TaskGraph for TLC: every acyclic graph over the nodes 1 .. N, up to     *)
(* renaming, since an acyclic graph can be numbered along its edges.       *)
(***************************************************************************)
EXTENDS TaskGraph

CONSTANT N

MCNodes == 1 .. N
MCGraphs == SUBSET {<<m, n>> \in MCNodes \X MCNodes : m < n}
===============================================================================
