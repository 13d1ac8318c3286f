----------------------------- MODULE MCHostContext -----------------------------
(***************************************************************************)
(* HostContext for TLC: the client computes x and y, the outside thread z, *)
(* which nobody waits for and which it may add while the client is inside  *)
(* Await, and e, which over a multi-threaded queue it makes available by   *)
(* itself.                                                                 *)
(***************************************************************************)
EXTENDS HostContext

MCThreads == Workers \cup {Client, Outside}
MCValues == {"x", "y", "z", "e"}
AwaitXE == <<"x", "e">>
DependsAll == <<"x", "y", "e">>
ForeignOverWorkers == [k \in {"single", "multi"} |-> IF k = "multi" THEN {"e"} ELSE {}]
ForeignAlways == [k \in {"single", "multi"} |-> {"e"}]
===============================================================================
