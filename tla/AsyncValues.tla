------------------------------ MODULE AsyncValues ------------------------------
(***************************************************************************)
(* The async values a HostContext works with, seen from outside.  Module   *)
(* AsyncValue shows that one value implements Future, so that the test and *)
(* the registration in AndThen may be taken as one step here: a value is   *)
(* resolved once, and every closure is called once, by the thread that     *)
(* resolves the value or by the one that found it resolved.                *)
(*                                                                         *)
(* A closure is a pair <<kind, value>>.  A thread with closures to call    *)
(* (todo), or inside one (cur), goes on with its own program afterwards.   *)
(***************************************************************************)
EXTENDS Integers, Sequences, FiniteSets

CONSTANTS Threads, Values

VARIABLES avail,    \* values that are available
          waiters,  \* per value: closures registered with it
          todo,     \* per thread: closures it still has to call
          cur       \* per thread: where it is inside a closure, or "none"

valueVars == <<avail, waiters, todo, cur>>

ValuesInit ==
  /\ avail = {}
  /\ waiters = [v \in Values |-> {}]
  /\ todo = [t \in Threads |-> {}]
  /\ cur = [t \in Threads |-> "none"]

Idle(t) == todo[t] = {} /\ cur[t] = "none"
Enter(t, where) == cur' = [cur EXCEPT ![t] = where]

\* AsyncValue::AndThen.
AndThen(t, v, kind) ==
  /\ IF v \in avail
     THEN /\ todo' = [todo EXCEPT ![t] = @ \cup {<<kind, v>>}]
          /\ UNCHANGED waiters
     ELSE /\ waiters' = [waiters EXCEPT ![v] = @ \cup {<<kind, v>>}]
          /\ UNCHANGED todo
  /\ UNCHANGED <<avail, cur>>

\* AsyncValue::emplace or SetError.
Resolve(t, v) ==
  /\ v \notin avail
  /\ avail' = avail \cup {v}
  /\ todo' = [todo EXCEPT ![t] = waiters[v]]
  /\ waiters' = [waiters EXCEPT ![v] = {}]
  /\ UNCHANGED cur

\* The thread takes up closure k, which is somewhere inside afterwards.
Call(t, k, where) ==
  /\ cur[t] = "none"
  /\ k \in todo[t]
  /\ todo' = [todo EXCEPT ![t] = @ \ {k}]
  /\ Enter(t, where)
  /\ UNCHANGED <<avail, waiters>>

\* Closures of a kind that are registered or about to be called.
Pending(kind) ==
  {k \in UNION ({waiters[v] : v \in Values} \cup {todo[t] : t \in Threads}) :
     k[1] = kind}
===============================================================================
