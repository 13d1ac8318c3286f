------------------------------ MODULE MCSyncWait ------------------------------
(***************************************************************************)
(* SyncWait for TLC: none to three tasks, two workers with queues of one   *)
(* slot, and tasks that move to the pool at most twice.                    *)
(***************************************************************************)
EXTENDS SyncWait

TaskNumbers == 1 .. MaxTasks
===============================================================================
