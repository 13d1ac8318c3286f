------------------------ MODULE SingleThreadedWorkQueue ------------------------
(***************************************************************************)
(* SingleThreadedWorkQueue (context/single_threaded_work_queue.cpp): tasks *)
(* wait in mWorkItems until a caller of Await or Quiesce runs them.        *)
(*                                                                         *)
(* A critical section of mMu is one step; the notify_all that follows it,  *)
(* outside the lock, is another.  The task that makes value v available is *)
(* named v.                                                                *)
(***************************************************************************)
EXTENDS AsyncValues

CONSTANTS Client,   \* the thread that calls Await and Quiesce
          Awaited   \* the values it awaits, as a sequence

VARIABLES
  mWorkItems,
  values_remaining,  \* local of Await, shared with the closures it registers
  local_work_items,  \* local of Await and Quiesce
  next_work_item_index,
  pc,                \* where the client stands
  idx                \* how far the client is in a loop over values

queueVars == <<mWorkItems, values_remaining, local_work_items,
               next_work_item_index>>

QueueInit ==
  /\ mWorkItems = <<>>
  /\ values_remaining = 0
  /\ local_work_items = <<>>
  /\ next_work_item_index = 0

\* The client is at a step of its own program.
At(where) == pc = where /\ Idle(Client)
ItemsLeft == next_work_item_index # Len(local_work_items)

\* mCv.notify_all(): a client asleep on mCv looks again.
Notify == pc' = IF pc = "sleep" THEN "fetch" ELSE pc

(***************************************************************************)
(* AddTask, and AddBlockingTask with allow_queuing: push, then notify.     *)
(***************************************************************************)
AddTask(t, v) ==
  /\ mWorkItems' = Append(mWorkItems, v)
  /\ Enter(t, "notify")
  /\ UNCHANGED <<avail, waiters, todo, values_remaining, local_work_items,
                 next_work_item_index>>

NotifyAll(t) ==
  /\ cur[t] = "notify"
  /\ Notify
  /\ Enter(t, "none")
  /\ UNCHANGED <<avail, waiters, todo, queueVars, idx>>

\* The closure that Await registers: one value less, then notify.
AwaitClosure(t) ==
  /\ \E k \in todo[t] : k[1] = "await" /\ Call(t, k, "notify")
  /\ values_remaining' = values_remaining - 1
  /\ UNCHANGED <<mWorkItems, local_work_items, next_work_item_index, pc, idx>>

(***************************************************************************)
(* Await: register with every value, then run tasks until no value is      *)
(* left; what is left of the batch goes back to the head of the queue.     *)
(***************************************************************************)
AwaitBegin ==
  /\ values_remaining' = Len(Awaited)
  /\ local_work_items' = <<>>
  /\ next_work_item_index' = 0
  /\ UNCHANGED mWorkItems

\* has_values(): a look under the lock before each task.
AwaitHasValues ==
  /\ At("has")
  /\ pc' = CASE values_remaining = 0 -> "tail"
             [] values_remaining # 0 /\ ItemsLeft -> "item"
             [] OTHER -> "fetch"
  /\ local_work_items' = IF values_remaining # 0 /\ ~ItemsLeft
                         THEN <<>> ELSE local_work_items
  /\ UNCHANGED <<valueVars, mWorkItems, values_remaining, next_work_item_index, idx>>

\* The batch is used up: sleep while there is neither a task nor an end, then
\* take the whole queue as the next batch.
AwaitFetch ==
  /\ At("fetch")
  /\ \/ /\ values_remaining # 0 /\ mWorkItems = <<>>
        /\ pc' = "sleep"
        /\ UNCHANGED queueVars
     \/ /\ values_remaining = 0
        /\ pc' = "tail"
        /\ UNCHANGED queueVars
     \/ /\ values_remaining # 0 /\ mWorkItems # <<>>
        /\ local_work_items' = mWorkItems
        /\ mWorkItems' = <<>>
        /\ next_work_item_index' = 0
        /\ pc' = "item"
        /\ UNCHANGED values_remaining
  /\ UNCHANGED <<valueVars, idx>>

SpuriousWakeup ==
  /\ At("sleep")
  /\ pc' = "fetch"
  /\ UNCHANGED <<valueVars, queueVars, idx>>

\* Mutant: the batch goes back behind the tasks added meanwhile.
AwaitPutBackLast ==
  /\ At("tail")
  /\ mWorkItems' = mWorkItems \o SubSeq(local_work_items, next_work_item_index + 1,
                                        Len(local_work_items))
  /\ pc' = "awaited"
  /\ UNCHANGED <<valueVars, values_remaining, local_work_items,
                 next_work_item_index, idx>>

\* An index beyond the end of the batch makes the range of the insert run
\* backwards, which is undefined; the model goes no further.
AwaitPutBack ==
  /\ At("tail")
  /\ IF next_work_item_index <= Len(local_work_items)
     THEN /\ mWorkItems' = SubSeq(local_work_items, next_work_item_index + 1,
                                  Len(local_work_items)) \o mWorkItems
          /\ pc' = "awaited"
     ELSE /\ pc' = "undefined"
          /\ UNCHANGED mWorkItems
  /\ UNCHANGED <<valueVars, values_remaining, local_work_items,
                 next_work_item_index, idx>>

(***************************************************************************)
(* Quiesce: run batch after batch until the queue is found empty.          *)
(***************************************************************************)
QuiesceFetch ==
  /\ At("quiesce")
  /\ IF mWorkItems = <<>>
     THEN pc' = "quiesced" /\ UNCHANGED queueVars
     ELSE /\ local_work_items' = mWorkItems
          /\ mWorkItems' = <<>>
          /\ next_work_item_index' = 0
          /\ pc' = "qitem"
          /\ UNCHANGED values_remaining
  /\ UNCHANGED <<valueVars, idx>>

QuiesceBatchDone ==
  /\ At("qitem")
  /\ ~ItemsLeft
  /\ pc' = "quiesce"
  /\ UNCHANGED <<valueVars, queueVars, idx>>

\* The client calls the next task of the batch, which makes its value available.
RunItem ==
  /\ At("item") \/ (At("qitem") /\ ItemsLeft)
  /\ Resolve(Client, local_work_items[next_work_item_index + 1])
  /\ next_work_item_index' = next_work_item_index + 1
  /\ pc' = IF pc = "item" THEN "has" ELSE "qitem"
  /\ UNCHANGED <<mWorkItems, values_remaining, local_work_items, idx>>
===============================================================================
