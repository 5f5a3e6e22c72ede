---------------------------- MODULE ServiceTasks ----------------------------
(***************************************************************************)
(* service's asynchronous execution: handleAsync creates a task in the     *)
(* TaskStore and starts a goroutine that marks it running, runs the agent  *)
(* and stores the result, while clients poll and cancel tasks by id.  The  *)
(* store is bounded: a full one makes room by evicting the finished task   *)
(* that was updated longest ago.  Every store method is atomic (one mutex);*)
(* the goroutine's three calls interleave with everything else.            *)
(***************************************************************************)
EXTENDS Integers, Sequences, FiniteSets, SequencesExt

CONSTANTS
  TaskId,     \* one per asynchronous request; generateTaskID never repeats one
  MaxTasks    \* capacity of the store, 0 for none

ASSUME TasksAssumption == MaxTasks \in Nat

VARIABLES
  status,     \* of each task in the store, "absent" for the others
  order,      \* tasks in the store by Task.UpdatedAt, the oldest update first
  worker,     \* where the goroutine of each request is
  result,     \* what the agent returned to it
  ctxDone,    \* requests whose context is cancelled
  \* history
  acked       \* tasks whose cancellation a client was told of

vars == <<status, order, worker, result, ctxDone, acked>>

Stored == {id \in TaskId : status[id] # "absent"}
Finished == {"completed", "failed", "cancelled"}

TypeOK ==
  /\ status \in [TaskId -> {"absent", "pending", "running"} \cup Finished]
  /\ order \in Seq(TaskId) /\ {order[i] : i \in DOMAIN order} = Stored
  /\ worker \in [TaskId -> {"none", "spawned", "running", "returned", "done"}]
  /\ result \in [TaskId -> {"none", "ok", "error"}]
  /\ ctxDone \in SUBSET TaskId
  /\ acked \in SUBSET TaskId

Init ==
  /\ status = [id \in TaskId |-> "absent"]
  /\ order = <<>>
  /\ worker = [id \in TaskId |-> "none"]
  /\ result = [id \in TaskId |-> "none"]
  /\ ctxDone = {}
  /\ acked = {}

-----------------------------------------------------------------------------
\* Wrong variant: tasks that are not finished may be evicted too.
Evictable_Any == {order[i] : i \in DOMAIN order \cap {1}}

\* evictOneLocked: the finished task with the oldest update.
Evictable ==
  {order[i] : i \in {k \in DOMAIN order :
                       /\ status[order[k]] \in Finished
                       /\ \A l \in 1..(k - 1) : status[order[l]] \notin Finished}}

\* The order without task id.
Without(id) ==
  IF \E i \in DOMAIN order : order[i] = id
  THEN RemoveAt(order, CHOOSE i \in DOMAIN order : order[i] = id)
  ELSE order

Full == MaxTasks > 0 /\ Cardinality(Stored) >= MaxTasks

\* Wrong variant: the new task is stored without a status.
Submit_NoStatus(id) ==
  /\ worker[id] = "none"
  /\ IF Full
     THEN \E e \in Evictable :
            /\ status' = [status EXCEPT ![e] = "absent", ![id] = ""]
            /\ order' = Append(Without(e), id)
     ELSE /\ status' = [status EXCEPT ![id] = ""]
          /\ order' = Append(order, id)
  /\ worker' = [worker EXCEPT ![id] = "spawned"]
  /\ UNCHANGED <<result, ctxDone, acked>>

\* handleAsync: the task is created and its goroutine started.  A full store
\* with nothing to evict refuses the request, which changes nothing.
Submit(id) ==
  /\ worker[id] = "none"
  /\ IF Full
     THEN \E e \in Evictable :
            /\ status' = [status EXCEPT ![e] = "absent", ![id] = "pending"]
            /\ order' = Append(Without(e), id)
     ELSE /\ status' = [status EXCEPT ![id] = "pending"]
          /\ order' = Append(order, id)
  /\ worker' = [worker EXCEPT ![id] = "spawned"]
  /\ UNCHANGED <<result, ctxDone, acked>>

\* A store update of task id, if it is still there.
Update(id, s) ==
  IF id \in Stored
  THEN /\ status' = [status EXCEPT ![id] = s]
       /\ order' = Append(Without(id), id)
  ELSE UNCHANGED <<status, order>>

\* UpdateStatus(running), whatever the status was.
Begin(id) ==
  /\ worker[id] = "spawned"
  /\ Update(id, "running")
  /\ worker' = [worker EXCEPT ![id] = "running"]
  /\ UNCHANGED <<result, ctxDone, acked>>

\* The agent returns; a cancelled context may, but need not, make it fail.
RunReturns(id, r) ==
  /\ worker[id] = "running"
  /\ worker' = [worker EXCEPT ![id] = "returned"]
  /\ result' = [result EXCEPT ![id] = r]
  /\ UNCHANGED <<status, order, ctxDone, acked>>

\* Wrong variants: a failed run is stored as completed; the goroutine ends
\* without storing its result.
SetResult_IgnoreError(id) ==
  /\ worker[id] = "returned"
  /\ IF status[id] = "cancelled" THEN UNCHANGED <<status, order>>
     ELSE Update(id, "completed")
  /\ worker' = [worker EXCEPT ![id] = "done"]
  /\ ctxDone' = ctxDone \cup {id}
  /\ UNCHANGED <<result, acked>>

SetResult_OnlyOk(id) ==
  /\ worker[id] = "returned"
  /\ IF status[id] = "cancelled" \/ result[id] = "error" THEN UNCHANGED <<status, order>>
     ELSE Update(id, "completed")
  /\ worker' = [worker EXCEPT ![id] = "done"]
  /\ ctxDone' = ctxDone \cup {id}
  /\ UNCHANGED <<result, acked>>

\* SetResult leaves a cancelled task alone; the goroutine then cancels its
\* context and ends.
SetResult(id) ==
  /\ worker[id] = "returned"
  /\ IF status[id] = "cancelled" THEN UNCHANGED <<status, order>>
     ELSE Update(id, IF result[id] = "error" THEN "failed" ELSE "completed")
  /\ worker' = [worker EXCEPT ![id] = "done"]
  /\ ctxDone' = ctxDone \cup {id}
  /\ UNCHANGED <<result, acked>>

\* Wrong variant: finished tasks can be cancelled too.
Cancel_Finished(id) ==
  /\ id \in Stored
  /\ Update(id, "cancelled")
  /\ ctxDone' = ctxDone \cup {id}
  /\ acked' = acked \cup {id}
  /\ UNCHANGED <<worker, result>>

\* handleCancelTask.
Cancel(id) ==
  /\ status[id] \in {"pending", "running"}
  /\ Update(id, "cancelled")
  /\ ctxDone' = ctxDone \cup {id}
  /\ acked' = acked \cup {id}
  /\ UNCHANGED <<worker, result>>

Work(id) == Begin(id) \/ (\E r \in {"ok", "error"} : RunReturns(id, r)) \/ SetResult(id)

Next == \E id \in TaskId : Submit(id) \/ Work(id) \/ Cancel(id)

\* Goroutines run and agents return.
Spec == Init /\ [][Next]_vars /\ \A id \in TaskId : WF_vars(Work(id))

-----------------------------------------------------------------------------
\* Properties

\* A task that nobody cancelled stays visible until its result is stored:
\* making room for a new one keeps the store within its capacity, and never
\* drops work in progress.
WorkStaysVisible ==
  /\ MaxTasks > 0 => Cardinality(Stored) <= MaxTasks
  /\ \A id \in TaskId :
       (worker[id] \in {"spawned", "running", "returned"} /\ id \notin acked) => id \in Stored

\* What a poll sees is what happened: a finished task's run is over, and it
\* is reported completed or failed as the agent returned.
ReportsRun ==
  \A id \in TaskId :
    /\ status[id] = "completed" => worker[id] = "done" /\ result[id] = "ok"
    /\ status[id] = "failed" => worker[id] = "done" /\ result[id] = "error"

\* A reported result is final: later cancellations and updates leave it.
ResultsFinal ==
  [][\A id \in TaskId :
       status[id] \in {"completed", "failed"} => status'[id] \in {status[id], "absent"}]_vars

\* A poller does not wait for ever: a store with unfinished tasks comes to a
\* state in which every task in it is finished.  (Requests are finitely many, so
\* this says it of each task.)
TasksSettle ==
  (\E id \in TaskId : status[id] \in {"pending", "running"})
    ~> (\A id \in TaskId : status[id] \in Finished \cup {"absent"})

\* A poller finds a task until its run is over, and then finds how it ended.
TasksSound == WorkStaysVisible /\ ReportsRun

\* Every task gets a result in the end, and keeps it.
TasksFinish == TasksSettle /\ ResultsFinal

-----------------------------------------------------------------------------
\* What a comment says that the code does not ensure.

\* "Do not overwrite a cancelled task."
CancelledStays ==
  [][\A id \in TaskId :
       status[id] = "cancelled" => status'[id] \in {"cancelled", "absent"}]_vars
=============================================================================
