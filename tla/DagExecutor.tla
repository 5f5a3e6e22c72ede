---------------------------- MODULE DagExecutor ----------------------------
(***************************************************************************)
(* orchestrate.ExecuteDAG: an event loop that schedules the nodes of a     *)
(* validated graph, one goroutine per running node, a completion channel   *)
(* between them, and one teardown path (abort) for errors, cancellation    *)
(* and early exit, with optional Saga compensation and checkpoints.        *)
(*                                                                         *)
(* The event loop handles one completion at a time under its mutex; the    *)
(* propagation it triggers (in-degrees, ready nodes, skipped conditions)   *)
(* is unrolled into the steps Propagate and Schedule, and the loop takes   *)
(* the next completion only when they are exhausted.  Node goroutines      *)
(* interleave with all of it.                                              *)
(*                                                                         *)
(* A finished or killed execution may be started again with the same       *)
(* session id: it then resumes from the checkpoint store.                  *)
(***************************************************************************)
EXTENDS Integers, Sequences, FiniteSets

CONSTANTS
  Node,
  Deps,           \* the dependencies of each node
  TopoOrder,      \* topologicalSort(nodes)
  Priority,       \* scheduling priority of each node
  Optional,       \* nodes that may fail under the Skip strategy
  Compensatable,  \* nodes whose Runner can be rolled back
  Conditional,    \* nodes with a Condition that may be false
  FaultyMapper,   \* nodes with an InputMapper that may fail
  ExitNode,       \* nodes whose result may trigger early exit
  Retries,        \* Node.Retries
  Strategy,       \* subset of {"abort", "skip", "backward", "forward"}
  Limit,          \* values of MaxConcurrency, 0 for none
  Checkpoints,    \* whether a CheckpointStore is configured
  MaxStarts       \* bound: executions with the same session id

\* ValidateDAG: known, acyclic dependencies; TopoOrder lists every node once,
\* after its dependencies.
ASSUME DagAssumption ==
  /\ Deps \in [Node -> SUBSET Node]
  /\ IsFiniteSet(Node)
  /\ TopoOrder \in Seq(Node)
  /\ Len(TopoOrder) = Cardinality(Node)
  /\ {TopoOrder[i] : i \in DOMAIN TopoOrder} = Node
  /\ \A i, j \in DOMAIN TopoOrder : TopoOrder[i] \in Deps[TopoOrder[j]] => i < j
  /\ Retries \in Nat
  /\ Strategy \subseteq {"abort", "skip", "backward", "forward"}
  /\ Limit \subseteq Nat
  /\ Checkpoints \in BOOLEAN
  /\ MaxStarts \in Nat \ {0}

VARIABLES
  cfg,        \* strategy, priority scheduling, concurrency limit
  oracle,     \* what conditions, mappers and the early-exit function will say
  \* the executor
  phase,      \* of the event loop
  status,     \* DAGResult.NodeStatus
  inDegree,   \* unsettled dependencies of each node
  pending,    \* nodes the loop still waits for
  settling,   \* nodes whose downstream is to be propagated
  ready,      \* nodes to schedule (the priority queue, if enabled)
  activePQ,   \* nodes launched from the priority queue
  doneCh,     \* completions, in order
  toDrain,    \* completions abort still reads
  recovering, \* the node in forward recovery, or none
  undo,       \* nodes still to compensate
  cancelled,  \* the shared context is done
  \* node goroutines
  gr,         \* phase of each node's goroutine
  attempt,    \* runner attempts it has made
  \* across executions
  saved,      \* nodes in the checkpoint store
  starts,     \* executions so far
  \* history
  ran,        \* nodes whose runner this execution has called
  succeeded,  \* nodes whose runner returned a response, effects in place
  undone,     \* nodes whose last success was compensated
  restored    \* nodes this execution took from a checkpoint

loopVars == <<phase, status, inDegree, pending, settling, ready, activePQ,
              toDrain, recovering, undo>>
grVars == <<gr, attempt>>
history == <<ran, succeeded, undone, restored>>
vars == <<cfg, oracle, loopVars, doneCh, cancelled, grVars, saved, starts, history>>

-----------------------------------------------------------------------------
NodeStatus == {"pending", "running", "done", "failed", "skipped", "compensated"}
Settled == {"done", "skipped"}
Downstream(n) == {m \in Node : n \in Deps[m]}
WithStatus(s) == {n \in Node : status[n] = s}
CountRunning == Cardinality(WithStatus("running"))
InFlight == {n \in Node : gr[n] \in {"wait", "run", "backoff"}}

TypeOK ==
  /\ cfg \in [strategy : Strategy, pq : BOOLEAN, limit : Limit]
  /\ oracle \in [condFalse : SUBSET Conditional, mapperFails : SUBSET FaultyMapper,
                 exit : SUBSET ExitNode]
  /\ phase \in {"loop", "recover", "drain", "undo", "returned", "dead"}
  /\ status \in [Node -> NodeStatus]
  /\ inDegree \in [Node -> 0..Cardinality(Node)]
  /\ pending \in 0..Cardinality(Node)
  /\ settling \in SUBSET Node
  /\ ready \in SUBSET Node
  /\ activePQ \in 0..Cardinality(Node)
  /\ doneCh \in Seq([node : Node, res : {"ok", "error", "interrupted"}])
  /\ Len(doneCh) <= Cardinality(Node)
  /\ toDrain \in 0..Cardinality(Node)
  /\ recovering \in SUBSET Node
  /\ undo \in SUBSET Node
  /\ cancelled \in BOOLEAN
  /\ gr \in [Node -> {"none", "wait", "run", "backoff", "posted"}]
  /\ attempt \in [Node -> 0..(Retries + 1)]
  /\ saved \in SUBSET Node
  /\ starts \in 1..MaxStarts
  /\ ran \in SUBSET Node
  /\ succeeded \in SUBSET Node
  /\ undone \in SUBSET Node
  /\ restored \in SUBSET Node

-----------------------------------------------------------------------------
\* Wrong variants: one restored dependency is enough; restored nodes are
\* enqueued as well.
Start_AnyDep(checkpoint) ==
  [ status   |-> [n \in Node |-> IF n \in checkpoint THEN "done" ELSE "pending"],
    inDegree |-> [n \in Node |-> Cardinality(Deps[n] \ checkpoint)],
    pending  |-> Cardinality(Node \ checkpoint),
    ready    |-> {n \in Node \ checkpoint : Deps[n] = {} \/ Deps[n] \cap checkpoint # {}} ]

Start_RunRestored(checkpoint) ==
  [ status   |-> [n \in Node |-> IF n \in checkpoint THEN "done" ELSE "pending"],
    inDegree |-> [n \in Node |-> Cardinality(Deps[n] \ checkpoint)],
    pending  |-> Cardinality(Node \ checkpoint),
    ready    |-> {n \in Node : Deps[n] \subseteq checkpoint} ]

\* newDagExecutor and the first half of run: nodes in the checkpoint store
\* are done, in-degrees count the other dependencies, roots are enqueued.
Start(checkpoint) ==
  [ status   |-> [n \in Node |-> IF n \in checkpoint THEN "done" ELSE "pending"],
    inDegree |-> [n \in Node |-> Cardinality(Deps[n] \ checkpoint)],
    pending  |-> Cardinality(Node \ checkpoint),
    ready    |-> {n \in Node \ checkpoint : Deps[n] \subseteq checkpoint} ]

Init ==
  /\ cfg \in [strategy : Strategy, pq : BOOLEAN, limit : Limit]
  /\ oracle \in [condFalse : SUBSET Conditional, mapperFails : SUBSET FaultyMapper,
                 exit : SUBSET ExitNode]
  /\ phase = "loop"
  /\ status = Start({}).status
  /\ inDegree = Start({}).inDegree
  /\ pending = Start({}).pending
  /\ settling = {}
  /\ ready = Start({}).ready
  /\ activePQ = 0
  /\ doneCh = <<>>
  /\ toDrain = 0
  /\ recovering = {}
  /\ undo = {}
  /\ cancelled = FALSE
  /\ gr = [n \in Node |-> "none"]
  /\ attempt = [n \in Node |-> 0]
  /\ saved = {}
  /\ starts = 1
  /\ ran = {}
  /\ succeeded = {}
  /\ undone = {}
  /\ restored = {}

\* A later execution of the same graph, after a return or a crash.  The
\* conditions, mappers and the exit function are evaluated afresh.
Restart ==
  /\ phase \in {"returned", "dead"}
  /\ \A n \in Node : gr[n] = "none"
  /\ starts < MaxStarts
  /\ starts' = starts + 1
  /\ oracle' \in [condFalse : SUBSET Conditional, mapperFails : SUBSET FaultyMapper,
                  exit : SUBSET ExitNode]
  /\ phase' = "loop"
  /\ status' = Start(saved).status
  /\ inDegree' = Start(saved).inDegree
  /\ pending' = Start(saved).pending
  /\ ready' = Start(saved).ready
  /\ restored' = saved
  /\ ran' = {}
  /\ settling' = {} /\ activePQ' = 0 /\ toDrain' = 0 /\ recovering' = {}
  /\ undo' = {} /\ doneCh' = <<>> /\ cancelled' = FALSE
  /\ attempt' = [n \in Node |-> 0]
  /\ UNCHANGED <<cfg, gr, saved, succeeded, undone>>

-----------------------------------------------------------------------------
\* Scheduling inside the event loop's critical section.

\* Wrong variants: a node is propagated more than once; a node is released
\* by its first settled dependency.
Propagate_Again(n) ==
  /\ phase = "loop" /\ n \in settling
  /\ inDegree' = [m \in Node |-> IF m \in Downstream(n) THEN inDegree[m] - 1 ELSE inDegree[m]]
  /\ ready' = ready \cup {m \in Downstream(n) : inDegree[m] = 1 /\ status[m] = "pending"}
  /\ UNCHANGED <<cfg, oracle, phase, status, pending, settling, activePQ, toDrain, recovering,
                 undo, doneCh, cancelled, grVars, saved, starts, history>>

Propagate_FirstDep(n) ==
  /\ phase = "loop" /\ n \in settling
  /\ settling' = settling \ {n}
  /\ inDegree' = [m \in Node |-> IF m \in Downstream(n) THEN inDegree[m] - 1 ELSE inDegree[m]]
  /\ ready' = ready \cup {m \in Downstream(n) : status[m] = "pending"}
  /\ UNCHANGED <<cfg, oracle, phase, status, pending, activePQ, toDrain, recovering,
                 undo, doneCh, cancelled, grVars, saved, starts, history>>

\* propagateDownstream for one settled node.
Propagate(n) ==
  /\ phase = "loop"
  /\ n \in settling
  /\ settling' = settling \ {n}
  /\ inDegree' = [m \in Node |-> IF m \in Downstream(n) THEN inDegree[m] - 1
                                 ELSE inDegree[m]]
  /\ ready' = ready \cup {m \in Downstream(n) : inDegree[m] = 1 /\ status[m] = "pending"}
  /\ UNCHANGED <<cfg, oracle, phase, status, pending, activePQ, toDrain, recovering,
                 undo, doneCh, cancelled, grVars, saved, starts, history>>

\* The limit drainPQ applies; without priorities every ready node is
\* launched at once and waits for a slot in its goroutine.
RoomPQ == cfg.pq => (cfg.limit = 0 \/ activePQ < cfg.limit)

\* The next node to schedule: the highest priority one from the queue.
CanSchedule(n) ==
  /\ phase = "loop" /\ settling = {} /\ n \in ready /\ RoomPQ
  /\ cfg.pq => \A m \in ready : Priority[m] <= Priority[n]

Count(n) == activePQ' = IF cfg.pq THEN activePQ + 1 ELSE activePQ

\* Wrong variant: a skipped node is still waited for.
SkipByCondition_StillPending(n) ==
  /\ CanSchedule(n)
  /\ n \in oracle.condFalse
  /\ ready' = ready \ {n}
  /\ status' = [status EXCEPT ![n] = "skipped"]
  /\ settling' = settling \cup {n}
  /\ UNCHANGED <<cfg, oracle, phase, inDegree, pending, activePQ, toDrain, recovering, undo,
                 doneCh, cancelled, grVars, saved, starts, history>>

\* scheduleReady: the condition is false, so the node is skipped and its
\* downstream propagated.
SkipByCondition(n) ==
  /\ CanSchedule(n)
  /\ n \in oracle.condFalse
  /\ ready' = ready \ {n}
  /\ status' = [status EXCEPT ![n] = "skipped"]
  /\ pending' = pending - 1
  /\ settling' = settling \cup {n}
  /\ UNCHANGED <<cfg, oracle, phase, inDegree, activePQ, toDrain, recovering, undo,
                 doneCh, cancelled, grVars, saved, starts, history>>

\* scheduleReady: the input cannot be built; the error takes the same way as
\* a node's own.
FailToBuild(n) ==
  /\ CanSchedule(n)
  /\ n \notin oracle.condFalse /\ n \in oracle.mapperFails
  /\ ready' = ready \ {n}
  /\ status' = [status EXCEPT ![n] = "running"]
  /\ doneCh' = Append(doneCh, [node |-> n, res |-> "error"])
  /\ Count(n)
  /\ UNCHANGED <<cfg, oracle, phase, inDegree, pending, settling, toDrain, recovering,
                 undo, cancelled, grVars, saved, starts, history>>

\* scheduleReady: launchNodeAdvanced.
Launch(n) ==
  /\ CanSchedule(n)
  /\ n \notin oracle.condFalse \cup oracle.mapperFails
  /\ ready' = ready \ {n}
  /\ status' = [status EXCEPT ![n] = "running"]
  /\ gr' = [gr EXCEPT ![n] = "wait"]
  /\ Count(n)
  /\ UNCHANGED <<cfg, oracle, phase, inDegree, pending, settling, toDrain, recovering,
                 undo, doneCh, cancelled, attempt, saved, starts, history>>

-----------------------------------------------------------------------------
\* Node goroutines.

\* The semaphore exists only without priority scheduling.
SlotFree ==
  \/ cfg.pq
  \/ cfg.limit = 0
  \/ Cardinality({m \in Node : gr[m] \in {"run", "backoff", "posted"}}) < cfg.limit

TakeSlot(n) ==
  /\ gr[n] = "wait"
  /\ SlotFree
  /\ gr' = [gr EXCEPT ![n] = "run"]
  /\ attempt' = [attempt EXCEPT ![n] = 1]
  /\ ran' = ran \cup {n}
  /\ UNCHANGED <<cfg, oracle, loopVars, doneCh, cancelled, saved, starts,
                 succeeded, undone, restored>>

Post(n, res, label) ==
  /\ doneCh' = Append(doneCh, [node |-> n, res |-> res])
  /\ gr' = [gr EXCEPT ![n] = label]
  /\ UNCHANGED <<cfg, oracle, loopVars, cancelled, attempt, saved, starts>>

\* Wrong variant: the goroutine returns without a completion.
NoSlot_Silent(n) ==
  /\ gr[n] = "wait" /\ cancelled
  /\ gr' = [gr EXCEPT ![n] = "none"]
  /\ UNCHANGED <<cfg, oracle, loopVars, doneCh, cancelled, attempt, saved, starts, history>>

\* The context is done before a slot is free: nothing to give back.
NoSlot(n) ==
  /\ gr[n] = "wait" /\ cancelled
  /\ Post(n, "error", "none")
  /\ UNCHANGED history

\* The runner returns a response.  With a done context it may still succeed.
RunnerOk(n) ==
  /\ gr[n] = "run"
  /\ Post(n, "ok", "posted")
  /\ succeeded' = succeeded \cup {n}
  /\ undone' = undone \ {n}
  /\ UNCHANGED <<ran, restored>>

\* A suspended response is an error that is not retried.
RunnerSuspends(n) ==
  /\ gr[n] = "run"
  /\ Post(n, "interrupted", "posted")
  /\ UNCHANGED history

\* An error or a nil response: backoff while attempts are left.
RunnerFails(n) ==
  /\ gr[n] = "run"
  /\ \/ /\ attempt[n] > Retries
        /\ Post(n, "error", "posted")
     \/ /\ attempt[n] <= Retries
        /\ gr' = [gr EXCEPT ![n] = "backoff"]
        /\ UNCHANGED <<cfg, oracle, loopVars, doneCh, cancelled, attempt, saved, starts>>
  /\ UNCHANGED history

Retry(n) ==
  /\ gr[n] = "backoff"
  /\ gr' = [gr EXCEPT ![n] = "run"]
  /\ attempt' = [attempt EXCEPT ![n] = @ + 1]
  /\ UNCHANGED <<cfg, oracle, loopVars, doneCh, cancelled, saved, starts, history>>

GiveUpRetry(n) ==
  /\ gr[n] = "backoff" /\ cancelled
  /\ Post(n, "error", "posted")
  /\ UNCHANGED history

\* The deferred release of the slot.
FreeSlot(n) ==
  /\ gr[n] = "posted"
  /\ gr' = [gr EXCEPT ![n] = "none"]
  /\ UNCHANGED <<cfg, oracle, loopVars, doneCh, cancelled, attempt, saved, starts, history>>

-----------------------------------------------------------------------------
\* The event loop.

\* It is back at its select: nothing left to propagate or to schedule.
Selecting ==
  /\ phase = "loop" /\ settling = {}
  /\ ready = {} \/ ~RoomPQ
  /\ pending > 0

Comp == Head(doneCh)

\* Wrong variant: the completion just handled is counted as running.
Abort_CountTooMany(newStatus) ==
  /\ cancelled' = TRUE
  /\ toDrain' = CountRunning
  /\ phase' = "drain"

\* abort: cancel, then read the completions of the nodes still running.
Abort(newStatus) ==
  /\ cancelled' = TRUE
  /\ toDrain' = Cardinality({n \in Node : newStatus[n] = "running"})
  /\ phase' = "drain"

Receive ==
  /\ Selecting /\ doneCh # <<>>
  /\ doneCh' = Tail(doneCh)
  /\ pending' = pending - 1
  /\ activePQ' = IF cfg.pq THEN activePQ - 1 ELSE activePQ
  /\ UNCHANGED <<cfg, oracle, inDegree, ready, grVars, starts, ran, succeeded, restored>>

\* saveCheckpoint; a failed save only emits an event.
SaveCheckpoint(n) ==
  saved' \in {saved} \cup IF Checkpoints THEN {saved \cup {n}} ELSE {}

HandleSuccess ==
  /\ Receive
  /\ Comp.res = "ok"
  /\ LET n == Comp.node IN
     /\ status' = [status EXCEPT ![n] = "done"]
     /\ SaveCheckpoint(n)
     /\ IF n \in oracle.exit \/ cancelled
        THEN Abort(status') /\ UNCHANGED settling
        ELSE settling' = settling \cup {n} /\ UNCHANGED <<cancelled, toDrain, phase>>
  /\ UNCHANGED <<undone, undo, recovering>>

\* What backward compensation will go through, once the drain is over: the
\* completed compensatable nodes.
Rollback(newStatus) == {n \in Node : newStatus[n] = "done" /\ n \in Compensatable}

\* handleNodeError, by error strategy.  The Compensate strategy without a
\* CompensateCfg behaves like Skip.
ReceiveError(n) ==
  /\ Receive
  /\ Comp.node = n /\ Comp.res # "ok"
  /\ UNCHANGED <<saved, undone>>

\* Forward recovery runs the node again, unless it was suspended or its
\* input cannot be built.
CanRecover(n) ==
  cfg.strategy = "forward" /\ Comp.res # "interrupted" /\ n \notin oracle.mapperFails

StartRecovery(n) ==
  /\ ReceiveError(n)
  /\ CanRecover(n)
  /\ status' = [status EXCEPT ![n] = "failed"]
  /\ phase' = "recover" /\ recovering' = {n}
  /\ UNCHANGED <<cancelled, toDrain, undo, settling>>

FailAndRollBack(n) ==
  /\ ReceiveError(n)
  /\ cfg.strategy \in {"backward", "forward"} /\ ~CanRecover(n)
  /\ status' = [status EXCEPT ![n] = "failed"]
  /\ Abort(status')
  /\ undo' = Rollback(status')
  /\ UNCHANGED <<recovering, settling>>

FailAndAbort(n) ==
  /\ ReceiveError(n)
  /\ cfg.strategy = "abort" \/ (cfg.strategy = "skip" /\ n \notin Optional)
  /\ status' = [status EXCEPT ![n] = "failed"]
  /\ Abort(status')
  /\ UNCHANGED <<recovering, undo, settling>>

SkipOptional(n) ==
  /\ ReceiveError(n)
  /\ cfg.strategy = "skip" /\ n \in Optional
  /\ status' = [status EXCEPT ![n] = "skipped"]
  /\ settling' = settling \cup {n}
  /\ UNCHANGED <<phase, recovering, cancelled, toDrain, undo>>

\* executeForwardRecovery, run by the loop itself while completions queue.
RecoverOk(n) ==
  /\ phase = "recover" /\ n \in recovering
  /\ status' = [status EXCEPT ![n] = "done"]
  /\ succeeded' = succeeded \cup {n} /\ undone' = undone \ {n}
  /\ SaveCheckpoint(n)
  /\ settling' = settling \cup {n}
  /\ recovering' = {} /\ phase' = "loop"
  /\ UNCHANGED <<cfg, oracle, inDegree, pending, ready, activePQ, toDrain, undo, doneCh,
                 cancelled, grVars, starts, ran, restored>>

RecoverFails(n) ==
  /\ phase = "recover" /\ n \in recovering
  /\ recovering' = {}
  /\ Abort(status)
  /\ undo' = Rollback(status)
  /\ UNCHANGED <<cfg, oracle, status, inDegree, pending, settling, ready, activePQ,
                 doneCh, grVars, saved, starts, history>>

\* The select's other branch.
HandleCancel ==
  /\ Selecting /\ cancelled
  /\ Abort(status)
  /\ UNCHANGED <<cfg, oracle, status, inDegree, pending, settling, ready, activePQ,
                 recovering, undo, doneCh, grVars, saved, starts, history>>

\* drainDoneCh discards what it reads.
Drain ==
  /\ phase = "drain" /\ toDrain > 0 /\ doneCh # <<>>
  /\ doneCh' = Tail(doneCh)
  /\ toDrain' = toDrain - 1
  /\ UNCHANGED <<cfg, oracle, phase, status, inDegree, pending, settling, ready, activePQ,
                 recovering, undo, cancelled, grVars, saved, starts, history>>

Drained ==
  /\ phase = "drain" /\ toDrain = 0
  /\ phase' = IF undo = {} THEN "returned" ELSE "undo"
  /\ UNCHANGED <<cfg, oracle, status, inDegree, pending, settling, ready, activePQ, toDrain,
                 recovering, undo, doneCh, cancelled, grVars, saved, starts, history>>

\* Wrong variant: in topological order.
NextToUndo_Forward(n) ==
  \E i \in DOMAIN TopoOrder :
    TopoOrder[i] = n /\ \A j \in DOMAIN TopoOrder : TopoOrder[j] \in undo => j >= i

\* executeBackwardCompensation walks the topological order backwards: n is
\* the last node of it that is still to compensate.
NextToUndo(n) ==
  \E i \in DOMAIN TopoOrder :
    TopoOrder[i] = n /\ \A j \in DOMAIN TopoOrder : TopoOrder[j] \in undo => j <= i

\* executeNodeCompensation with its retries: it works or it is given up.
CompensateNode(n, ok) ==
  /\ phase = "undo" /\ n \in undo /\ NextToUndo(n)
  /\ status' = IF ok THEN [status EXCEPT ![n] = "compensated"] ELSE status
  /\ undone' = IF ok THEN undone \cup {n} ELSE undone
  /\ undo' = undo \ {n}
  /\ phase' = IF undo' = {} THEN "returned" ELSE "undo"
  /\ UNCHANGED <<cfg, oracle, inDegree, pending, settling, ready, activePQ, toDrain,
                 recovering, doneCh, cancelled, grVars, saved, starts, ran, succeeded, restored>>

\* The loop ends because nothing is pending any more; ExecuteDAG cancels the
\* context on its way out.
Finish ==
  /\ phase = "loop" /\ settling = {} /\ pending = 0
  /\ phase' = "returned" /\ cancelled' = TRUE
  /\ UNCHANGED <<cfg, oracle, status, inDegree, pending, settling, ready, activePQ, toDrain,
                 recovering, undo, doneCh, grVars, saved, starts, history>>

-----------------------------------------------------------------------------
\* The environment: the caller cancels, the process dies.

CallerCancels ==
  /\ phase \in {"loop", "recover"} /\ ~cancelled
  /\ cancelled' = TRUE
  /\ UNCHANGED <<cfg, oracle, loopVars, doneCh, grVars, saved, starts, history>>

Crash ==
  /\ phase \notin {"returned", "dead"}
  /\ phase' = "dead"
  /\ gr' = [n \in Node |-> "none"]
  /\ UNCHANGED <<cfg, oracle, status, inDegree, pending, settling, ready, activePQ, toDrain,
                 recovering, undo, doneCh, cancelled, attempt, saved, starts, history>>

NodeStep(n) ==
  \/ TakeSlot(n) \/ NoSlot(n) \/ RunnerOk(n) \/ RunnerSuspends(n) \/ RunnerFails(n)
  \/ Retry(n) \/ GiveUpRetry(n) \/ FreeSlot(n)

LoopStep ==
  \/ \E n \in Node :
       \/ Propagate(n) \/ SkipByCondition(n) \/ FailToBuild(n) \/ Launch(n)
       \/ StartRecovery(n) \/ FailAndRollBack(n) \/ FailAndAbort(n) \/ SkipOptional(n)
       \/ RecoverOk(n) \/ RecoverFails(n)
       \/ \E ok \in BOOLEAN : CompensateNode(n, ok)
  \/ HandleSuccess \/ HandleCancel \/ Drain \/ Drained \/ Finish

Next ==
  \/ LoopStep
  \/ \E n \in Node : NodeStep(n)
  \/ CallerCancels \/ Crash \/ Restart

\* The loop and the goroutines keep running, and runners return.
Fairness == WF_vars(LoopStep) /\ \A n \in Node : WF_vars(NodeStep(n))

Spec == Init /\ [][Next]_vars /\ Fairness

-----------------------------------------------------------------------------
\* Properties

\* A node is started only after every dependency is done or skipped, and
\* stays so: concurrent completions, skips and resumes from checkpoints
\* never release it early (rule OR-1).
DependenciesFirst ==
  \A n \in Node :
    (n \notin restored /\ status[n] \in {"running", "done", "failed"}) =>
      \A d \in Deps[n] : status[d] \in {"done", "skipped", "compensated"}

\* The loop's counter is exact: it neither returns while a node is left nor
\* waits for a completion that will not come.
PendingExact ==
  phase = "loop" =>
    pending = Cardinality(WithStatus("pending")) + CountRunning

\* Every node in state running has one completion to come or in the channel,
\* and abort waits for exactly the goroutines that are alive: it cannot hang
\* on the channel, and no runner outlives ExecuteDAG.
CompletionsExact ==
  /\ phase \in {"loop", "recover"} => CountRunning = Cardinality(InFlight) + Len(doneCh)
  /\ phase = "drain" => toDrain = Cardinality(InFlight) + Len(doneCh)
  /\ phase \in {"undo", "returned"} => InFlight = {} /\ doneCh = <<>>

\* The two counters the event loop ends and drains by are exact together, in
\* every phase: pending against the nodes' states, and the running nodes
\* against the goroutines and the channel.
CountersExact == PendingExact /\ CompletionsExact

\* Rollback goes backwards: when a node is compensated, nothing downstream
\* of it is still waiting for its own compensation.
RollbackOrder ==
  [][\A n \in Node :
       (status[n] = "done" /\ status'[n] = "compensated") =>
         \A m \in undo' : m \notin Downstream(n)]_vars

\* A node whose result was checkpointed is not executed again by a later
\* execution with the same session id.
CheckpointedNeverReruns == restored \cap ran = {}

\* Every execution returns, whatever fails, is cancelled or exits early.
Terminates == (phase = "loop") ~> (phase \in {"returned", "dead"})

-----------------------------------------------------------------------------
\* What the documents say that the code does not ensure.

\* "rolls back completed nodes": an execution that ends in a rollback leaves
\* no success of a compensatable node behind, unless its compensation failed.
RollbackComplete ==
  (phase = "returned" /\ WithStatus("failed") # {}) =>
    \A n \in Compensatable \cap succeeded : n \in undone \/ status[n] = "done"
=============================================================================
