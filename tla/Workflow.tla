------------------------------- MODULE Workflow -------------------------------
(***************************************************************************)
(* workflow.Workflow: a graph of nodes over a typed state.  Nodes whose    *)
(* dependencies are done run as a batch, in parallel, on one snapshot; the *)
(* writes of a batch are merged when all of it has ended, unless a node    *)
(* failed or two wrote the same field.  Nodes are numbers, listed and      *)
(* ordered as such.  A write is the node that wrote and the version of the *)
(* state it had seen.                                                      *)
(***************************************************************************)
EXTENDS Integers, Sequences, FiniteSets, FiniteSetsExt, Relation

CONSTANTS
  WfNodes,     \* number of nodes
  Field,       \* fields of the state
  WfLimits     \* concurrency limits to try, 0 for none

ASSUME WfAssumption == WfNodes \in Nat /\ WfLimits \subseteq Nat

WfNode == 1..WfNodes
Original == <<0, 0>>     \* initial value of a field

VARIABLES
  wfDeps,      \* dependencies of each node
  wfWrites,    \* fields each node writes
  wfLimit,     \* maxConcurrency
  wfPhase,     \* "new", "rejected", "ready", "batch", "done", "failed", "conflict", "cancelled"
  wfState,     \* the committed state
  version,     \* batches committed
  pending,     \* nodes that have not run
  remaining,   \* dependencies a node still waits for
  node,        \* per node of the batch: waiting, running or its result
  ctxDone,     \* the caller's context has ended
  batchDone,   \* the context of the batch has ended
  blamed       \* the node a NodeError names

wfVars == <<wfDeps, wfWrites, wfLimit, wfPhase, wfState, version, pending, remaining, node,
            ctxDone, batchDone, blamed>>
wfConfig == <<wfDeps, wfWrites, wfLimit>>

WorkflowInit ==
  /\ wfDeps \in [WfNode -> SUBSET WfNode]
  /\ wfWrites = [n \in WfNode |-> {}] /\ wfLimit = 0 /\ wfPhase = "new"
  /\ wfState = [f \in Field |-> Original] /\ version = 0
  /\ pending = WfNode /\ remaining = [n \in WfNode |-> Cardinality(wfDeps[n])]
  /\ node = [n \in WfNode |-> "idle"] /\ ctxDone = FALSE /\ batchDone = FALSE /\ blamed = 0

-----------------------------------------------------------------------------
\* New: validateNodes

Downstream(n) == {k \in WfNode : n \in wfDeps[k]}

\* The depth-first search of detectCycle over a list of nodes, <<ids, gray,
\* black>>: the nodes that are black after it, or {-1} when a gray one was met.
\* A visit turns a node gray, follows its dependents and turns it black.
VisitAll[a \in (SUBSET WfNode) \X (SUBSET WfNode) \X (SUBSET WfNode)] ==
  LET id == Min(a[1])
      below == VisitAll[<<Downstream(id), a[2] \cup {id}, a[3]>>]
      visited == IF id \in a[3] THEN a[3]
                 ELSE IF below = {-1} THEN {-1} ELSE below \cup {id}
  IN  IF a[1] = {} THEN a[3]
      ELSE IF a[1] \cap a[2] # {} \/ visited = {-1} THEN {-1}
      ELSE VisitAll[<<a[1] \ {id}, a[2], visited>>]

DetectCycle == VisitAll[<<WfNode, {}, {}>>] = {-1}

\* Wrong variant: the search follows dependencies in one direction only.
CheckConnected_OneWay ==
  LET grow(s) == s \cup UNION {wfDeps[n] : n \in s}
      reach[k \in 0..WfNodes] == IF k = 0 THEN {1} ELSE grow(reach[k - 1])
  IN  reach[WfNodes] = WfNode

\* Breadth first from the first node, edges in both directions.
CheckConnected ==
  LET grow(s) == s \cup UNION {wfDeps[n] \cup Downstream(n) : n \in s}
      reach[k \in 0..WfNodes] == IF k = 0 THEN {1} ELSE grow(reach[k - 1])
  IN  reach[WfNodes] = WfNode

NewWorkflow ==
  /\ wfPhase = "new"
  /\ IF DetectCycle \/ ~CheckConnected
     THEN wfPhase' = "rejected" /\ UNCHANGED <<wfWrites, wfLimit>>
     ELSE /\ wfPhase' = "ready"
          /\ wfWrites' \in [WfNode -> SUBSET Field] /\ wfLimit' \in WfLimits
  /\ UNCHANGED <<wfDeps, wfState, version, pending, remaining, node, ctxDone, batchDone, blamed>>

-----------------------------------------------------------------------------
\* execute

CancelWorkflow ==
  /\ wfPhase \in {"ready", "batch"} /\ ~ctxDone
  /\ ctxDone' = TRUE /\ batchDone' = (wfPhase = "batch")
  /\ UNCHANGED <<wfConfig, wfPhase, wfState, version, pending, remaining, node, blamed>>

Return(how) == wfPhase' = how

ReadyBatch == {n \in pending : remaining[n] = 0}

\* runBatch starts a goroutine per node.
StartBatch ==
  /\ wfPhase = "ready"
  /\ IF pending = {} THEN Return("done") /\ UNCHANGED <<node, batchDone>>
     ELSE IF ctxDone THEN Return("cancelled") /\ UNCHANGED <<node, batchDone>>
     ELSE /\ wfPhase' = "batch" /\ batchDone' = FALSE
          /\ node' = [n \in WfNode |->
                        IF n \in ReadyBatch
                        THEN IF wfLimit > 0 THEN "waiting" ELSE "running"
                        ELSE "idle"]
  /\ UNCHANGED <<wfConfig, wfState, version, pending, remaining, ctxDone, blamed>>

Batch == {n \in WfNode : node[n] # "idle"}

TakeBatchSlot(n) ==
  /\ node[n] = "waiting"
  /\ \/ /\ Cardinality({k \in WfNode : node[k] = "running"}) < wfLimit
        /\ node' = [node EXCEPT ![n] = "running"]
     \/ /\ batchDone
        /\ node' = [node EXCEPT ![n] = "cancelled"]
  /\ UNCHANGED <<wfConfig, wfPhase, wfState, version, pending, remaining, ctxDone, batchDone, blamed>>

\* Node.Run, and AdaptRunner's mappers in it.  A patch may write a field twice.
\* The first error of any kind cancels the others.
RunNode(n) ==
  /\ node[n] = "running"
  /\ \E result \in {"patch", "twice", "error", "cancelled"} :
       /\ result = "twice" => wfWrites[n] # {}
       /\ node' = [node EXCEPT ![n] = result]
       /\ batchDone' = (batchDone \/ result \in {"error", "cancelled"})
  /\ UNCHANGED <<wfConfig, wfPhase, wfState, version, pending, remaining, ctxDone, blamed>>

\* Wrong variant: of two writers of a field the later one wins.
Conflict_LastWins == \E n \in Batch : node[n] = "twice"

\* The write-set check of mergeBatch.
Conflict ==
  \/ \E n \in Batch : node[n] = "twice"
  \/ \E n, k \in Batch : n # k /\ wfWrites[n] \cap wfWrites[k] # {}

\* The setters run in the order of node IDs.
Merged ==
  [f \in Field |-> LET writers == {n \in Batch : f \in wfWrites[n]}
                   IN  IF writers = {} THEN wfState[f] ELSE <<Max(writers), version>>]

EndBatch ==
  /\ wfPhase = "batch" /\ \A n \in Batch : node[n] \notin {"waiting", "running"}
  /\ LET failed == {n \in Batch : node[n] = "error"}
         stopped == {n \in Batch : node[n] = "cancelled"}
     IN  \/ /\ ctxDone /\ Return("cancelled")
            /\ UNCHANGED <<wfState, version, pending, remaining, blamed>>
         \/ /\ ~ctxDone /\ failed \cup stopped # {} /\ Return("failed")
            /\ blamed' = IF failed # {} THEN Min(failed) ELSE Min(stopped)
            /\ UNCHANGED <<wfState, version, pending, remaining>>
         \/ /\ ~ctxDone /\ failed \cup stopped = {} /\ Conflict /\ Return("conflict")
            /\ UNCHANGED <<wfState, version, pending, remaining, blamed>>
         \/ /\ ~ctxDone /\ failed \cup stopped = {} /\ ~Conflict /\ Return("ready")
            /\ wfState' = Merged /\ version' = version + 1
            /\ pending' = pending \ Batch
            /\ remaining' = [k \in WfNode |-> remaining[k] - Cardinality(wfDeps[k] \cap Batch)]
            /\ UNCHANGED blamed
  /\ node' = [n \in WfNode |-> "idle"] /\ batchDone' = TRUE
  /\ UNCHANGED <<wfConfig, ctxDone>>

WorkflowStep ==
  \/ NewWorkflow \/ CancelWorkflow \/ StartBatch \/ EndBatch
  \/ \E n \in WfNode : TakeBatchSlot(n) \/ RunNode(n)

WorkflowSpec == WorkflowInit /\ [][WorkflowStep]_wfVars

-----------------------------------------------------------------------------
\* Properties

DependsOn(n, k) == TransitiveClosure([p \in WfNode \X WfNode |-> p[2] \in wfDeps[p[1]]], WfNode)[n, k]

\* A graph is accepted exactly if no node depends on itself and it hangs
\* together; and an accepted one always has a node that can run: the error
\* execute has for the other case is never returned.
WorkflowGraphs ==
  /\ wfPhase # "new" =>
       (wfPhase # "rejected") =
         /\ \A n \in WfNode : ~DependsOn(n, n)
         /\ \A s \in SUBSET WfNode : s # {} /\ s # WfNode =>
              \E n \in s, k \in WfNode \ s : n \in wfDeps[k] \/ k \in wfDeps[n]
  /\ wfPhase = "ready" /\ pending # {} => ReadyBatch # {}

Committed == WfNode \ pending
Writers(f) == {n \in Committed : f \in wfWrites[n]}

\* The batches a run has committed are the layers of the graph, from the bottom:
\* a node is in the first one that all its dependencies are below.
Layers(layer) ==
  /\ \A n \in Committed : \A k \in wfDeps[n] : k \in Committed /\ layer[k] < layer[n]
  /\ \A n \in Committed : layer[n] > 0 => \E k \in wfDeps[n] : layer[k] = layer[n] - 1
  /\ \A n \in pending : wfDeps[n] \subseteq Committed /\ version > 0 =>
       \E k \in wfDeps[n] : layer[k] = version - 1

\* No two nodes of a layer wrote the same field, and a field holds what the
\* highest of its writers made of the version the layers below it had left.
LayersWrote(layer) ==
  \A f \in Field :
    /\ \A n, k \in Writers(f) : layer[n] = layer[k] => n = k
    /\ Writers(f) = {} => wfState[f] = Original
    /\ \A n \in Writers(f) : (\A k \in Writers(f) : layer[k] <= layer[n]) => wfState[f] = <<n, layer[n]>>

\* Whatever the schedule, the limit, failures and cancellations: what is
\* committed is the writes of whole layers of the graph.  An error leaves the
\* state as the last merge made it, and blames a node whose dependencies are in.
WorkflowSound ==
  /\ \E layer \in [Committed -> 0..(version - 1)] : Layers(layer) /\ LayersWrote(layer)
  /\ wfPhase = "done" => pending = {}
  /\ wfPhase = "failed" => blamed \in pending /\ wfDeps[blamed] \subseteq Committed
=============================================================================
