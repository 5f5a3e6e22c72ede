----------------------------- MODULE Combinators -----------------------------
(***************************************************************************)
(* What orchestrate and the agents build from runners besides the DAG: a   *)
(* sequence of agents, a router, ExecuteLoop, ExecuteConditional and       *)
(* ExecuteDynamicSpawn with its aggregator.  A run takes one input and     *)
(* ends with a response, an error, no response at all, or suspended for a  *)
(* human decision, which none of them may build upon.                      *)
(*                                                                         *)
(* Runs are numbered; the output of run i is i, the request is 0.  Every   *)
(* response reports one unit of usage.                                     *)
(***************************************************************************)
EXTENDS Integers, Sequences, FiniteSets, FiniteSetsExt, SequencesExt

CONSTANTS
  MaxRuns,      \* length of a sequence, and bound on the turns of a loop
  ChildId,      \* IDs a spawner gives to children, numbers
  MaxSpawn,     \* MaxSpawnCount, 0 for none
  DepthLimit,   \* SpawnDepthLimit
  DagNodes      \* number of nodes of the graphs whose priorities are computed;
                \* graphs to validate have one less

ASSUME CombAssumption ==
  MaxRuns \in Nat /\ ChildId \subseteq Nat /\ MaxSpawn \in Nat /\ DepthLimit \in Nat /\ DagNodes \in Nat

DagNode == 1..DagNodes
Outcome == {"response", "error", "nil", "suspended"}

VARIABLES
  kind,         \* "sequence", "loop", "conditional", "router" or "spawn"
  limit,        \* steps of the sequence, MaxIters (0 for none), or routes
  depth,        \* nesting of spawns in the context
  combPhase,    \* "start", "run", ..., "children", "returned", or "panicked"
  result,       \* what was returned: an error, or messages and usage
  runs,         \* history: input and outcome of every run
  usage,        \* totalUsage
  target,       \* branch or route that was chosen, 0 for none
  children,     \* IDs of the children, in the order of the spawner
  childRun,     \* per child: "running", its outcome; once read, "collected",
                \* or "empty" if it was no response
  gathered,     \* childResults: by ID, the child whose response is kept
  dagDeps       \* dependencies of each node of a graph

combVars == <<kind, limit, depth, combPhase, result, runs, usage, target, children, childRun,
              gathered, dagDeps>>

Failed == [ok |-> FALSE, messages |-> <<>>, usage |-> 0]
Reply(ms, u) == [ok |-> TRUE, messages |-> ms, usage |-> u]

CombKind == {"sequence", "loop", "conditional", "router", "spawn", "priorities", "validation"}

CombInit ==
  /\ kind \in CombKind
  /\ dagDeps \in CASE kind = "priorities" ->
                        {d \in [DagNode -> SUBSET DagNode] : \A n \in DagNode : d[n] \subseteq 1..(n - 1)}
                    [] kind = "validation" -> [1..(DagNodes - 1) -> SUBSET (0..(DagNodes - 1))]
                    [] OTHER -> {[n \in DagNode |-> {}]}
  /\ limit \in IF kind \in {"sequence", "loop", "router"} THEN 0..MaxRuns ELSE {1}
  /\ depth \in IF kind = "spawn" THEN 0..DepthLimit ELSE {0}
  /\ combPhase = "start" /\ result = Failed /\ runs = <<>> /\ usage = 0 /\ target = 0
  /\ children = <<>> /\ childRun = <<>> /\ gathered = <<>>

Returns(r) == combPhase' = "returned" /\ result' = r
LastOutput == IF runs = <<>> THEN 0 ELSE Len(runs)

-----------------------------------------------------------------------------
\* Sequence and loop

\* Without steps, or when the condition refuses the first turn, the request
\* comes back.  Spawns below the depth limit only; no runner is fine there.
StartRuns ==
  /\ combPhase = "start"
  /\ \/ /\ kind = "loop" \/ (kind = "sequence" /\ limit = 0)
        /\ Returns(Reply(<<0>>, 0))
     \/ kind = "sequence" /\ limit > 0 /\ combPhase' = "run" /\ UNCHANGED result
     \/ kind \in {"loop", "conditional"} /\ combPhase' = "run" /\ UNCHANGED result
     \/ kind = "router" /\ IF limit = 0 THEN Returns(Failed) ELSE combPhase' = "route" /\ UNCHANGED result
     \/ kind = "spawn" /\ DepthLimit > 0 /\ depth >= DepthLimit /\ Returns(Failed)
     \/ /\ kind = "spawn" /\ ~(DepthLimit > 0 /\ depth >= DepthLimit)
        /\ combPhase' \in {"run", "spawning"} /\ UNCHANGED result
  /\ UNCHANGED <<kind, limit, depth, runs, usage, target, children, childRun, gathered, dagDeps>>

Turn == combPhase = "run" /\ kind \in {"sequence", "loop"}
MoreTurns == limit = 0 \/ Len(runs) < limit

\* Wrong variant: a suspended step is taken for a finished one.
RunTurn_Suspended ==
  /\ Turn /\ MoreTurns /\ Len(runs) < MaxRuns
  /\ \E o \in Outcome :
       /\ runs' = Append(runs, [input |-> LastOutput, outcome |-> o])
       /\ IF o \in {"response", "suspended"}
          THEN usage' = usage + 1 /\ UNCHANGED <<combPhase, result>>
          ELSE Returns(Failed) /\ UNCHANGED usage
  /\ UNCHANGED <<kind, limit, depth, target, children, childRun, gathered, dagDeps>>

\* One step of the sequence or turn of the loop.  Only a response is counted
\* and handed on.
RunTurn ==
  /\ Turn /\ MoreTurns /\ Len(runs) < MaxRuns
  /\ \E o \in Outcome :
       /\ runs' = Append(runs, [input |-> LastOutput, outcome |-> o])
       /\ IF o = "response"
          THEN usage' = usage + 1 /\ UNCHANGED <<combPhase, result>>
          ELSE Returns(Failed) /\ UNCHANGED usage
  /\ UNCHANGED <<kind, limit, depth, target, children, childRun, gathered, dagDeps>>

\* The context has ended before a turn.
TurnCancelled ==
  /\ Turn /\ MoreTurns
  /\ Returns(Failed)
  /\ UNCHANGED <<kind, limit, depth, runs, usage, target, children, childRun, gathered, dagDeps>>

\* The limit is reached; a loop also ends by its condition or by convergence.
EndTurns ==
  /\ Turn /\ runs # <<>>
  /\ ~MoreTurns \/ kind = "loop"
  /\ Returns(Reply(<<LastOutput>>, usage))
  /\ UNCHANGED <<kind, limit, depth, runs, usage, target, children, childRun, gathered, dagDeps>>

-----------------------------------------------------------------------------
\* Conditional

\* The runner first; then the first branch whose condition holds, or the default.
RunConditional ==
  /\ combPhase = "run" /\ kind = "conditional"
  /\ \E o \in Outcome :
       /\ runs' = Append(runs, [input |-> 0, outcome |-> o])
       /\ IF o \in {"error", "suspended"} THEN Returns(Failed) /\ UNCHANGED target
          ELSE /\ \E b \in 0..2 : target' = b
               /\ Returns(IF o = "nil" THEN Reply(<<>>, 0) ELSE Reply(<<1>>, 1))
  /\ UNCHANGED <<kind, limit, depth, usage, children, childRun, gathered, dagDeps>>

-----------------------------------------------------------------------------
\* Router

\* The index a routing function arrived at (-1 for none: no keyword, no answer
\* of the model, no number), or its fallback, or none.
Chosen(index, fallback) ==
  IF index \in 0..(limit - 1) THEN {index}
  ELSE IF fallback \in 0..(limit - 1) THEN {fallback} ELSE {}

\* cost: the usage of the model that was asked.  A cancelled context, a failing
\* routing function and one that returns no agent end the run.
Route ==
  /\ combPhase = "route"
  /\ \/ Returns(Failed) /\ UNCHANGED <<target, usage>>
     \/ \E index, fallback \in -1..limit, cost \in 0..1 :
          LET c == Chosen(index, fallback) IN
          IF c = {} THEN Returns(Failed) /\ UNCHANGED <<target, usage>>
          ELSE /\ target' = 1 + CHOOSE i \in c : TRUE
               /\ usage' = cost
               /\ combPhase' = "routed" /\ UNCHANGED result
  /\ UNCHANGED <<kind, limit, depth, runs, children, childRun, gathered, dagDeps>>

\* Whatever the chosen agent does, no other route is tried.
RunRoute ==
  /\ combPhase = "routed"
  /\ \E o \in Outcome :
       /\ runs' = Append(runs, [input |-> 0, outcome |-> o])
       /\ Returns(IF o = "response" THEN Reply(<<1>>, usage + 1) ELSE Failed)
  /\ UNCHANGED <<kind, limit, depth, usage, target, children, childRun, gathered, dagDeps>>

-----------------------------------------------------------------------------
\* Spawn

\* A parent that answers nothing, without an error, is not noticed here.
RunParent ==
  /\ combPhase = "run" /\ kind = "spawn"
  /\ \E o \in Outcome :
       /\ runs' = Append(runs, [input |-> 0, outcome |-> o])
       /\ IF o \in {"response", "nil"} THEN combPhase' = "spawning" /\ UNCHANGED result ELSE Returns(Failed)
  /\ UNCHANGED <<kind, limit, depth, usage, target, children, childRun, gathered, dagDeps>>

NoOutput == \E i \in DOMAIN runs : runs[i].outcome = "nil"

\* The spawner may fail, or make nothing, too many, or several of one ID.  A
\* child of a parent that answered nothing takes the process down, because its
\* request is made of the messages of that answer.
Spawn ==
  /\ combPhase = "spawning"
  /\ \/ Returns(Failed) /\ UNCHANGED <<children, childRun>>
     \/ \E ids \in BoundedSeq(ChildId, MaxSpawn + 1) :
          CASE MaxSpawn > 0 /\ Len(ids) > MaxSpawn -> Returns(Failed) /\ UNCHANGED <<children, childRun>>
            [] ids = <<>> -> /\ Returns(Reply(IF NoOutput THEN <<>> ELSE <<LastOutput>>, 0))
                             /\ UNCHANGED <<children, childRun>>
            [] ids # <<>> /\ NoOutput ->
                 combPhase' = "panicked" /\ UNCHANGED <<result, children, childRun>>
            [] OTHER -> /\ combPhase' = "children" /\ children' = ids
                        /\ childRun' = [i \in DOMAIN ids |-> "running"]
                        /\ UNCHANGED result
  /\ UNCHANGED <<kind, limit, depth, runs, usage, target, gathered, dagDeps>>

\* Children end in any order, also after the parent has returned.
EndChild(i) ==
  /\ childRun[i] = "running"
  /\ \E o \in Outcome : childRun' = [childRun EXCEPT ![i] = o]
  /\ UNCHANGED <<kind, limit, depth, combPhase, result, runs, usage, target, children, gathered, dagDeps>>

\* A result is read from the channel; the first error or suspension ends the
\* spawn and cancels the other children.  An answer of nothing is kept like a
\* response, and takes the place of one of the same ID.
Collect(i) ==
  /\ combPhase = "children" /\ childRun[i] \in Outcome
  /\ IF childRun[i] \in {"error", "suspended"} THEN Returns(Failed) /\ UNCHANGED <<childRun, gathered>>
     ELSE /\ gathered' = [id \in DOMAIN gathered \cup {children[i]} |->
                            IF id = children[i] THEN i ELSE gathered[id]]
          /\ childRun' = [childRun EXCEPT ![i] = IF @ = "nil" THEN "empty" ELSE "collected"]
          /\ UNCHANGED <<combPhase, result>>
  /\ UNCHANGED <<kind, limit, depth, runs, usage, target, children, dagDeps>>

\* ConcatMessagesAggregator: in the order of the IDs, without those that have
\* no response.
Sorted(ids) ==
  [k \in 1..Cardinality(ids) |-> CHOOSE id \in ids : Cardinality({j \in ids : j < id}) = k - 1]
Concat == LET ids == Sorted({id \in DOMAIN gathered : childRun[gathered[id]] # "empty"})
          IN  [k \in DOMAIN ids |-> gathered[ids[k]]]

Aggregate ==
  /\ combPhase = "children" /\ \A i \in DOMAIN children : childRun[i] \in {"collected", "empty"}
  /\ Returns(Reply(Concat, 0))
  /\ UNCHANGED <<kind, limit, depth, runs, usage, target, children, childRun, gathered, dagDeps>>

CombStep ==
  \/ StartRuns \/ RunTurn \/ TurnCancelled \/ EndTurns \/ RunConditional \/ Route \/ RunRoute
  \/ RunParent \/ Spawn
  \/ \E i \in DOMAIN childRun : EndChild(i) \/ Collect(i)
  \/ Aggregate

CombSpec == CombInit /\ [][CombStep]_combVars

-----------------------------------------------------------------------------
\* ComputeCriticalPath, for nodes of weight one listed in topological order

DagDownstream(n) == {k \in DagNode : n \in dagDeps[k]}
Est[n \in DagNode] == IF dagDeps[n] = {} THEN 0 ELSE Max({Est[k] + 1 : k \in dagDeps[n]})
ProjectEnd == Max({Est[n] + 1 : n \in DagNode})

Lst[n \in DagNode] ==
  IF DagDownstream(n) = {} THEN ProjectEnd - 1 ELSE Min({Lst[k] : k \in DagDownstream(n)}) - 1

\* Wrong variant: the slack of a node is its latest start.
Priority_LatestStart(n) == ProjectEnd - Lst[n]

Priority(n) == ProjectEnd - (Lst[n] - Est[n])

-----------------------------------------------------------------------------
\* ValidateDAG and topologicalSort, on any graph; node 0 is not in the list.

Listed == DOMAIN dagDeps
InOrder == [i \in 1..Cardinality(Listed) |-> i]
DependentsOf(n) == SelectSeq(InOrder, LAMBDA m : n \in dagDeps[m])

\* Wrong variant: only a node that depends on itself is noticed.
DagCycle_SelfOnly == \E n \in Listed : n \in dagDeps[n]

\* detectCycle: depth first along the dependents; one met again while it is
\* still being visited (gray) closes a cycle.
Visits == Listed \X [cycle : BOOLEAN, color : [Listed -> {"white", "gray", "black"}]]
VisitNode[a \in Visits] ==
  LET n == a[1]  dfs == a[2]
      next(d, m) == CASE d.cycle \/ d.color[m] = "black" -> d
                      [] ~d.cycle /\ d.color[m] = "gray" -> [d EXCEPT !.cycle = TRUE]
                      [] OTHER -> VisitNode[<<m, d>>]
      after == FoldLeft(next, [dfs EXCEPT !.color[n] = "gray"], DependentsOf(n))
  IN  IF after.cycle THEN after ELSE [after EXCEPT !.color[n] = "black"]

DagCycle ==
  LET root(d, n) == IF ~d.cycle /\ d.color[n] = "white" THEN VisitNode[<<n, d>>] ELSE d
  IN  FoldLeft(root, [cycle |-> FALSE, color |-> [n \in Listed |-> "white"]], InOrder).cycle

\* checkConnected: breadth first from the first node, against the arrows too.
Reached[visited \in SUBSET Listed] ==
  LET more == visited \cup {m \in Listed : \E n \in visited : m \in dagDeps[n] \/ n \in dagDeps[m]}
  IN  IF more = visited THEN visited ELSE Reached[more]

DagConnected == Reached[{1}] = Listed

ValidateDAG == (\A n \in Listed : dagDeps[n] \subseteq Listed) /\ ~DagCycle /\ DagConnected

\* topologicalSort: nodes leave the queue in order and release their dependents.
Queues == Seq(Listed) \X Seq(Listed) \X [Listed -> Int]   \* queue, order, in-degrees
Kahn[a \in Queues] ==
  LET queue == a[1]  order == a[2]  inDeg == a[3]
      n == Head(queue)
      left == [m \in Listed |-> IF n \in dagDeps[m] THEN inDeg[m] - 1 ELSE inDeg[m]]
      free == SelectSeq(DependentsOf(n), LAMBDA m : left[m] = 0)
  IN  IF queue = <<>> THEN order
      ELSE Kahn[<<Tail(queue) \o free, Append(order, n), left>>]

TopologicalSort ==
  LET inDeg == [n \in Listed |-> Cardinality(dagDeps[n])]
  IN  Kahn[<<SelectSeq(InOrder, LAMBDA n : inDeg[n] = 0), <<>>, inDeg>>]

-----------------------------------------------------------------------------
\* Properties

\* The priority of a node is the number of nodes on the longest path through
\* it, so none is above those on a critical path and none of these below.
PriorityIsLongestPath ==
  kind = "priorities" =>
    \A n \in DagNode :
      LET path(s) == \A k, l \in s :
                       k < l /\ (\A j \in s : j <= k \/ j >= l) => k \in dagDeps[l]
      IN  Priority(n) = Max({Cardinality(s) : s \in {s \in SUBSET DagNode : n \in s /\ path(s)}})

\* A graph is accepted exactly if every dependency is a node, some order of the
\* nodes respects them all, and no part of the graph stands alone; the
\* topological sort of an accepted graph is such an order of all its nodes,
\* which the executor's rollback and the priorities start from.
GraphsValidated ==
  kind = "validation" =>
    LET respects(o) == \A i, j \in DOMAIN o : o[i] \in dagDeps[o[j]] => i < j
        orders == {o \in [Listed -> Listed] : IsInjective(o)}
        alone(s) == \A n \in s, m \in Listed \ s : n \notin dagDeps[m] /\ m \notin dagDeps[n]
    IN  /\ ValidateDAG <=> /\ \A n \in Listed : dagDeps[n] \subseteq Listed
                           /\ \E o \in orders : respects(o)
                           /\ \A s \in SUBSET Listed \ {{}, Listed} : ~alone(s)
        /\ ValidateDAG => TopologicalSort \in orders /\ respects(TopologicalSort)

\* The executor gets graphs it can finish, and priorities that follow their
\* longest paths.
GraphsSound == GraphsValidated /\ PriorityIsLongestPath

\* A result is built on responses alone: nothing runs on the output of a run
\* that failed or was suspended, and then nothing but an error is returned;
\* the usage is that of the responses, with the price of a routing decision; a
\* router answers with one of its routes and tries no second one.  A spawn makes
\* no child of a parent without a response; it answers only after all children
\* have, in the order of their IDs, with at most one response of each ID, and
\* with none of an ID only if some child of that ID answered nothing: that such
\* a part is missing is not reported.
BuiltOnResponses ==
  LET good == {i \in DOMAIN runs : runs[i].outcome = "response"} IN
  /\ \A i \in DOMAIN runs : i > 1 => runs[i - 1].outcome = "response" /\ runs[i].input = i - 1
  /\ combPhase = "returned" /\ result.ok =>
       /\ \A i \in DOMAIN runs : runs[i].outcome \in {"response", "nil"}
       /\ kind \in {"sequence", "loop"} => result.usage = Cardinality(good)
       /\ kind = "sequence" => Len(runs) = limit
       /\ kind = "router" => target \in 1..limit /\ Len(runs) = 1 /\ result.usage = usage + 1
       /\ kind = "loop" /\ limit > 0 => Len(runs) <= limit
       /\ kind = "spawn" /\ children # <<>> =>
            /\ \A i \in DOMAIN children : childRun[i] \in {"collected", "empty"}
            /\ \A k \in DOMAIN result.messages :
                 result.messages[k] \in DOMAIN children /\ childRun[result.messages[k]] = "collected"
            /\ \A k, l \in DOMAIN result.messages : k < l =>
                 children[result.messages[k]] < children[result.messages[l]]
            /\ \A i \in DOMAIN children :
                 \/ \E k \in DOMAIN result.messages : children[result.messages[k]] = children[i]
                 \/ \E j \in DOMAIN children : children[j] = children[i] /\ childRun[j] = "empty"
  /\ children # <<>> =>
       (depth < DepthLimit \/ DepthLimit = 0) /\ good = DOMAIN runs
=============================================================================
