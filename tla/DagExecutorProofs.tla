------------------------- MODULE DagExecutorProofs -------------------------
(***************************************************************************)
(* Proofs about DagExecutor, for every graph, set of strategies, limit and *)
(* number of executions.                                                   *)
(*                                                                         *)
(* The three invariants the runs check are not inductive: that a node is   *)
(* not released early rests on what the in-degree counts (Waits), that the *)
(* drain reads exactly the completions to come rests on whose completions  *)
(* the channel holds (Channel), and that a checkpointed node is not run    *)
(* again rests on its goroutine (Restored).  DagIInv adds those parts.     *)
(***************************************************************************)
EXTENDS DagExecutor, FiniteSetTheorems, TLAPS

\* The event loop still schedules: its counters mean something.
Active == phase \in {"loop", "recover"}

\* The dependencies of m whose settling was not yet propagated to m.
Unsettled(m) == {e \in Deps[m] : status[e] \notin Settled \/ e \in settling}

\* The nodes ExecuteDAG still waits for.
Awaited == {m \in Node : status[m] \in {"pending", "running"}}

Completion == [node : Node, res : {"ok", "error", "interrupted"}]

LooseTypes ==
  /\ cfg \in [strategy : Strategy, pq : BOOLEAN, limit : Limit]
  /\ oracle \in [condFalse : SUBSET Conditional, mapperFails : SUBSET FaultyMapper,
                 exit : SUBSET ExitNode]
  /\ phase \in {"loop", "recover", "drain", "undo", "returned", "dead"}
  /\ status \in [Node -> NodeStatus]
  /\ inDegree \in [Node -> Int]
  /\ pending \in Int /\ activePQ \in Int /\ toDrain \in Int
  /\ settling \in SUBSET Node /\ ready \in SUBSET Node
  /\ doneCh \in Seq(Completion)
  /\ recovering \in SUBSET Node /\ undo \in SUBSET Node
  /\ cancelled \in BOOLEAN
  /\ gr \in [Node -> {"none", "wait", "run", "backoff", "posted"}]
  /\ attempt \in [Node -> 0..(Retries + 1)]
  /\ saved \in SUBSET Node
  /\ starts \in 1..MaxStarts
  /\ ran \in SUBSET Node /\ succeeded \in SUBSET Node
  /\ undone \in SUBSET Node /\ restored \in SUBSET Node

Bounds ==
  /\ inDegree \in [Node -> 0..Cardinality(Node)]
  /\ pending \in 0..Cardinality(Node)
  /\ activePQ \in 0..Cardinality(Node)
  /\ toDrain \in 0..Cardinality(Node)

\* The in-degree of a node counts what it still waits for, and the nodes in
\* the ready queue wait for nothing.
Waits ==
  Active => /\ \A m \in settling : status[m] \in Settled
            /\ \A m \in Node : inDegree[m] = Cardinality(Unsettled(m))
            /\ \A m \in ready : status[m] = "pending" /\ Unsettled(m) = {}

\* Where a status may come from: recovery starts from a failed node, rollback
\* from a completed one.
Sources ==
  /\ phase = "recover" => \A m \in recovering : status[m] = "failed"
  /\ \A m \in undo : status[m] = "done"

\* The channel holds completions of distinct running nodes, whose goroutines
\* are past their runner.
Channel ==
  Active => /\ \A m \in InFlight : status[m] = "running"
            /\ \A i \in DOMAIN doneCh :
                 /\ status[doneCh[i].node] = "running"
                 /\ doneCh[i].node \notin InFlight
                 /\ \A j \in DOMAIN doneCh : doneCh[j].node = doneCh[i].node => i = j

\* What the event loop counts.
Counted ==
  /\ Active => /\ pending = Cardinality(Awaited)
               /\ activePQ = IF cfg.pq THEN CountRunning ELSE 0
  /\ Cardinality(InFlight) + Len(doneCh) <= Cardinality(Node)

\* A node taken from a checkpoint stays done and has no goroutine.
Restored ==
  \A m \in restored :
    status[m] \in {"done", "compensated"} /\ m \notin InFlight /\ m \notin ran

\* A goroutine backs off only while attempts are left, and none survives a
\* crash.
Goroutines ==
  /\ \A m \in Node : gr[m] = "backoff" => attempt[m] <= Retries
  /\ phase = "dead" => \A m \in Node : gr[m] = "none"

DagIInv ==
  /\ LooseTypes
  /\ Bounds
  /\ Waits
  /\ Sources
  /\ DependenciesFirst
  /\ Channel
  /\ Counted
  /\ CompletionsExact
  /\ Restored
  /\ Goroutines

-----------------------------------------------------------------------------
\* Cardinalities of sets of nodes.

LEMMA SubsetSize ==
  ASSUME NEW S \in SUBSET Node
  PROVE  IsFiniteSet(S) /\ Cardinality(S) \in 0..Cardinality(Node) /\ (Cardinality(S) = 0 <=> S = {})
BY FS_Subset, FS_CardinalityType, FS_EmptySet, DagAssumption DEF DagAssumption

LEMMA OneMore ==
  ASSUME NEW S \in SUBSET Node, NEW n \in Node, n \notin S
  PROVE  Cardinality(S \cup {n}) = Cardinality(S) + 1
BY SubsetSize, FS_AddElement

LEMMA OneLess ==
  ASSUME NEW S \in SUBSET Node, NEW n \in S
  PROVE  Cardinality(S \ {n}) = Cardinality(S) - 1
BY SubsetSize, FS_RemoveElement

\* The nodes awaited are the pending and the running ones.
LEMMA AwaitedSum ==
  LooseTypes => Cardinality(Awaited) = Cardinality(WithStatus("pending")) + CountRunning
<1> DEFINE P == WithStatus("pending")
<1> DEFINE R == WithStatus("running")
<1>1. P \in SUBSET Node /\ R \in SUBSET Node /\ P \cap R = {} /\ Awaited = P \cup R
  BY DEF WithStatus, Awaited
<1>2. Cardinality(P \cup R) = Cardinality(P) + Cardinality(R) - Cardinality(P \cap R)
  BY <1>1, SubsetSize, FS_Union
<1>3. Cardinality(P \cap R) = 0 /\ Cardinality(P) \in Nat /\ Cardinality(R) \in Nat
  BY <1>1, SubsetSize, FS_EmptySet
<1> QED BY <1>1, <1>2, <1>3 DEF CountRunning

-----------------------------------------------------------------------------
\* The initial states, and the start of a later execution.

LEMMA InitDagIInv == Init => DagIInv
<1> SUFFICES ASSUME Init PROVE DagIInv
  OBVIOUS
<1>1. LooseTypes
  <2>1. \A m \in Node : Cardinality(Deps[m] \ {}) \in Int
    BY SubsetSize, DagAssumption DEF DagAssumption
  <2>2. Cardinality(Node \ {}) \in Int
    BY SubsetSize
  <2>3. status \in [Node -> NodeStatus] /\ inDegree \in [Node -> Int] /\ pending \in Int
    BY <2>1, <2>2 DEF Init, Start, NodeStatus
  <2>4. gr \in [Node -> {"none", "wait", "run", "backoff", "posted"}] /\ attempt \in [Node -> 0..(Retries + 1)]
    BY DagAssumption DEF DagAssumption, Init, LooseTypes
  <2>5. doneCh \in Seq(Completion) /\ starts \in 1..MaxStarts /\ ready \in SUBSET Node
    BY DagAssumption DEF DagAssumption, Init, LooseTypes, Start
  <2>6. /\ cfg \in [strategy : Strategy, pq : BOOLEAN, limit : Limit]
        /\ oracle \in [condFalse : SUBSET Conditional, mapperFails : SUBSET FaultyMapper,
                       exit : SUBSET ExitNode]
    BY DEF Init, LooseTypes
  <2>7. /\ phase \in {"loop", "recover", "drain", "undo", "returned", "dead"}
        /\ activePQ \in Int /\ toDrain \in Int
    BY DEF Init
  <2>9. cancelled \in BOOLEAN
    BY Zenon DEF Init
  <2>8. /\ settling \in SUBSET Node /\ recovering \in SUBSET Node /\ undo \in SUBSET Node
        /\ saved \in SUBSET Node /\ ran \in SUBSET Node /\ succeeded \in SUBSET Node
        /\ undone \in SUBSET Node /\ restored \in SUBSET Node
    BY DEF Init, LooseTypes
  <2> QED BY <2>3, <2>4, <2>5, <2>6, <2>7, <2>8, <2>9 DEF LooseTypes
<1>2. Bounds
  BY SubsetSize, DagAssumption DEF DagAssumption, Init, Bounds, Start
<1>3. Waits
  <2>1. \A m \in Node : Unsettled(m) = Deps[m] \ {}
    BY DagAssumption DEF DagAssumption, Init, Unsettled, Start, Settled
  <2> QED BY <2>1 DEF Init, Waits, Start
<1>4. InFlight = {} /\ Awaited = Node \ {} /\ WithStatus("running") = {}
  BY DEF Init, InFlight, Awaited, Start, WithStatus
<1>5. Counted /\ CompletionsExact
  <2>1. Cardinality({}) = 0 /\ Cardinality(Node) \in Nat
    BY FS_EmptySet, SubsetSize
  <2>2. pending = Cardinality(Node \ {}) /\ activePQ = 0 /\ doneCh = <<>> /\ phase = "loop"
    BY DEF Init, Start
  <2>3. CountRunning = 0 /\ Cardinality(InFlight) = 0 /\ Len(doneCh) = 0
    BY <1>4, <2>1, <2>2 DEF CountRunning
  <2> QED BY <1>4, <2>1, <2>2, <2>3 DEF Counted, CompletionsExact
<1>6. Sources /\ DependenciesFirst /\ Channel /\ Restored /\ Goroutines
  BY <1>4 DEF Init, Sources, DependenciesFirst, Channel, Restored, Goroutines, Start
<1> QED BY <1>1, <1>2, <1>3, <1>5, <1>6 DEF DagIInv

LEMMA RestartDagIInv ==
  ASSUME DagIInv, Restart
  PROVE  DagIInv'
<1> USE DEF DagIInv
<1>0. saved \in SUBSET Node
  BY DEF LooseTypes
<1>1. LooseTypes'
  <2>1. \A m \in Node : Cardinality(Deps[m] \ saved) \in Int
    BY SubsetSize, DagAssumption DEF DagAssumption
  <2>2. Cardinality(Node \ saved) \in Int
    BY SubsetSize
  <2>3. status' \in [Node -> NodeStatus] /\ inDegree' \in [Node -> Int] /\ pending' \in Int
    BY <2>1, <2>2 DEF Restart, Start, NodeStatus
  <2>4. gr' \in [Node -> {"none", "wait", "run", "backoff", "posted"}] /\ attempt' \in [Node -> 0..(Retries + 1)]
    BY DagAssumption DEF DagAssumption, Restart, LooseTypes
  <2>5. doneCh' \in Seq(Completion) /\ starts' \in 1..MaxStarts /\ ready' \in SUBSET Node
    BY DagAssumption DEF DagAssumption, Restart, LooseTypes, Start
  <2>6. /\ cfg' \in [strategy : Strategy, pq : BOOLEAN, limit : Limit]
        /\ oracle' \in [condFalse : SUBSET Conditional, mapperFails : SUBSET FaultyMapper,
                       exit : SUBSET ExitNode]
    BY DEF Restart, LooseTypes
  <2>7. /\ phase' \in {"loop", "recover", "drain", "undo", "returned", "dead"}
        /\ activePQ' \in Int /\ toDrain' \in Int
    BY DEF Restart
  <2>9. cancelled' \in BOOLEAN
    BY Zenon DEF Restart
  <2>8. /\ settling' \in SUBSET Node /\ recovering' \in SUBSET Node /\ undo' \in SUBSET Node
        /\ saved' \in SUBSET Node /\ ran' \in SUBSET Node /\ succeeded' \in SUBSET Node
        /\ undone' \in SUBSET Node /\ restored' \in SUBSET Node
    BY DEF Restart, LooseTypes
  <2> QED BY <2>3, <2>4, <2>5, <2>6, <2>7, <2>8, <2>9 DEF LooseTypes
<1>2. Bounds'
  <2>1. \A m \in Node : Cardinality(Deps[m] \ saved) \in 0..Cardinality(Node)
    BY SubsetSize, DagAssumption DEF DagAssumption
  <2>2. Cardinality(Node \ saved) \in 0..Cardinality(Node) /\ 0 \in 0..Cardinality(Node)
    BY SubsetSize
  <2> QED BY <2>1, <2>2 DEF Restart, Bounds, Start
<1>3. Waits'
  <2>1. \A m \in Node : Unsettled(m)' = Deps[m] \ saved
    BY DagAssumption DEF DagAssumption, Restart, Unsettled, Start, Settled
  <2> QED BY <2>1 DEF Restart, Waits, Start
<1>4. InFlight' = {} /\ Awaited' = Node \ saved /\ WithStatus("running")' = {}
  BY DEF Restart, InFlight, Awaited, Start, WithStatus
<1>5. Counted' /\ CompletionsExact'
  <2>1. Cardinality({}) = 0 /\ Cardinality(Node) \in Nat
    BY FS_EmptySet, SubsetSize
  <2>2. pending' = Cardinality(Node \ saved) /\ activePQ' = 0 /\ doneCh' = <<>> /\ phase' = "loop"
    BY DEF Restart, Start
  <2>3. CountRunning' = 0 /\ Cardinality(InFlight)' = 0 /\ Len(doneCh)' = 0
    BY <1>4, <2>1, <2>2 DEF CountRunning
  <2> QED BY <1>4, <2>1, <2>2, <2>3 DEF Counted, CompletionsExact
<1>6. Sources' /\ DependenciesFirst' /\ Channel' /\ Restored' /\ Goroutines'
  BY <1>0, <1>4 DEF Restart, Sources, DependenciesFirst, Channel, Restored, Goroutines, Start
<1> QED BY <1>1, <1>2, <1>3, <1>5, <1>6

-----------------------------------------------------------------------------
\* Types.

LEMMA NodeStepTypes ==
  ASSUME LooseTypes, Goroutines, NEW n \in Node, NodeStep(n)
  PROVE  LooseTypes' /\ Goroutines'
<1> USE DEF LooseTypes, Goroutines
<1>0. Retries \in Nat
  BY DagAssumption DEF DagAssumption
<1>1. CASE TakeSlot(n)
  BY <1>0, <1>1 DEF TakeSlot, loopVars
<1>2. CASE NoSlot(n)
  BY <1>0, <1>2 DEF NoSlot, Post, loopVars, history, Completion
<1>3. CASE RunnerOk(n)
  BY <1>0, <1>3 DEF RunnerOk, Post, loopVars, Completion
<1>4. CASE RunnerSuspends(n)
  BY <1>0, <1>4 DEF RunnerSuspends, Post, loopVars, history, Completion
<1>5. CASE RunnerFails(n)
  <2>1. CASE Post(n, "error", "posted")
    BY SMTT(40), <1>0, <1>5, <2>1 DEF RunnerFails, Post, loopVars, history, Completion
  <2>2. CASE attempt[n] <= Retries /\ gr' = [gr EXCEPT ![n] = "backoff"]
              /\ UNCHANGED <<cfg, oracle, loopVars, doneCh, cancelled, attempt, saved, starts>>
    BY <1>0, <1>5, <2>2 DEF RunnerFails, loopVars, history
  <2> QED BY <1>5, <2>1, <2>2 DEF RunnerFails
<1>6. CASE Retry(n)
  BY <1>0, <1>6 DEF Retry, loopVars, history
<1>7. CASE GiveUpRetry(n)
  BY <1>0, <1>7 DEF GiveUpRetry, Post, loopVars, history, Completion
<1>8. CASE FreeSlot(n)
  BY <1>0, <1>8 DEF FreeSlot, loopVars, history
<1> QED BY <1>1, <1>2, <1>3, <1>4, <1>5, <1>6, <1>7, <1>8 DEF NodeStep

LEMMA ReceiveTypes ==
  ASSUME LooseTypes, Receive
  PROVE  /\ doneCh' \in Seq(Completion) /\ pending' \in Int /\ activePQ' \in Int
         /\ Comp \in Completion
         /\ doneCh = <<Comp>> \o doneCh' /\ Len(doneCh) = Len(doneCh') + 1
BY DEF LooseTypes, Receive, Comp

LEMMA CompletionNodes ==
  ASSUME LooseTypes, NEW i \in DOMAIN doneCh
  PROVE  doneCh[i] \in Completion /\ doneCh[i].node \in Node
<1>1. doneCh[i] \in Completion
  BY DEF LooseTypes
<1> QED BY <1>1 DEF Completion

LEMMA AbortTypes ==
  ASSUME NEW st, Abort(st)
  PROVE  /\ phase' = "drain" /\ cancelled' \in BOOLEAN
         /\ toDrain' \in 0..Cardinality(Node) /\ toDrain' \in Int
<1>1. {n \in Node : st[n] = "running"} \in SUBSET Node
  OBVIOUS
<1>2. Cardinality({n \in Node : st[n] = "running"}) \in 0..Cardinality(Node) /\ Cardinality(Node) \in Nat
  BY <1>1, SubsetSize
<1>3. cancelled' \in BOOLEAN
  BY Zenon DEF Abort
<1> QED BY <1>2, <1>3 DEF Abort

LEMMA LoopStepTypes ==
  ASSUME LooseTypes, LoopStep
  PROVE  LooseTypes'
<1> USE DEF LooseTypes
<1>1. ASSUME NEW n \in Node, Propagate(n) PROVE LooseTypes'
  BY <1>1 DEF Propagate, Downstream, grVars, history
<1>2. ASSUME NEW n \in Node, SkipByCondition(n) PROVE LooseTypes'
  BY <1>2 DEF SkipByCondition, grVars, history, NodeStatus
<1>3. ASSUME NEW n \in Node, FailToBuild(n) PROVE LooseTypes'
  BY <1>3 DEF FailToBuild, Count, grVars, history, NodeStatus, Completion
<1>4. ASSUME NEW n \in Node, Launch(n) PROVE LooseTypes'
  BY <1>4 DEF Launch, Count, history, NodeStatus
<1>5. ASSUME NEW n \in Node, StartRecovery(n) PROVE LooseTypes'
  <2>1. Receive BY <1>5 DEF StartRecovery, ReceiveError
  <2> QED BY <1>5, <2>1, ReceiveTypes DEF StartRecovery, ReceiveError, Receive, grVars, NodeStatus
<1>6. ASSUME NEW n \in Node, FailAndRollBack(n) PROVE LooseTypes'
  <2>1. Receive BY <1>6 DEF FailAndRollBack, ReceiveError
  <2>2. Abort(status') BY <1>6 DEF FailAndRollBack
  <2> QED BY <1>6, <2>1, <2>2, ReceiveTypes, AbortTypes DEF FailAndRollBack, ReceiveError, Receive, Rollback, grVars, NodeStatus
<1>7. ASSUME NEW n \in Node, FailAndAbort(n) PROVE LooseTypes'
  <2>1. Receive BY <1>7 DEF FailAndAbort, ReceiveError
  <2>2. Abort(status') BY <1>7 DEF FailAndAbort
  <2> QED BY <1>7, <2>1, <2>2, ReceiveTypes, AbortTypes DEF FailAndAbort, ReceiveError, Receive, grVars, NodeStatus
<1>8. ASSUME NEW n \in Node, SkipOptional(n) PROVE LooseTypes'
  <2>1. Receive BY <1>8 DEF SkipOptional, ReceiveError
  <2> QED BY <1>8, <2>1, ReceiveTypes DEF SkipOptional, ReceiveError, Receive, grVars, NodeStatus
<1>9. ASSUME NEW n \in Node, RecoverOk(n) PROVE LooseTypes'
  BY <1>9 DEF RecoverOk, SaveCheckpoint, grVars, NodeStatus
<1>10. ASSUME NEW n \in Node, RecoverFails(n) PROVE LooseTypes'
  <2>1. Abort(status) BY <1>10 DEF RecoverFails
  <2> QED BY <1>10, <2>1, AbortTypes DEF RecoverFails, Rollback, grVars, history
<1>11. ASSUME NEW n \in Node, NEW ok \in BOOLEAN, CompensateNode(n, ok) PROVE LooseTypes'
  BY <1>11 DEF CompensateNode, grVars, NodeStatus
<1>12. CASE HandleSuccess
  <2>1. Receive BY <1>12 DEF HandleSuccess
  <2>2. Comp.node \in Node BY <2>1, ReceiveTypes DEF Completion
  <2>3. CASE Abort(status')
    BY <1>12, <2>1, <2>2, <2>3, ReceiveTypes, AbortTypes DEF HandleSuccess, Receive, SaveCheckpoint, grVars, NodeStatus
  <2>4. CASE UNCHANGED <<cancelled, toDrain, phase>>
    BY <1>12, <2>1, <2>2, <2>4, ReceiveTypes DEF HandleSuccess, Receive, SaveCheckpoint, grVars, NodeStatus
  <2> QED BY <1>12, <2>3, <2>4 DEF HandleSuccess
<1>13. CASE HandleCancel
  <2>1. Abort(status) BY <1>13 DEF HandleCancel
  <2> QED BY <1>13, <2>1, AbortTypes DEF HandleCancel, grVars, history
<1>14. CASE Drain
  BY <1>14 DEF Drain, grVars, history
<1>15. CASE Drained
  BY <1>15 DEF Drained, grVars, history
<1>16. CASE Finish
  <2>1. cancelled' \in BOOLEAN BY <1>16, Zenon DEF Finish
  <2> QED BY <1>16, <2>1 DEF Finish, grVars, history
<1> QED BY <1>1, <1>2, <1>3, <1>4, <1>5, <1>6, <1>7, <1>8, <1>9, <1>10, <1>11, <1>12, <1>13, <1>14,
           <1>15, <1>16 DEF LoopStep

-----------------------------------------------------------------------------
\* Node goroutines: they change the loop's variables only through the channel.

\* A goroutine keeps running, or posts its one completion and is done with
\* its runner.
Posts(n) ==
  /\ n \in InFlight /\ InFlight' = InFlight \ {n}
  /\ \E res \in {"ok", "error", "interrupted"} :
       doneCh' = Append(doneCh, [node |-> n, res |-> res])

LEMMA NodeStepShape ==
  ASSUME LooseTypes, NEW n \in Node, NodeStep(n)
  PROVE  /\ UNCHANGED <<cfg, oracle, loopVars, cancelled, saved, starts, restored>>
         /\ (InFlight' = InFlight /\ UNCHANGED doneCh) \/ Posts(n)
         /\ UNCHANGED ran \/ (n \in InFlight /\ ran' = ran \cup {n})
         /\ gr # [m \in Node |-> "none"]
<1> USE DEF LooseTypes, InFlight
<1>1. CASE TakeSlot(n)
  BY <1>1 DEF TakeSlot
<1>2. CASE NoSlot(n)
  BY <1>2 DEF NoSlot, Post, Posts, history
<1>3. CASE RunnerOk(n)
  BY <1>3 DEF RunnerOk, Post, Posts
<1>4. CASE RunnerSuspends(n)
  BY <1>4 DEF RunnerSuspends, Post, Posts, history
<1>5. CASE RunnerFails(n)
  BY <1>5 DEF RunnerFails, Post, Posts, history
<1>6. CASE Retry(n)
  BY <1>6 DEF Retry, history
<1>7. CASE GiveUpRetry(n)
  BY <1>7 DEF GiveUpRetry, Post, Posts, history
<1>8. CASE FreeSlot(n)
  BY <1>8 DEF FreeSlot, history
<1> QED BY <1>1, <1>2, <1>3, <1>4, <1>5, <1>6, <1>7, <1>8 DEF NodeStep

LEMMA NodeStepDagIInv ==
  ASSUME DagIInv, NEW n \in Node, NodeStep(n)
  PROVE  DagIInv'
<1> USE DEF DagIInv
<1>1. LooseTypes' /\ Goroutines'
  BY NodeStepTypes
<1>2. UNCHANGED <<cfg, phase, status, inDegree, pending, settling, ready, activePQ, toDrain,
                  recovering, undo, restored>>
  BY NodeStepShape DEF loopVars
<1>3. Bounds' /\ Waits' /\ Sources' /\ DependenciesFirst'
  BY <1>2 DEF Bounds, Waits, Active, Unsettled, Sources, DependenciesFirst
<1>4. InFlight' \subseteq InFlight
  BY NodeStepShape DEF Posts
<1>5. Restored'
  BY <1>2, <1>4, NodeStepShape DEF Restored
<1>6. Cardinality(InFlight)' + Len(doneCh)' = Cardinality(InFlight) + Len(doneCh)
  <2>1. InFlight \in SUBSET Node
    BY DEF InFlight
  <2>2. CASE Posts(n)
    <3>1. Cardinality(InFlight') = Cardinality(InFlight) - 1
      BY <2>1, <2>2, OneLess DEF Posts
    <3>2. Len(doneCh') = Len(doneCh) + 1 /\ Len(doneCh) \in Nat
      BY <2>2 DEF Posts, LooseTypes
    <3> QED BY <2>1, <3>1, <3>2, SubsetSize
  <2> QED BY <2>2, NodeStepShape
<1>7. Counted' /\ CompletionsExact'
  <2>1. Awaited' = Awaited /\ CountRunning' = CountRunning
    BY <1>2 DEF Awaited, CountRunning, WithStatus
  <2>2. phase \in {"undo", "returned"} => InFlight' = {} /\ doneCh' = <<>>
    BY NodeStepShape DEF CompletionsExact, Posts
  <2> QED BY <1>2, <1>6, <2>1, <2>2 DEF Counted, CompletionsExact, Active
<1>8. Channel'
  <2>1. CASE Posts(n)
    <3> SUFFICES ASSUME Active PROVE Channel'
      BY <1>2 DEF Channel, Active
    <3>1. PICK res \in {"ok", "error", "interrupted"} : doneCh' = Append(doneCh, [node |-> n, res |-> res])
      BY <2>1 DEF Posts
    <3>2. n \in InFlight /\ InFlight' = InFlight \ {n}
      BY <2>1 DEF Posts
    <3>3. \A i \in DOMAIN doneCh : doneCh[i].node # n /\ doneCh'[i] = doneCh[i]
      BY <3>1, <3>2 DEF Channel, LooseTypes
    <3>4. DOMAIN doneCh' = DOMAIN doneCh \cup {Len(doneCh) + 1} /\ doneCh'[Len(doneCh) + 1].node = n
      BY <3>1 DEF LooseTypes
    <3> QED BY <1>2, <3>2, <3>3, <3>4 DEF Channel
  <2>2. CASE InFlight' = InFlight /\ UNCHANGED doneCh
    BY <1>2, <2>2 DEF Channel, Active
  <2> QED BY <2>1, <2>2, NodeStepShape
<1> QED BY <1>1, <1>3, <1>5, <1>7, <1>8

-----------------------------------------------------------------------------
\* The environment.

LEMMA CancelDagIInv ==
  ASSUME DagIInv, CallerCancels
  PROVE  DagIInv'
<1> USE DEF DagIInv
<1>1. cancelled' \in BOOLEAN
  BY Zenon DEF CallerCancels
<1>2. UNCHANGED <<cfg, oracle, loopVars, doneCh, grVars, saved, starts, history>>
  BY DEF CallerCancels
<1>3. LooseTypes'
  BY <1>1, <1>2 DEF LooseTypes, loopVars, grVars, history
<1>4. Bounds' /\ Waits' /\ Sources' /\ DependenciesFirst'
  BY <1>2 DEF Bounds, Waits, Active, Unsettled, Sources, DependenciesFirst, loopVars, history
<1>5. InFlight' = InFlight /\ CountRunning' = CountRunning /\ Awaited' = Awaited
  BY <1>2 DEF InFlight, CountRunning, WithStatus, Awaited, loopVars, grVars
<1> QED
  BY <1>2, <1>3, <1>4, <1>5 DEF Channel, Counted, CompletionsExact, Restored, Goroutines, Active,
                                 loopVars, grVars, history

LEMMA CrashDagIInv ==
  ASSUME DagIInv, Crash
  PROVE  DagIInv'
<1> USE DEF DagIInv
<1>1. LooseTypes'
  BY DEF LooseTypes, Crash, history
<1>2. InFlight' = {} /\ InFlight \in SUBSET Node /\ Cardinality({}) = 0
  BY FS_EmptySet DEF Crash, InFlight
<1>3. Cardinality(InFlight) \in Nat /\ Len(doneCh) \in Nat /\ Cardinality(Node) \in Nat
  BY <1>2, SubsetSize DEF LooseTypes
<1>4. Counted'
  BY <1>2, <1>3 DEF Counted, Crash, Active
<1> QED
  BY <1>1, <1>2, <1>4 DEF Crash, Bounds, Waits, Active, Sources, DependenciesFirst, Channel,
                           CompletionsExact, Restored, Goroutines, history

-----------------------------------------------------------------------------
\* Scheduling.

\* While the loop schedules, exact counters stay within their bounds.
LEMMA BoundsActive ==
  ASSUME LooseTypes', Active', Waits', Counted', toDrain' \in 0..Cardinality(Node)
  PROVE  Bounds'
<1>1. \A m \in Node : Unsettled(m)' \in SUBSET Node
  BY DagAssumption DEF DagAssumption, Unsettled
<1>2. \A m \in Node : inDegree'[m] \in 0..Cardinality(Node)
  BY <1>1, SubsetSize DEF Waits
<1>3. Awaited' \in SUBSET Node /\ WithStatus("running")' \in SUBSET Node
  BY DEF Awaited, WithStatus
<1>4. Cardinality(Awaited') \in 0..Cardinality(Node)
  BY <1>3, SubsetSize
<1>5. CountRunning' \in 0..Cardinality(Node) /\ 0 \in 0..Cardinality(Node)
  BY <1>3, SubsetSize DEF CountRunning
<1>6. pending' \in 0..Cardinality(Node) /\ activePQ' \in 0..Cardinality(Node)
  BY <1>4, <1>5 DEF Counted
<1> QED BY <1>2, <1>6 DEF Bounds, LooseTypes

LEMMA PropagateDagIInv ==
  ASSUME DagIInv, NEW n \in Node, Propagate(n)
  PROVE  DagIInv'
<1> USE DEF DagIInv
<1>1. LooseTypes'
  BY LoopStepTypes DEF LoopStep
<1>2. UNCHANGED <<cfg, phase, status, pending, activePQ, toDrain, recovering, undo, doneCh, gr, attempt,
                  restored, ran>>
  BY DEF Propagate, grVars, history
<1>3. InFlight' = InFlight /\ CountRunning' = CountRunning /\ Awaited' = Awaited
  BY <1>2 DEF InFlight, CountRunning, WithStatus, Awaited
<1>4. Channel' /\ Counted' /\ CompletionsExact' /\ Restored' /\ Goroutines'
  BY <1>2, <1>3 DEF Channel, Counted, CompletionsExact, Restored, Goroutines, Active
<1>5. Sources' /\ DependenciesFirst'
  BY <1>2 DEF Sources, DependenciesFirst
<1>6. Waits'
  <2>1. n \in settling /\ Active /\ settling' = settling \ {n}
    BY DEF Propagate, Active
  <2>2. status[n] \in Settled
    BY <2>1 DEF Waits
  <2>3. \A m \in Node : Unsettled(m) \in SUBSET Node /\ Unsettled(m)' = Unsettled(m) \ {n}
    BY <1>2, <2>1, <2>2, DagAssumption DEF DagAssumption, Unsettled
  <2>4. \A m \in Downstream(n) : n \in Unsettled(m) /\ m \in Node
    BY <2>1 DEF Downstream, Unsettled
  <2>5. \A m \in Node \ Downstream(n) : n \notin Unsettled(m)
    BY DEF Downstream, Unsettled
  <2>6. ASSUME NEW m \in Node
        PROVE  inDegree'[m] = Cardinality(Unsettled(m)')
    <3>1. CASE m \in Downstream(n)
      <4>1. Cardinality(Unsettled(m) \ {n}) = Cardinality(Unsettled(m)) - 1
        BY <3>1, <2>3, <2>4, OneLess
      <4> QED BY <3>1, <4>1, <2>1, <2>3 DEF Waits, Propagate
    <3>2. CASE m \notin Downstream(n)
      <4>1. Unsettled(m) \ {n} = Unsettled(m)
        BY <3>2, <2>5
      <4> QED BY <3>2, <4>1, <2>1, <2>3 DEF Waits, Propagate
    <3> QED BY <3>1, <3>2
  <2>7. ASSUME NEW m \in ready'
        PROVE  status'[m] = "pending" /\ Unsettled(m)' = {}
    <3>1. CASE m \in ready
      BY <1>2, <2>1, <2>3, <3>1 DEF Waits, LooseTypes
    <3>2. CASE m \in Downstream(n) /\ inDegree[m] = 1 /\ status[m] = "pending"
      <4>1. m \in Node /\ Unsettled(m)' \in SUBSET Node
        BY <2>3, <2>4, <3>2
      <4>2. inDegree'[m] = 0
        BY <3>2, <4>1 DEF Propagate
      <4>3. Cardinality(Unsettled(m)') = 0
        BY <4>1, <4>2, <2>6
      <4> QED BY <1>2, <3>2, <4>1, <4>3, SubsetSize
    <3> QED BY <3>1, <3>2 DEF Propagate
  <2> QED BY <1>2, <2>1, <2>2, <2>6, <2>7 DEF Waits
<1>7. Bounds'
  <2>1. Active' BY <1>2 DEF Active, Propagate
  <2>2. toDrain' \in 0..Cardinality(Node) BY <1>2 DEF Bounds
  <2> QED BY <1>1, <1>4, <1>6, <2>1, <2>2, BoundsActive
<1> QED BY <1>1, <1>4, <1>5, <1>6, <1>7

\* What a scheduled node does to the loop's own variables: it is skipped and
\* is to be propagated, or it runs.
Scheduled(n) ==
  /\ CanSchedule(n)
  /\ ready' = ready \ {n}
  /\ \/ /\ status' = [status EXCEPT ![n] = "skipped"]
        /\ settling' = settling \cup {n} /\ pending' = pending - 1
        /\ UNCHANGED <<activePQ, doneCh, gr>>
     \/ /\ status' = [status EXCEPT ![n] = "running"]
        /\ Count(n)
        /\ UNCHANGED <<pending, settling>>
        /\ \/ doneCh' = Append(doneCh, [node |-> n, res |-> "error"]) /\ UNCHANGED gr
           \/ gr' = [gr EXCEPT ![n] = "wait"] /\ UNCHANGED doneCh
  /\ UNCHANGED <<cfg, phase, inDegree, toDrain, recovering, undo, attempt, restored, ran>>

LEMMA ScheduleShape ==
  ASSUME NEW n \in Node, SkipByCondition(n) \/ FailToBuild(n) \/ Launch(n)
  PROVE  Scheduled(n)
BY DEF SkipByCondition, FailToBuild, Launch, Scheduled, grVars, history

LEMMA ScheduledDagIInv ==
  ASSUME DagIInv, LooseTypes', NEW n \in Node, Scheduled(n)
  PROVE  DagIInv'
<1> USE DEF DagIInv
<1>1. /\ n \in ready /\ Active /\ phase' = phase /\ phase = "loop"
      /\ UNCHANGED <<cfg, phase, inDegree, toDrain, recovering, undo, attempt, restored, ran>>
  BY DEF Scheduled, CanSchedule, Active
<1>2. status[n] = "pending" /\ Unsettled(n) = {}
  BY <1>1 DEF Waits
<1>3. n \notin InFlight /\ n \notin restored /\ n \notin undo /\ \A i \in DOMAIN doneCh : doneCh[i].node # n
  BY <1>1, <1>2 DEF Channel, Restored, Sources
<1>4. status' \in {[status EXCEPT ![n] = "skipped"], [status EXCEPT ![n] = "running"]}
  BY DEF Scheduled
<1>5. \A m \in Node : m # n => status'[m] = status[m]
  BY <1>4 DEF LooseTypes
<1>6. Sources'
  BY <1>1, <1>3, <1>5 DEF Sources, LooseTypes
<1>7. DependenciesFirst'
  <2>1. \A e \in Deps[n] : status[e] \in Settled /\ e # n /\ e \in Node
    BY <1>2, DagAssumption DEF DagAssumption, Unsettled, Settled
  <2>2. \A m \in Node : (m # n /\ m \notin restored /\ status[m] \in {"running", "done", "failed"}) => n \notin Deps[m]
    BY <1>2 DEF DependenciesFirst
  <2>3. \A m \in Node : \A e \in Deps[m] : e \in Node
    BY DagAssumption DEF DagAssumption
  <2> QED BY <1>1, <1>5, <2>1, <2>2, <2>3 DEF DependenciesFirst, Settled
<1>8. Waits'
  <2>1. \A m \in Node : Unsettled(m)' = Unsettled(m)
    <3>1. \A m \in Node : Deps[m] \subseteq Node
      BY DagAssumption DEF DagAssumption
    <3>2. status'[n] \in Settled => n \in settling'
      BY <1>2 DEF Scheduled, LooseTypes, Settled
    <3>3. settling' \subseteq settling \cup {n} /\ settling \subseteq settling'
      BY DEF Scheduled
    <3> QED BY <1>2, <1>5, <3>1, <3>2, <3>3 DEF Unsettled, Settled
  <2>2. \A m \in settling' : status'[m] \in Settled
    <3>1. settling = {}
      BY DEF Scheduled, CanSchedule
    <3> QED BY <1>2, <3>1 DEF Scheduled, LooseTypes, Settled
  <2>3. \A m \in ready' : status'[m] = "pending" /\ Unsettled(m)' = {}
    BY <1>1, <1>5, <2>1 DEF Scheduled, LooseTypes, Waits
  <2> QED BY <1>1, <2>1, <2>2, <2>3 DEF Waits
<1>9. CASE status' = [status EXCEPT ![n] = "skipped"]
  <2>1. settling' = settling \cup {n} /\ pending' = pending - 1 /\ UNCHANGED <<activePQ, doneCh, gr>>
    BY <1>9 DEF Scheduled, LooseTypes
  <2>2. InFlight' = InFlight /\ WithStatus("running")' = WithStatus("running")
    BY <1>2, <1>9, <2>1 DEF InFlight, WithStatus, LooseTypes
  <2>3. Awaited' = Awaited \ {n} /\ n \in Awaited /\ Awaited \in SUBSET Node
    BY <1>2, <1>9 DEF Awaited, LooseTypes
  <2>4. Cardinality(Awaited') = Cardinality(Awaited) - 1
    BY <2>3, OneLess
  <2>5. Counted' /\ CompletionsExact'
    BY <1>1, <2>1, <2>2, <2>4 DEF Counted, CompletionsExact, CountRunning, Active
  <2>6. Channel' /\ Restored' /\ Goroutines'
    <3>1. \A i \in DOMAIN doneCh : doneCh[i].node \in Node
      BY CompletionNodes
    <3>2. InFlight \in SUBSET Node
      BY DEF InFlight
    <3>3. Channel'
      BY <1>1, <1>3, <1>5, <2>1, <2>2, <3>1, <3>2 DEF Channel
    <3>4. Restored'
      BY <1>1, <1>3, <1>5, <2>2 DEF Restored, LooseTypes
    <3>5. Goroutines'
      BY <1>1, <2>1 DEF Goroutines
    <3> QED BY <3>3, <3>4, <3>5
  <2> QED BY <1>6, <1>7, <1>8, <2>5, <2>6, <1>1, BoundsActive DEF Active, Bounds
<1>10. CASE status' = [status EXCEPT ![n] = "running"]
  <2>1. Count(n) /\ UNCHANGED <<pending, settling>>
    BY <1>10 DEF Scheduled, LooseTypes
  <2>2. WithStatus("running")' = WithStatus("running") \cup {n} /\ Awaited' = Awaited
    BY <1>2, <1>10 DEF WithStatus, Awaited, LooseTypes
  <2>3. CountRunning' = CountRunning + 1 /\ CountRunning' <= Cardinality(Node) /\ CountRunning \in Nat
    <3>1. n \notin WithStatus("running") /\ WithStatus("running") \in SUBSET Node
      BY <1>2 DEF WithStatus
    <3>2. WithStatus("running")' \in SUBSET Node
      BY DEF WithStatus
    <3> QED BY <2>2, <3>1, <3>2, OneMore, SubsetSize DEF CountRunning
  <2>4. /\ Channel' /\ Restored' /\ Goroutines'
        /\ Cardinality(InFlight)' + Len(doneCh)' = Cardinality(InFlight) + Len(doneCh) + 1
    <3>0. InFlight \in SUBSET Node /\ Cardinality(InFlight) \in Nat /\ Len(doneCh) \in Nat
      BY SubsetSize DEF InFlight, LooseTypes
    <3>1. CASE doneCh' = Append(doneCh, [node |-> n, res |-> "error"]) /\ UNCHANGED gr
      <4>1. InFlight' = InFlight /\ Len(doneCh') = Len(doneCh) + 1
        BY <3>1 DEF InFlight, LooseTypes
      <4>2. \A i \in DOMAIN doneCh : doneCh'[i] = doneCh[i]
        BY <3>1 DEF LooseTypes
      <4>3. DOMAIN doneCh' = DOMAIN doneCh \cup {Len(doneCh) + 1} /\ doneCh'[Len(doneCh) + 1].node = n
        BY SMTT(40), <3>1 DEF LooseTypes
      <4>4. Channel'
        <5>1. \A i \in DOMAIN doneCh : doneCh[i].node \in Node
          BY CompletionNodes
        <5>2. status'[n] = "running"
          BY <1>10 DEF LooseTypes
        <5> QED BY <1>1, <1>3, <1>5, <3>0, <4>1, <4>2, <4>3, <5>1, <5>2 DEF Channel
      <4>5. Restored'
        BY <1>1, <1>3, <1>5, <4>1 DEF Restored, LooseTypes
      <4>6. Goroutines'
        BY <1>1, <3>1 DEF Goroutines
      <4> QED BY <3>0, <4>1, <4>4, <4>5, <4>6
    <3>2. CASE gr' = [gr EXCEPT ![n] = "wait"] /\ UNCHANGED doneCh
      <4>1. InFlight' = InFlight \cup {n}
        BY <3>2 DEF InFlight, LooseTypes
      <4>2. Cardinality(InFlight') = Cardinality(InFlight) + 1
        BY <1>3, <3>0, <4>1, OneMore
      <4>3. Channel'
        BY <1>1, <1>3, <1>5, <1>10, <3>2, <4>1 DEF Channel, LooseTypes, Completion, InFlight
      <4>4. Restored' /\ Goroutines'
        BY <1>1, <1>3, <1>5, <3>2, <4>1 DEF Restored, Goroutines, LooseTypes
      <4> QED BY <3>0, <3>2, <4>2, <4>3, <4>4
    <3> QED BY <1>10, <3>1, <3>2 DEF Scheduled, LooseTypes
  <2>5. Counted' /\ CompletionsExact'
    BY <1>1, <2>1, <2>2, <2>3, <2>4 DEF Counted, CompletionsExact, Active, Count, LooseTypes
  <2> QED BY <1>6, <1>7, <1>8, <2>4, <2>5, <1>1, BoundsActive DEF Active, Bounds
<1> QED BY <1>4, <1>9, <1>10

-----------------------------------------------------------------------------
\* Handling a completion.

\* The effect of a completion on the loop: the node settles, goes into
\* recovery, or the loop aborts.
Received(n, st) ==
  /\ Receive /\ n = Comp.node
  /\ status' = [status EXCEPT ![n] = st]
  /\ \/ /\ st \in Settled /\ phase' = "loop" /\ settling' = settling \cup {n}
        /\ UNCHANGED <<toDrain, undo, recovering>>
     \/ /\ st = "failed" /\ phase' = "recover" /\ recovering' = {n}
        /\ UNCHANGED <<toDrain, undo, settling>>
     \/ /\ Abort(status')
        /\ undo' \in {undo, Rollback(status')}
        /\ UNCHANGED <<recovering, settling>>

LEMMA ReceiveShape ==
  /\ HandleSuccess => Received(Comp.node, "done")
  /\ \A n \in Node : /\ StartRecovery(n) \/ FailAndRollBack(n) \/ FailAndAbort(n) => Received(n, "failed")
                     /\ SkipOptional(n) => Received(n, "skipped")
<1>1. ASSUME HandleSuccess PROVE Received(Comp.node, "done")
  BY <1>1 DEF HandleSuccess, Received, Receive, Selecting, Settled
<1>2. ASSUME NEW n \in Node, StartRecovery(n) \/ FailAndRollBack(n) \/ FailAndAbort(n)
      PROVE  Received(n, "failed")
  BY <1>2 DEF StartRecovery, FailAndRollBack, FailAndAbort, ReceiveError, Received
<1>3. ASSUME NEW n \in Node, SkipOptional(n) PROVE Received(n, "skipped")
  BY <1>3 DEF SkipOptional, ReceiveError, Received, Receive, Selecting, Settled
<1> QED BY <1>1, <1>2, <1>3

LEMMA ReceivedDagIInv ==
  ASSUME DagIInv, LooseTypes', NEW n, NEW st \in {"done", "failed", "skipped"}, Received(n, st)
  PROVE  DagIInv'
<1> USE DEF DagIInv
<1>1. /\ Receive /\ n = Comp.node /\ Active /\ phase = "loop" /\ doneCh # <<>> /\ doneCh' = Tail(doneCh)
      /\ UNCHANGED <<cfg, inDegree, ready, gr, attempt, ran, restored>>
  BY DEF Received, Receive, Selecting, Active, grVars
<1>2. 1 \in DOMAIN doneCh /\ n = doneCh[1].node /\ n \in Node
  <2>1. 1 \in DOMAIN doneCh /\ Comp = doneCh[1]
    BY <1>1 DEF LooseTypes, Comp
  <2> QED BY <1>1, <2>1, CompletionNodes
<1>3. status[n] = "running" /\ n \notin InFlight
  BY <1>1, <1>2 DEF Channel
<1>4. n \notin restored /\ n \notin undo /\ n \notin ready /\ n \notin settling
  BY <1>1, <1>3 DEF Restored, Sources, Waits, Settled
<1>5. status' = [status EXCEPT ![n] = st] /\ status'[n] = st /\ \A m \in Node : m # n => status'[m] = status[m]
  BY <1>2 DEF Received, LooseTypes
<1>6. InFlight' = InFlight /\ InFlight \in SUBSET Node
  BY <1>1 DEF InFlight
<1>7. /\ Len(doneCh') = Len(doneCh) - 1 /\ Len(doneCh) \in Nat \ {0}
      /\ \A i \in DOMAIN doneCh' : i + 1 \in DOMAIN doneCh /\ doneCh'[i] = doneCh[i + 1]
      /\ \A i \in DOMAIN doneCh' : i \in Nat \ {0}
  BY <1>1 DEF LooseTypes
<1>8. \A i \in DOMAIN doneCh' : doneCh'[i].node # n /\ doneCh'[i].node \in Node
  <2> SUFFICES ASSUME NEW i \in DOMAIN doneCh' PROVE doneCh'[i].node # n /\ doneCh'[i].node \in Node
    OBVIOUS
  <2>1. i + 1 \in DOMAIN doneCh /\ doneCh'[i] = doneCh[i + 1] /\ i + 1 # 1
    BY <1>7
  <2> QED BY <1>1, <1>2, <2>1, CompletionNodes DEF Channel
<1>9. Channel'
  <2>1. \A m \in InFlight' : status'[m] = "running"
    BY <1>1, <1>3, <1>5, <1>6 DEF Channel
  <2>2. ASSUME NEW i \in DOMAIN doneCh'
        PROVE  /\ status'[doneCh'[i].node] = "running"
               /\ doneCh'[i].node \notin InFlight'
               /\ \A j \in DOMAIN doneCh' : doneCh'[j].node = doneCh'[i].node => i = j
    <3>1. i + 1 \in DOMAIN doneCh /\ doneCh'[i] = doneCh[i + 1]
      BY <1>7
    <3>2. doneCh[i + 1].node # n /\ doneCh[i + 1].node \in Node
      BY <1>8, <3>1
    <3>3. status'[doneCh'[i].node] = "running" /\ doneCh'[i].node \notin InFlight'
      BY <1>1, <1>5, <1>6, <3>1, <3>2 DEF Channel
    <3>4. ASSUME NEW j \in DOMAIN doneCh', doneCh'[j].node = doneCh'[i].node PROVE i = j
      <4>1. j + 1 \in DOMAIN doneCh /\ doneCh'[j] = doneCh[j + 1] /\ i \in Nat /\ j \in Nat
        BY <1>7
      <4>2. i + 1 = j + 1
        BY <1>1, <3>1, <3>4, <4>1 DEF Channel
      <4> QED BY <4>1, <4>2
    <3> QED BY <3>3, <3>4
  <2> QED BY <2>1, <2>2 DEF Channel
<1>10. CountRunning' = CountRunning - 1 /\ CountRunning' \in 0..Cardinality(Node) /\ CountRunning \in Nat
  <2>1. WithStatus("running")' = WithStatus("running") \ {n} /\ n \in WithStatus("running")
    BY <1>2, <1>3, <1>5 DEF WithStatus
  <2>2. WithStatus("running") \in SUBSET Node /\ WithStatus("running")' \in SUBSET Node
    BY DEF WithStatus
  <2> QED BY <2>1, <2>2, OneLess, SubsetSize DEF CountRunning
<1>11. Cardinality(Awaited') = Cardinality(Awaited) - 1 /\ Cardinality(Awaited') \in 0..Cardinality(Node)
  <2>1. Awaited' = Awaited \ {n} /\ n \in Awaited
    BY <1>2, <1>3, <1>5 DEF Awaited
  <2>2. Awaited \in SUBSET Node /\ Awaited' \in SUBSET Node
    BY DEF Awaited
  <2> QED BY <2>1, <2>2, OneLess, SubsetSize
<1>12. pending' = Cardinality(Awaited') /\ activePQ' = (IF cfg.pq THEN CountRunning' ELSE 0)
  BY <1>1, <1>10, <1>11 DEF Counted, Receive
<1>13. CountRunning' = Cardinality(InFlight') + Len(doneCh')
  BY <1>1, <1>6, <1>7, <1>10, SubsetSize DEF CompletionsExact, Active
<1>14. Counted'
  BY <1>1, <1>10, <1>12, <1>13 DEF Counted
<1>15. phase' \in {"loop", "recover", "drain"} /\ (phase' = "drain" => Abort(status'))
  BY DEF Received, Abort
<1>16. CompletionsExact'
  <2>1. phase' = "drain" => toDrain' = CountRunning'
    BY <1>15 DEF Abort, CountRunning, WithStatus
  <2> QED BY <1>13, <1>15, <2>1 DEF CompletionsExact
<1>17. Restored' /\ Goroutines'
  BY <1>1, <1>4, <1>5, <1>6, <1>15 DEF Restored, Goroutines, LooseTypes
<1>18. Sources'
  <2>1. phase' = "recover" => recovering' = {n} /\ st = "failed"
    BY DEF Received, Abort
  <2>2. undo' = undo \/ undo' = Rollback(status')
    BY DEF Received
  <2> QED BY SMTT(40), <1>4, <1>5, <2>1, <2>2 DEF Sources, Rollback, LooseTypes
<1>19. DependenciesFirst'
  <2>1. \A e \in Deps[n] : status[e] \in {"done", "skipped", "compensated"} /\ e # n /\ e \in Node
    BY <1>2, <1>3, <1>4, DagAssumption DEF DagAssumption, DependenciesFirst
  <2>2. \A m \in Node : (m # n /\ m \notin restored /\ status[m] \in {"running", "done", "failed"}) => n \notin Deps[m]
    BY <1>3 DEF DependenciesFirst
  <2>3. \A m \in Node : \A e \in Deps[m] : e \in Node
    BY DagAssumption DEF DagAssumption
  <2> QED BY <1>1, <1>5, <2>1, <2>2, <2>3 DEF DependenciesFirst
<1>20. Waits'
  <2> SUFFICES ASSUME Active' PROVE Waits'
    BY DEF Waits
  <2>1. \/ st \in Settled /\ settling' = settling \cup {n}
        \/ st = "failed" /\ settling' = settling
    BY DEF Received, Active, Abort
  <2>2. \A m \in Node : Deps[m] \subseteq Node
    BY DagAssumption DEF DagAssumption
  <2>3. \A m \in Node : Unsettled(m)' = Unsettled(m)
    BY <1>3, <1>5, <2>1, <2>2 DEF Unsettled, Settled
  <2>4. \A m \in settling' : status'[m] \in Settled
    BY <1>1, <1>4, <1>5, <2>1 DEF Waits, LooseTypes, Settled
  <2>5. \A m \in ready' : status'[m] = "pending" /\ Unsettled(m)' = {}
    BY <1>1, <1>4, <1>5, <2>3 DEF Waits, LooseTypes
  <2> QED BY <1>1, <2>3, <2>4, <2>5 DEF Waits
<1>21. Bounds'
  <2>1. toDrain' \in 0..Cardinality(Node)
    <3>1. ASSUME Abort(status') PROVE toDrain' \in 0..Cardinality(Node)
      BY <3>1, AbortTypes
    <3> QED BY <3>1 DEF Received, Bounds
  <2>2. Cardinality(Node) \in Nat
    BY SubsetSize
  <2> QED BY <1>1, <1>10, <1>11, <1>12, <2>1, <2>2 DEF Bounds
<1> QED BY <1>9, <1>14, <1>16, <1>17, <1>18, <1>19, <1>20, <1>21

-----------------------------------------------------------------------------
\* Forward recovery, teardown and rollback.

LEMMA RecoverOkDagIInv ==
  ASSUME DagIInv, LooseTypes', NEW n \in Node, RecoverOk(n)
  PROVE  DagIInv'
<1> USE DEF DagIInv
<1>1. /\ Active /\ Active' /\ status[n] = "failed" /\ phase' = "loop"
      /\ settling' = settling \cup {n}
      /\ UNCHANGED <<cfg, inDegree, pending, ready, activePQ, toDrain, undo, doneCh, gr, attempt, ran, restored>>
  BY DEF RecoverOk, Active, Sources, grVars
<1>2. status'[n] = "done" /\ \A m \in Node : m # n => status'[m] = status[m]
  BY DEF RecoverOk, LooseTypes
<1>3. n \notin restored /\ n \notin undo /\ n \notin ready /\ n \notin InFlight /\ n \notin settling
  BY <1>1 DEF Restored, Sources, Waits, Channel, Settled
<1>4. InFlight' = InFlight /\ InFlight \in SUBSET Node
  BY <1>1 DEF InFlight
<1>5. Awaited' = Awaited /\ CountRunning' = CountRunning
  <2>1. Awaited' = Awaited /\ WithStatus("running")' = WithStatus("running")
    BY <1>1, <1>2 DEF Awaited, WithStatus
  <2> QED BY <2>1 DEF CountRunning
<1>6. Counted' /\ CompletionsExact'
  BY <1>1, <1>4, <1>5 DEF Counted, CompletionsExact, Active
<1>7. \A i \in DOMAIN doneCh : doneCh[i].node \in Node /\ doneCh[i].node # n
  BY <1>1, CompletionNodes DEF Channel
<1>8. Channel'
  BY <1>1, <1>2, <1>3, <1>4, <1>7 DEF Channel
<1>9. Restored' /\ Goroutines'
  BY <1>1, <1>2, <1>3, <1>4 DEF Restored, Goroutines, LooseTypes
<1>10. Sources'
  BY <1>1, <1>2, <1>3 DEF Sources, LooseTypes
<1>11. DependenciesFirst'
  <2>1. \A e \in Deps[n] : status[e] \in {"done", "skipped", "compensated"} /\ e # n /\ e \in Node
    BY <1>1, <1>3, DagAssumption DEF DagAssumption, DependenciesFirst
  <2>2. \A m \in Node : \A e \in Deps[m] : e \in Node
    BY DagAssumption DEF DagAssumption
  <2> QED BY <1>1, <1>2, <2>1, <2>2 DEF DependenciesFirst
<1>12. Waits'
  <2>1. \A m \in Node : Deps[m] \subseteq Node
    BY DagAssumption DEF DagAssumption
  <2>2. \A m \in Node : Unsettled(m)' = Unsettled(m)
    BY <1>1, <1>2, <2>1 DEF Unsettled, Settled
  <2>3. \A m \in settling' : status'[m] \in Settled
    BY <1>1, <1>2, <1>3 DEF Waits, LooseTypes, Settled
  <2>4. \A m \in ready' : status'[m] = "pending" /\ Unsettled(m)' = {}
    BY <1>1, <1>2, <1>3, <2>2 DEF Waits, LooseTypes
  <2> QED BY <1>1, <2>2, <2>3, <2>4 DEF Waits
<1>13. Bounds'
  BY <1>1 DEF Bounds
<1> QED BY <1>6, <1>8, <1>9, <1>10, <1>11, <1>12, <1>13

\* The loop leaves its select, or its recovery, for the drain.
LEMMA LeaveDagIInv ==
  ASSUME DagIInv, LooseTypes', HandleCancel \/ \E n \in Node : RecoverFails(n)
  PROVE  DagIInv'
<1> USE DEF DagIInv
<1>1. /\ Active /\ Abort(status) /\ phase' = "drain"
      /\ UNCHANGED <<cfg, status, inDegree, pending, activePQ, doneCh, gr, attempt, ran, restored>>
      /\ undo' = undo \/ undo' = Rollback(status)
  BY DEF HandleCancel, RecoverFails, Selecting, Active, Abort, grVars, history
<1>2. InFlight' = InFlight /\ toDrain' = CountRunning
  BY <1>1 DEF InFlight, Abort, CountRunning, WithStatus
<1>3. Counted' /\ CompletionsExact'
  BY <1>1, <1>2 DEF Counted, CompletionsExact, Active
<1>4. Sources' /\ DependenciesFirst' /\ Restored' /\ Goroutines'
  BY <1>1, <1>2 DEF Sources, DependenciesFirst, Restored, Goroutines, Rollback
<1>5. Waits' /\ Channel'
  BY <1>1 DEF Waits, Channel, Active
<1>6. Bounds'
  BY <1>1, AbortTypes DEF Bounds
<1> QED BY <1>3, <1>4, <1>5, <1>6

\* Past the abort only the drain and the rollback change anything.
LEMMA EndDagIInv ==
  ASSUME DagIInv, LooseTypes',
         Drain \/ Drained \/ Finish \/ \E n \in Node, ok \in BOOLEAN : CompensateNode(n, ok)
  PROVE  DagIInv'
<1> USE DEF DagIInv
<1>0. InFlight \in SUBSET Node /\ Cardinality(InFlight) \in Nat /\ (Cardinality(InFlight) = 0 <=> InFlight = {})
  BY SubsetSize DEF InFlight
<1>1. CASE Drain
  <2>1. /\ phase = "drain" /\ toDrain > 0 /\ toDrain' = toDrain - 1
        /\ Len(doneCh') = Len(doneCh) - 1 /\ Len(doneCh) \in Nat \ {0}
        /\ UNCHANGED <<cfg, phase, status, inDegree, pending, activePQ, recovering, undo, gr, attempt, ran, restored>>
    BY <1>1 DEF Drain, grVars, history, LooseTypes
  <2>2. InFlight' = InFlight
    BY <2>1 DEF InFlight
  <2>3. Counted' /\ CompletionsExact'
    <3>1. Cardinality(Node) \in Nat /\ toDrain \in Int
      BY SubsetSize DEF LooseTypes
    <3>2. Cardinality(InFlight') + Len(doneCh') = Cardinality(InFlight) + Len(doneCh) - 1
      BY <1>0, <2>1, <2>2
    <3>3. Counted'
      BY <1>0, <2>1, <3>1, <3>2 DEF Counted, Active
    <3>4. CompletionsExact'
      BY <1>0, <2>1, <3>1, <3>2 DEF CompletionsExact
    <3> QED BY <3>3, <3>4
  <2>4. Sources' /\ DependenciesFirst' /\ Restored' /\ Goroutines'
    BY <2>1, <2>2 DEF Sources, DependenciesFirst, Restored, Goroutines
  <2>5. Waits' /\ Channel'
    BY <2>1 DEF Waits, Channel, Active
  <2>6. Bounds'
    <3>1. Cardinality(Node) \in Nat
      BY SubsetSize
    <3> QED BY <2>1, <3>1 DEF Bounds
  <2> QED BY <2>3, <2>4, <2>5, <2>6
<1>2. CASE Drained
  <2>1. /\ phase = "drain" /\ toDrain = 0 /\ phase' \in {"returned", "undo"}
        /\ UNCHANGED <<cfg, status, inDegree, pending, activePQ, toDrain, recovering, undo, doneCh, gr, attempt, ran, restored>>
    BY <1>2 DEF Drained, grVars, history
  <2>2. InFlight' = InFlight /\ InFlight = {} /\ doneCh = <<>>
    <3>1. Len(doneCh) \in Nat /\ (Len(doneCh) = 0 => doneCh = <<>>)
      BY DEF LooseTypes
    <3> QED BY <1>0, <2>1, <3>1 DEF InFlight, CompletionsExact
  <2>3. Counted' /\ CompletionsExact'
    BY <2>1, <2>2 DEF Counted, CompletionsExact, Active
  <2>4. Sources' /\ DependenciesFirst' /\ Restored' /\ Goroutines'
    BY <2>1, <2>2 DEF Sources, DependenciesFirst, Restored, Goroutines
  <2>5. Waits' /\ Channel' /\ Bounds'
    BY <2>1 DEF Waits, Channel, Active, Bounds
  <2> QED BY <2>3, <2>4, <2>5
<1>3. CASE Finish
  <2>1. /\ phase = "loop" /\ pending = 0 /\ phase' = "returned"
        /\ UNCHANGED <<cfg, status, inDegree, pending, activePQ, toDrain, recovering, undo, doneCh, gr, attempt, ran, restored>>
    BY <1>3 DEF Finish, grVars, history
  <2>2. CountRunning = 0
    <3>1. WithStatus("running") \in SUBSET Node /\ WithStatus("pending") \in SUBSET Node
      BY DEF WithStatus
    <3>2. Cardinality(WithStatus("pending")) \in Nat /\ CountRunning \in Nat
      BY <3>1, SubsetSize DEF CountRunning
    <3> QED BY <2>1, <3>2, AwaitedSum DEF Counted, Active
  <2>3. InFlight' = InFlight /\ InFlight = {} /\ doneCh = <<>>
    <3>1. Len(doneCh) \in Nat /\ (Len(doneCh) = 0 => doneCh = <<>>)
      BY DEF LooseTypes
    <3>2. Cardinality(InFlight) + Len(doneCh) = 0
      BY <2>1, <2>2 DEF CompletionsExact
    <3> QED BY <1>0, <2>1, <3>1, <3>2 DEF InFlight
  <2>4. Counted' /\ CompletionsExact'
    BY <2>1, <2>3 DEF Counted, CompletionsExact, Active
  <2>5. Sources' /\ DependenciesFirst' /\ Restored' /\ Goroutines'
    BY <2>1, <2>3 DEF Sources, DependenciesFirst, Restored, Goroutines
  <2>6. Waits' /\ Channel' /\ Bounds'
    BY <2>1 DEF Waits, Channel, Active, Bounds
  <2> QED BY <2>4, <2>5, <2>6
<1>4. ASSUME NEW n \in Node, NEW ok \in BOOLEAN, CompensateNode(n, ok) PROVE DagIInv'
  <2>1. /\ phase = "undo" /\ n \in undo /\ undo' = undo \ {n} /\ phase' \in {"returned", "undo"}
        /\ UNCHANGED <<cfg, inDegree, pending, activePQ, toDrain, recovering, doneCh, gr, attempt, ran, restored>>
    BY <1>4 DEF CompensateNode, grVars
  <2>2. status[n] = "done" /\ status'[n] \in {"done", "compensated"} /\ \A m \in Node : m # n => status'[m] = status[m]
    BY <1>4, <2>1 DEF CompensateNode, Sources, LooseTypes
  <2>3. InFlight' = InFlight
    BY <2>1 DEF InFlight
  <2>4. Counted' /\ CompletionsExact'
    BY <2>1, <2>3 DEF Counted, CompletionsExact, Active
  <2>5. Sources' /\ Restored' /\ Goroutines'
    <3>1. Sources'
      BY <2>1, <2>2 DEF Sources, LooseTypes
    <3>2. Restored'
      BY <2>1, <2>2, <2>3 DEF Restored, LooseTypes
    <3>3. Goroutines'
      BY <2>1 DEF Goroutines
    <3> QED BY <3>1, <3>2, <3>3
  <2>6. DependenciesFirst'
    <3>1. \A m \in Node : \A e \in Deps[m] : e \in Node
      BY DagAssumption DEF DagAssumption
    <3> QED BY <2>1, <2>2, <3>1 DEF DependenciesFirst
  <2>7. Waits' /\ Channel' /\ Bounds'
    BY <2>1 DEF Waits, Channel, Active, Bounds
  <2> QED BY <2>4, <2>5, <2>6, <2>7
<1> QED BY <1>1, <1>2, <1>3, <1>4

-----------------------------------------------------------------------------
\* The inductive step.

LEMMA LoopStepDagIInv ==
  ASSUME DagIInv, LoopStep
  PROVE  DagIInv'
<1>1. LooseTypes /\ LooseTypes'
  BY LoopStepTypes DEF DagIInv
<1>2. ASSUME NEW n \in Node, Propagate(n) PROVE DagIInv'
  BY <1>2, PropagateDagIInv
<1>3. ASSUME NEW n \in Node, SkipByCondition(n) \/ FailToBuild(n) \/ Launch(n) PROVE DagIInv'
  BY <1>1, <1>3, ScheduleShape, ScheduledDagIInv
<1>4. ASSUME NEW n \in Node, StartRecovery(n) \/ FailAndRollBack(n) \/ FailAndAbort(n) PROVE DagIInv'
  BY <1>1, <1>4, ReceiveShape, ReceivedDagIInv
<1>5. ASSUME NEW n \in Node, SkipOptional(n) PROVE DagIInv'
  BY <1>1, <1>5, ReceiveShape, ReceivedDagIInv
<1>6. CASE HandleSuccess
  BY <1>1, <1>6, ReceiveShape, ReceivedDagIInv
<1>7. ASSUME NEW n \in Node, RecoverOk(n) PROVE DagIInv'
  BY <1>1, <1>7, RecoverOkDagIInv
<1>8. CASE HandleCancel \/ \E n \in Node : RecoverFails(n)
  BY <1>1, <1>8, LeaveDagIInv
<1>9. CASE Drain \/ Drained \/ Finish \/ \E n \in Node, ok \in BOOLEAN : CompensateNode(n, ok)
  BY <1>1, <1>9, EndDagIInv
<1> QED BY <1>2, <1>3, <1>4, <1>5, <1>6, <1>7, <1>8, <1>9 DEF LoopStep

LEMMA NextDagIInv ==
  ASSUME DagIInv, [Next]_vars
  PROVE  DagIInv'
<1>1. CASE LoopStep
  BY <1>1, LoopStepDagIInv
<1>2. ASSUME NEW n \in Node, NodeStep(n) PROVE DagIInv'
  BY <1>2, NodeStepDagIInv
<1>3. CASE CallerCancels
  BY <1>3, CancelDagIInv
<1>4. CASE Crash
  BY <1>4, CrashDagIInv
<1>5. CASE Restart
  BY <1>5, RestartDagIInv
<1>6. CASE UNCHANGED vars
  <2>1. UNCHANGED <<cfg, oracle, loopVars, doneCh, cancelled, grVars, saved, starts, history>>
    BY <1>6 DEF vars
  <2>2. InFlight' = InFlight /\ CountRunning' = CountRunning /\ Awaited' = Awaited
    BY <2>1 DEF InFlight, CountRunning, WithStatus, Awaited, loopVars, grVars
  <2>3. LooseTypes'
    BY <2>1 DEF DagIInv, LooseTypes, loopVars, grVars, history
  <2>4. Bounds' /\ Waits' /\ Sources' /\ DependenciesFirst'
    BY <2>1 DEF DagIInv, Bounds, Waits, Active, Unsettled, Sources, DependenciesFirst, loopVars, history
  <2> QED BY <2>1, <2>2, <2>3, <2>4 DEF DagIInv, Channel, Counted, CompletionsExact, Restored, Goroutines,
                                        Active, loopVars, grVars, history
<1> QED BY <1>1, <1>2, <1>3, <1>4, <1>5, <1>6 DEF Next

-----------------------------------------------------------------------------
\* The theorems.

\* The inductive invariant holds in every execution and every restart of it.
THEOREM DagIInvHolds == Spec => []DagIInv
BY InitDagIInv, NextDagIInv, PTL DEF Spec

\* Every variable keeps its type: the counters of the event loop never leave
\* the range of the number of nodes, and a goroutine makes at most Retries + 1
\* attempts.
THEOREM DagTypeCorrect == Spec => []TypeOK
<1>1. DagIInv => TypeOK
  <2> SUFFICES ASSUME DagIInv PROVE TypeOK
    OBVIOUS
  <2>1. InFlight \in SUBSET Node
    BY DEF InFlight
  <2>2. Cardinality(InFlight) \in Nat /\ Cardinality(Node) \in Nat /\ Len(doneCh) \in Nat
    BY <2>1, SubsetSize DEF DagIInv, LooseTypes
  <2>3. Len(doneCh) <= Cardinality(Node)
    BY <2>2 DEF DagIInv, Counted
  <2> QED BY <2>3 DEF DagIInv, LooseTypes, Bounds, TypeOK, Completion
<1> QED BY <1>1, DagIInvHolds, PTL

\* DependenciesFirst: no node starts before its dependencies are done or
\* skipped, for every graph, however completions, skips, recoveries and
\* resumes interleave.
THEOREM DependenciesAreFirst == Spec => []DependenciesFirst
<1>1. DagIInv => DependenciesFirst
  BY DEF DagIInv
<1> QED BY <1>1, DagIInvHolds, PTL

\* CountersExact: pending counts the nodes the loop still waits for, and every
\* running node has exactly one completion to come, also for the drain.
THEOREM CountersAreExact == Spec => []CountersExact
<1>1. DagIInv => CountersExact
  BY AwaitedSum DEF DagIInv, CountersExact, PendingExact, Counted, Active
<1> QED BY <1>1, DagIInvHolds, PTL

\* CheckpointedNeverReruns: no execution runs a node it took from the
\* checkpoint store.
THEOREM CheckpointedNotRerun == Spec => []CheckpointedNeverReruns
<1>1. DagIInv => CheckpointedNeverReruns
  BY DEF DagIInv, Restored, CheckpointedNeverReruns
<1> QED BY <1>1, DagIInvHolds, PTL

\* RollbackOrder: a compensated node has nothing downstream of it left to
\* compensate.  Only CompensateNode compensates, and it takes the last node of
\* the topological order that is left, which lists dependencies first.
THEOREM RollsBackInOrder == Spec => RollbackOrder
<1> DEFINE Backwards == \A n \in Node :
                          (status[n] = "done" /\ status'[n] = "compensated") =>
                            \A m \in undo' : m \notin Downstream(n)
<1>1. ASSUME DagIInv, LoopStep PROVE Backwards
  <2> SUFFICES ASSUME NEW k \in Node, status[k] = "done", status'[k] = "compensated", NEW m \in undo'
               PROVE  m \notin Downstream(k)
    OBVIOUS
  <2>0. LooseTypes
    BY <1>1 DEF DagIInv
  <2>1. \A n \in Node : ~Propagate(n)
    BY DEF Propagate
  <2>2. \A n \in Node : ~(SkipByCondition(n) \/ FailToBuild(n) \/ Launch(n))
    <3>1. \A n \in Node : ~Scheduled(n)
      BY <2>0 DEF Scheduled, LooseTypes
    <3> QED BY <3>1, ScheduleShape
  <2>3. /\ ~HandleSuccess
        /\ \A n \in Node : ~(StartRecovery(n) \/ FailAndRollBack(n) \/ FailAndAbort(n) \/ SkipOptional(n))
    <3>1. ASSUME NEW n, NEW st \in {"done", "failed", "skipped"}, Received(n, st) PROVE FALSE
      BY <2>0, <3>1 DEF Received, LooseTypes
    <3> QED BY <3>1, ReceiveShape
  <2>4. \A n \in Node : ~RecoverOk(n) /\ ~RecoverFails(n)
    BY <2>0 DEF RecoverOk, RecoverFails, LooseTypes
  <2>5. ~(HandleCancel \/ Drain \/ Drained \/ Finish)
    BY DEF HandleCancel, Drain, Drained, Finish
  <2>6. PICK n \in Node, ok \in BOOLEAN : CompensateNode(n, ok)
    BY <1>1, <2>1, <2>2, <2>3, <2>4, <2>5 DEF LoopStep
  <2>7. k = n /\ NextToUndo(n) /\ undo' = undo \ {n} /\ m \in undo /\ m \in Node
    BY <2>0, <2>6 DEF CompensateNode, LooseTypes
  <2>8. PICK i \in DOMAIN TopoOrder :
          TopoOrder[i] = n /\ \A j \in DOMAIN TopoOrder : TopoOrder[j] \in undo => j <= i
    BY <2>7 DEF NextToUndo
  <2>9. PICK j \in DOMAIN TopoOrder : TopoOrder[j] = m
    BY <2>7, DagAssumption DEF DagAssumption
  <2>10. j <= i /\ i \in Nat /\ j \in Nat
    BY <2>7, <2>8, <2>9, DagAssumption DEF DagAssumption
  <2>11. n \in Deps[m] => i < j
    BY <2>8, <2>9, DagAssumption DEF DagAssumption
  <2> QED BY <2>7, <2>10, <2>11 DEF Downstream
<1>2. ASSUME DagIInv, NEW n \in Node, NodeStep(n) PROVE Backwards
  <2>1. status' = status
    BY <1>2, NodeStepShape DEF DagIInv, loopVars
  <2> QED BY <2>1
<1>3. ASSUME CallerCancels \/ Crash PROVE Backwards
  BY <1>3 DEF CallerCancels, Crash, loopVars
<1>4. ASSUME Restart PROVE Backwards
  BY <1>4 DEF Restart, Start
<1>5. DagIInv /\ [Next]_vars => [Backwards]_vars
  BY <1>1, <1>2, <1>3, <1>4 DEF Next
<1> QED BY <1>5, DagIInvHolds, PTL DEF Spec, RollbackOrder
=============================================================================
