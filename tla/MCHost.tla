------------------------------- MODULE MCHost -------------------------------
(***************************************************************************)
(* What a host process keeps beside its agents: the store of asynchronous  *)
(* tasks, the streams to its clients and the session tree.  They share no  *)
(* state, so a behaviour of one while the others stand still shows         *)
(* everything they can do.                                                 *)
(***************************************************************************)
EXTENDS ServiceTasks, StreamRelay, TreePrompt, TLC

CONSTANTS t1, t2, t3, c1, c2, w1, w2

VARIABLE part   \* the one that moves

HostInit == part \in {"tasks", "stream", "tree"} /\ Init /\ RelayInit /\ TreeInit

HostNext ==
  \/ part = "tasks" /\ Next /\ UNCHANGED <<relayVars, treeVars, part>>
  \/ part = "stream" /\ RelayStep /\ UNCHANGED <<vars, treeVars, part>>
  \/ part = "tree" /\ TreeStep /\ UNCHANGED <<vars, relayVars, part>>

\* Goroutines run and agents return.
HostSpec ==
  /\ HostInit /\ [][HostNext]_<<vars, relayVars, treeVars, part>>
  /\ \A id \in TaskId : WF_vars(part = "tasks" /\ Work(id))
  /\ WF_relayVars(part = "stream" /\ RelayGoroutine)
  /\ WF_relayVars(part = "stream" /\ WriteItem)
  /\ WF_relayVars(part = "stream" /\ ProducerEnds)

-----------------------------------------------------------------------------
\* Properties of both ways to answer a request without keeping it waiting

\* A poller finds a task until its run is over, and then how it ended; a client
\* that stays connected is sent every event of its run, in order.
RequestsAnswered == TasksSound /\ StreamComplete

\* Every task gets a result in the end, and keeps it; no goroutine of a stream
\* outlives its handler for ever, whichever of them left first.
RequestsFinish == TasksFinish /\ StreamsEnd
=============================================================================
