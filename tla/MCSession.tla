----------------------------- MODULE MCSession -----------------------------
(***************************************************************************)
(* What the library keeps for a session: the interrupt records, the stores *)
(* of the session directory, the vector index of its tree, the lists and   *)
(* child sessions its tools make, and the tiers of its memory.  They share *)
(* no state, so a behaviour of one while the others stand still shows      *)
(* everything they can do.                                                 *)
(***************************************************************************)
EXTENDS InterruptStore, SessionFiles, TreeIndex, SessionTools, MemoryTiers, TLC

CONSTANTS c1, c2, yes, no, r1, m, k1, k2, k3, x1, x2

\* Three calls of one store, or of one store and of the session's Create and
\* Delete.
SessionOps == {"Create", "Update", "SetState", "DeleteState", "AppendEvent", "Delete"}
MetricsOps == {"UpdateMetrics", "DeleteMetrics", "Create", "Delete"}
CheckpointOps == {"Save", "DeleteCheckpoints", "Delete"}
TreeOps == {"CreateTree", "AddNode", "DeleteNode", "PromoteNode", "DeleteTree", "Delete"}
OtherTreeOps == {"CreateTree", "UpdateNode", "SetCursor"}
ReportOps == {"SaveReport", "Create", "Delete"}
WorkspaceOps == {"WritePlan", "WriteNote", "WriteScratch", "DeleteScratchSlot",
                 "WriteArtifact", "DeleteWorkspace", "Delete"}
EachStore == {SessionOps, MetricsOps, CheckpointOps, TreeOps, OtherTreeOps, ReportOps, WorkspaceOps}

\* k1, k2 and k3 are lease holders, calls and index workers alike.
MCSymmetry == Permutations({k1, k2, k3})

\* Two views whose scopes differ only in where the separator is, and keys
\* with and without one.
MCView == {[agent |-> <<"a">>, session |-> <<":">>], [agent |-> <<"a", ":">>, session |-> <<>>]}
MCKeys == {<<"k">>, <<":", "k">>}

VARIABLE part   \* the one that moves

others == <<fileVars, indexVars, sessionToolVars, memVars>>

SessionInit ==
  /\ part \in {"records", "files", "index", "tools", "memory"}
  /\ Init
  /\ FilesInit
  /\ part # "files" => focus = SessionOps /\ dirs = {}
  /\ IndexInit
  /\ SessionToolsInit
  /\ MemInit

SessionNext ==
  \/ part = "records" /\ Next /\ UNCHANGED <<others, part>>
  \/ part = "files" /\ FilesStep
       /\ UNCHANGED <<vars, indexVars, sessionToolVars, memVars, part>>
  \/ part = "index" /\ IndexStep
       /\ UNCHANGED <<vars, fileVars, sessionToolVars, memVars, part>>
  \/ part = "tools" /\ SessionToolsStep
       /\ UNCHANGED <<vars, fileVars, indexVars, memVars, part>>
  \/ part = "memory" /\ MemStep
       /\ UNCHANGED <<vars, fileVars, indexVars, sessionToolVars, part>>

SessionSpec == SessionInit /\ [][SessionNext]_<<vars, others, part>>
=============================================================================
