--------------------------- MODULE MCPersistence ---------------------------
(***************************************************************************)
(* What several goroutines and processes write for a session: the file     *)
(* store of interrupt records (on the instance of MCInterruptFileStore)    *)
(* and the hooks that store its events.  They share no state, so a         *)
(* behaviour of one while the other stands still shows everything they     *)
(* can do.                                                                 *)
(***************************************************************************)
EXTENDS MCInterruptFileStore, Hooks

CONSTANTS ev1, ev2

VARIABLE part   \* the one that moves

\* Events are interchangeable: their types are given in one order.  An event
\* of another type does less than one the metrics count.
PersistenceInit ==
  /\ part \in {"records", "hooks"}
  /\ Init
  /\ HooksInit
  /\ IF part = "hooks"
       THEN etype[ev1] = "agent_end" \/ \A e \in Event : etype[e] = "llm_call_end"
       ELSE sessionThere /\ \A e \in Event : etype[e] = "other"

PersistenceNext ==
  \/ part = "records" /\ Next /\ UNCHANGED <<hookVars, part>>
  \/ part = "hooks" /\ HooksStep /\ UNCHANGED <<vars, part>>

PersistenceSpec == PersistenceInit /\ [][PersistenceNext]_<<vars, hookVars, part>>
=============================================================================
