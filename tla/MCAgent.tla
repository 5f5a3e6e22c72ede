------------------------------ MODULE MCAgent ------------------------------
(***************************************************************************)
(* What goes on inside an agent's runs: the ReAct loop (on the instance of *)
(* MCReactLoop), the building of each prompt and the compression of the    *)
(* history, its guards, and the scope of its tools.  A behaviour of one    *)
(* while the others stand still shows everything they can do.              *)
(***************************************************************************)
EXTENDS MCReactLoop, ContextBuild, Guards, ToolScope

CONSTANTS u1, u2, s1, s2

VARIABLE part   \* the one that moves

AgentInit ==
  /\ part \in {"loop", "compress", "context", "guards", "scope"}
  /\ Init
  /\ CompressInit
  /\ ContextInit
  /\ GuardsInit
  /\ part # "guards" => /\ guarded.pos = "run" /\ ~guarded.partial
                        /\ guarded.shape = "text" /\ guarded.orig = <<"plain">>
  /\ ScopeInit
  /\ part # "scope" => \A t \in ToolName : entries[t] = "absent"

AgentNext ==
  \/ part = "loop" /\ Next
       /\ UNCHANGED <<compressed, built, guarded, scopeVars, part>>
  \/ part = "compress" /\ CompressStep
       /\ UNCHANGED <<vars, built, guarded, scopeVars, part>>
  \/ part = "context" /\ ContextStep
       /\ UNCHANGED <<vars, compressed, guarded, scopeVars, part>>
  \/ part = "guards" /\ GuardsStep
       /\ UNCHANGED <<vars, compressed, built, scopeVars, part>>
  \/ part = "scope" /\ ScopeStep
       /\ UNCHANGED <<vars, compressed, built, guarded, part>>

AgentSpec ==
  AgentInit /\ [][AgentNext]_<<vars, compressed, built, guarded, scopeVars, part>>
=============================================================================
