---------------------------- MODULE MCToolCalls ----------------------------
(***************************************************************************)
(* The tool calls of an agent: a suspended batch that is resumed (on the   *)
(* instance of MCInterruptResume), calls of the file tools, and calls      *)
(* through MCP.  They share no state, so a behaviour of one while the      *)
(* others stand still shows everything they can do.                        *)
(***************************************************************************)
EXTENDS MCInterruptResume, FileTools, McpCalls

CONSTANTS t1, t2, t3, path

VARIABLE part   \* the one that moves

ToolCallsInit ==
  /\ part \in {"resume", "files", "mcp"}
  /\ ResumeInit
  /\ ToolsInit
  /\ part # "files" => \A p \in Path : file[p] = CHOOSE text \in Texts : TRUE
  /\ McpInit

ToolCallsNext ==
  \/ part = "resume" /\ ResumeNext /\ UNCHANGED <<toolVars, mcpVars, part>>
  \/ part = "files" /\ ToolsStep /\ UNCHANGED <<resumeVars, mcpVars, part>>
  \/ part = "mcp" /\ McpStep /\ UNCHANGED <<resumeVars, toolVars, part>>

ToolCallsSpec == ToolCallsInit /\ [][ToolCallsNext]_<<resumeVars, toolVars, mcpVars, part>>
=============================================================================
