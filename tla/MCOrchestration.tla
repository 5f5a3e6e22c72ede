-------------------------- MODULE MCOrchestration --------------------------
(***************************************************************************)
(* The ways to run many things other than the DAG executor's loop: the     *)
(* admission of nodes (on the instance of MCNodeAdmission), the workflow   *)
(* engine, the agents that combine agents, and the evaluators, of one case *)
(* and of a batch.  They share no state, so a behaviour of one while the   *)
(* others stand still shows everything they can do.                        *)
(***************************************************************************)
EXTENDS MCNodeAdmission, Workflow, Combinators, Evaluation

VARIABLE part   \* the one that moves

\* The validations of both engines accept the graphs they can finish, and the
\* orders and priorities made from these respect them.
GraphsAccepted == GraphsSound /\ WorkflowGraphs

others == <<wfVars, combVars, evalVars>>

OrchestrationInit ==
  /\ part \in {"admission", "workflow", "combinators", "case", "batch"}
  /\ AdmissionInit
  /\ part # "admission" => cfg = Normalise([initial |-> 2, min |-> 2, max |-> 2])
  /\ WorkflowInit
  /\ part # "workflow" => \A n \in WfNode : wfDeps[n] = {}
  /\ kind \in IF part = "combinators" THEN CombKind ELSE {"conditional"}
  /\ CombInit
  /\ EvalInit
  /\ part # "batch" => batch.mode = "one" /\ batch.answered = {}

OrchestrationNext ==
  \/ part = "admission" /\ AdmissionNext /\ UNCHANGED <<others, part>>
  \/ part = "workflow" /\ WorkflowStep /\ UNCHANGED <<admissionVars, combVars, evalVars, part>>
  \/ part = "combinators" /\ CombStep /\ UNCHANGED <<admissionVars, wfVars, evalVars, part>>
  \/ part = "case" /\ EvaluateCase /\ UNCHANGED <<admissionVars, wfVars, combVars, part>>
  \/ part = "batch" /\ BatchStep /\ UNCHANGED <<admissionVars, wfVars, combVars, part>>

\* Fairness is about the goroutines of the admission: it leaves out the
\* behaviours of the other parts, whose properties are invariants.
OrchestrationSpec ==
  OrchestrationInit /\ [][OrchestrationNext]_<<admissionVars, others, part>> /\ Fairness
=============================================================================
