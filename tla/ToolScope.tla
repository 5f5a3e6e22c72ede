------------------------------ MODULE ToolScope ------------------------------
(***************************************************************************)
(* Which tools a run may offer to the model.  A fresh run merges its       *)
(* options into the agent's defaults, lets a resolver change them, and     *)
(* freezes a set of tool names before its context is built: the request's  *)
(* names, the names the session's active skills allow, the registered ones *)
(* and an enabling predicate all narrow it.  Meanwhile a host changes the  *)
(* tool registry and the skills.  One session, one run at a time.          *)
(***************************************************************************)
EXTENDS Integers, Sequences, FiniteSets, FiniteSetsExt

CONSTANTS
  ToolName,      \* names of tools
  Skill,         \* names of skills
  MaxHostOps,    \* changes a host makes
  DefaultIter,   \* Agent.maxIterations
  DefaultBudget  \* Agent.runTokenBudget, 0 for unlimited

\* A checkpoint Resume takes the agent's own limits unvalidated.
ASSUME ScopeAssumption == DefaultIter \in Nat \ {0} /\ DefaultBudget \in Nat

VARIABLES
  entries,    \* ToolName -> "absent", "local" (a handler) or "external"
  extCaller,  \* the external caller is set
  skills,     \* Skill -> AllowedTools, {} when unrestricted, or Unregistered
  activations,\* the session's activations, in order: [skill, allowed]
  activating, \* Skill -> what Activate read from the registry, before its lock
  srun,       \* the run
  hostOps     \* changes so far

scopeVars == <<entries, extCaller, skills, activations, activating, srun, hostOps>>

Unregistered == {"unregistered"}
NotActivating == {"no"}
AllTools == {"all"}      \* no restriction; never equal to a set of names

\* asked, allowed, enabled: what each layer let through, kept to compare.  The
\* empty tool_mode is "default" here.
NewRun == [at |-> "new", mode |-> "default", filter |-> {}, iter |-> 0, budget |-> 0, enabled |-> AllTools,
           asked |-> AllTools, allowed |-> AllTools, frozen |-> FALSE, offered |-> {}, called |-> "none"]

ScopeInit ==
  /\ entries \in [ToolName -> {"absent", "local"}]
  /\ extCaller = FALSE
  /\ skills = [s \in Skill |-> Unregistered]
  /\ activations = <<>>
  /\ activating = [s \in Skill |-> NotActivating]
  /\ srun = NewRun /\ hostOps = 0

Within(names, scope) == scope = AllTools \/ names \subseteq scope
Narrow(names, scope) == IF scope = AllTools THEN names ELSE names \cap scope

---------------------------------------------------------------------------
(* The host: tool registry and skills *)

HostOp == hostOps < MaxHostOps /\ hostOps' = hostOps + 1
Registered == {t \in ToolName : entries[t] # "absent"}

\* Register replaces, RegisterIfAbsent does not.
RegisterTool(t, ifAbsent) ==
  /\ HostOp
  /\ entries' = IF ifAbsent /\ entries[t] # "absent" THEN entries
                ELSE [entries EXCEPT ![t] = "local"]
  /\ UNCHANGED <<extCaller, skills, activations, activating, srun>>

UnregisterTool(t) ==
  /\ HostOp
  /\ entries' = [entries EXCEPT ![t] = "absent"]
  /\ UNCHANGED <<extCaller, skills, activations, activating, srun>>

\* The tools of an MCP server: names already taken keep their entry.
MergeTools(defs) ==
  /\ HostOp
  /\ entries' = [t \in ToolName |->
       IF t \in defs /\ entries[t] = "absent" THEN "external" ELSE entries[t]]
  /\ UNCHANGED <<extCaller, skills, activations, activating, srun>>

SetExternalCaller ==
  /\ HostOp
  /\ extCaller' = TRUE
  /\ UNCHANGED <<entries, skills, activations, activating, srun>>

\* A definition the loader or the validators refuse, and a taken name, change
\* nothing.
RegisterSkill(s, allowed) ==
  /\ HostOp
  /\ skills' = IF skills[s] = Unregistered THEN [skills EXCEPT ![s] = allowed] ELSE skills
  /\ UNCHANGED <<entries, extCaller, activations, activating, srun>>

UnregisterSkill(s) ==
  /\ HostOp
  /\ skills' = [skills EXCEPT ![s] = Unregistered]
  /\ UNCHANGED <<entries, extCaller, activations, activating, srun>>

\* Activate copies the definition, then takes the lock.
ActivateRead(s) ==
  /\ HostOp /\ activating[s] = NotActivating /\ skills[s] # Unregistered
  /\ activating' = [activating EXCEPT ![s] = skills[s]]
  /\ UNCHANGED <<entries, extCaller, skills, activations, srun>>

IsActive(s) == \E i \in 1..Len(activations) : activations[i].skill = s

ActivateStore(s) ==
  /\ activating[s] # NotActivating
  /\ activations' = IF IsActive(s) THEN activations
                    ELSE Append(activations, [skill |-> s, allowed |-> activating[s]])
  /\ activating' = [activating EXCEPT ![s] = NotActivating]
  /\ UNCHANGED <<entries, extCaller, skills, srun, hostOps>>

\* The first match goes.
Deactivate(s) ==
  /\ HostOp
  /\ \E i \in 1..Len(activations) :
       /\ activations[i].skill = s
       /\ \A j \in 1..(i - 1) : activations[j].skill # s
       /\ activations' = SubSeq(activations, 1, i - 1) \o SubSeq(activations, i + 1, Len(activations))
  /\ UNCHANGED <<entries, extCaller, skills, activating, srun>>

ClearSession ==
  /\ HostOp
  /\ activations' = <<>>
  /\ UNCHANGED <<entries, extCaller, skills, activating, srun>>

---------------------------------------------------------------------------
(* Parameters *)

\* An optional limit {} or {n} wins over the older field, whose zero means
\* "not given"; a negative one is an error.
LimitOf(default, limit, old) ==
  IF limit # {} THEN CHOOSE n \in limit : TRUE
  ELSE IF old = 0 THEN default ELSE old

\* max_iterations must be positive, a budget of zero is unlimited.
MergeOK(iterLimit, iterOld, budgetLimit, budgetOld) ==
  /\ iterLimit # {} => iterLimit # {0} /\ iterLimit # {-1}
  /\ iterLimit = {} => iterOld >= 0
  /\ budgetLimit # {-1}
  /\ budgetLimit = {} => budgetOld >= 0

ValidParams(p) ==
  /\ p.mode \in {"default", "none", "allow", "all"}
  /\ p.mode = "all" => p.filter = {}
  /\ p.iter > 0 /\ p.budget >= 0

\* mergeRunParams, the resolver, validateRunParams: an error ends the call.
ResolveParams(iterLimit, iterOld, budgetLimit, budgetOld, resolved) ==
  /\ srun.at = "new"
  /\ \E mode \in {"default", "none", "allow", "all", "bogus"}, filter \in SUBSET ToolName,
       enabled \in {AllTools} \cup SUBSET ToolName :
     LET merged == [srun EXCEPT !.mode = mode, !.filter = filter, !.enabled = enabled,
                      !.iter = LimitOf(DefaultIter, iterLimit, iterOld),
                      !.budget = LimitOf(DefaultBudget, budgetLimit, budgetOld)]
         \* a resolver may put any number there
         p == IF resolved THEN [merged EXCEPT !.iter = iterOld, !.budget = budgetOld] ELSE merged IN
     srun' = IF MergeOK(iterLimit, iterOld, budgetLimit, budgetOld) \/ resolved
                THEN IF ValidParams(p) THEN [p EXCEPT !.at = "freeze"] ELSE [srun EXCEPT !.at = "ended"]
                ELSE [srun EXCEPT !.at = "ended"]
  /\ UNCHANGED <<entries, extCaller, skills, activations, activating, hostOps>>

\* The request restricts in mode "allow", or with a list in the default mode.
AskedFor == IF srun.mode = "allow" \/ (srun.mode = "default" /\ srun.filter # {}) THEN srun.filter ELSE AllTools

\* The union of what the active skills allow; one without a list lifts it.
SkillToolScope ==
  LET lists == {activations[i].allowed : i \in 1..Len(activations)} IN
  IF lists = {} \/ {} \in lists THEN AllTools ELSE UNION lists

FreezeScope ==
  /\ srun.at = "freeze"
  /\ srun' = IF srun.mode = "none"
               THEN [srun EXCEPT !.at = "offer", !.frozen = TRUE, !.filter = {}, !.asked = {}]
               ELSE [srun EXCEPT !.at = "names", !.asked = AskedFor, !.allowed = SkillToolScope]
  /\ UNCHANGED <<entries, extCaller, skills, activations, activating, hostOps>>

\* Registered names within both scopes that the predicate enables.
FreezeNames ==
  /\ srun.at = "names"
  /\ srun' = [srun EXCEPT !.at = "offer", !.frozen = TRUE,
       !.filter = Narrow(Narrow(Narrow(Registered, srun.asked), srun.allowed), srun.enabled)]
  /\ UNCHANGED <<entries, extCaller, skills, activations, activating, hostOps>>

\* FilterTools takes an empty list for "all".
FilterTools(names) == IF names = {} THEN Registered ELSE Registered \cap names

\* The frozen list goes to FilterTools even when it is empty.
PrepareFrozen_Empty(names) == FilterTools(names)

PrepareFrozen(names) == IF names = {} THEN {} ELSE FilterTools(names)

\* Checkpoint Resume starts from the defaults, so the skills alone narrow it.
MergeSkillFilter(filter) ==
  IF SkillToolScope = AllTools THEN filter
  ELSE IF filter = {} THEN SkillToolScope ELSE SkillToolScope \cap filter

ToolsForRun ==
  IF srun.frozen THEN PrepareFrozen(srun.filter) ELSE FilterTools(MergeSkillFilter(srun.filter))

OfferTools ==
  /\ srun.at = "offer"
  /\ srun' = [srun EXCEPT !.at = "loop", !.offered = ToolsForRun]
  /\ UNCHANGED <<entries, extCaller, skills, activations, activating, hostOps>>

\* dispatch: a tool that is gone, or an external one without a caller, fails.
Dispatch(t) ==
  IF entries[t] = "local" THEN "handler"
  ELSE IF entries[t] = "external" /\ extCaller THEN "caller" ELSE "error"

ModelCalls(t) ==
  /\ srun.at = "loop" /\ t \in srun.offered
  /\ srun' = [srun EXCEPT !.called = Dispatch(t)]
  /\ UNCHANGED <<entries, extCaller, skills, activations, activating, hostOps>>

\* The batch waits for a decision, and a later ResumeInterrupt continues with
\* the parameters of the record.
SuspendAndResume ==
  /\ srun.at = "loop"
  /\ srun' = [srun EXCEPT !.at = "offer", !.frozen = TRUE, !.offered = {}]
  /\ UNCHANGED <<entries, extCaller, skills, activations, activating, hostOps>>

\* The process restarts and Resume continues from the last checkpoint.
RestartAndResume ==
  /\ srun.at = "loop"
  /\ srun' = [NewRun EXCEPT !.at = "offer", !.iter = DefaultIter, !.budget = DefaultBudget]
  /\ UNCHANGED <<entries, extCaller, skills, activations, activating, hostOps>>

Limit == {{}, {-1}, {0}, {2}}
OldLimit == {-1, 0, 2}

HostStep ==
  \/ \E t \in ToolName, ifAbsent \in BOOLEAN : RegisterTool(t, ifAbsent)
  \/ \E t \in ToolName : UnregisterTool(t)
  \/ \E defs \in SUBSET ToolName : MergeTools(defs)
  \/ SetExternalCaller
  \/ \E s \in Skill, allowed \in SUBSET ToolName : RegisterSkill(s, allowed)
  \/ \E s \in Skill : UnregisterSkill(s) \/ ActivateRead(s) \/ ActivateStore(s) \/ Deactivate(s)
  \/ ClearSession

\* One of the two limits varies at a time.
RunStep ==
  \/ \E limit \in Limit, old \in OldLimit, resolved \in BOOLEAN :
       ResolveParams(limit, old, {}, 0, resolved) \/ ResolveParams({}, 2, limit, old, resolved)
  \/ FreezeScope \/ FreezeNames \/ OfferTools \/ SuspendAndResume \/ RestartAndResume
  \/ \E t \in ToolName : ModelCalls(t)

ScopeStep == HostStep \/ RunStep

ScopeSpec == ScopeInit /\ [][ScopeStep]_scopeVars

---------------------------------------------------------------------------
(* However the registry and the skills change while a run is prepared, runs *)
(* or waits for a decision, a run whose tools were frozen never offers one  *)
(* that its request, the skills active when it was frozen, or the enabling  *)
(* predicate left out: an empty set stays empty.  Every run that got so far *)
(* has limits that end it, whatever a resolver answered.                    *)
ScopeKept ==
  srun.at = "loop" =>
    /\ srun.iter > 0 /\ srun.budget >= 0
    /\ srun.frozen =>
         /\ Within(srun.offered, srun.asked)
         /\ Within(srun.offered, srun.allowed)
         /\ srun.mode # "none" => Within(srun.offered, srun.enabled)
=============================================================================
