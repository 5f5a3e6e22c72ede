SPECIFICATION OrchestrationSpec
CONSTANTS
  n1 = n1
  n2 = n2
  n3 = n3
  Goroutine = {n1, n2, n3}
  RawConfig <- MCRawConfig
  Tag = {1, 2, 3}
  Tags <- MCTags
  SlotLimit <- MCSlotLimit
  Unit = 2
  Rate <- MCRate
  WfNodes = 3
  Field = {"f"}
  WfLimits = {0, 1}
  MaxRuns = 3
  ChildId = {1, 2}
  MaxSpawn = 3
  DepthLimit = 1
  DagNodes = 4
  Cases = 3
  Concurrency = 2
  MaxToolCalls = 3
  EvalBudget = 2
INVARIANTS
  SlotsExact
  WorkflowSound
  BuiltOnResponses
  GraphsAccepted
  EvaluationSound
PROPERTIES
  NodesAdmitted
CHECK_DEADLOCK FALSE
