SPECIFICATION AgentSpec
CONSTANTS
  a1 = a1
  a2 = a2
  a3 = a3
  Attempt = {a1, a2, a3}
  None = None
  RunParams <- MCRunParams
  AgentParams <- MCAgentParams
  Cost = {2}
  TextLen = {0, 9}
  MaxHistory = 3
  SummaryLen = {0, 3, 13}
  Window = {0, 4, 7}
  KeepN = 1
  ExtraLen = {4, 9}
  Reserved = {0, 1}
  MaxGuards = 2
  MaxWords = 2
  LengthLimit = 2
  ScanLimit = 1
  u1 = u1
  u2 = u2
  s1 = s1
  s2 = s2
  ToolName = {u1, u2}
  Skill = {s1, s2}
  MaxHostOps = 2
  DefaultIter = 1
  DefaultBudget = 0
INVARIANTS
  TurnsPaired
  NoGiftedTurns
  ContextSound
  GuardsHold
  ScopeKept
PROPERTIES
  HalvesDisjoint
CHECK_DEADLOCK FALSE
SYMMETRY MCSymmetry
