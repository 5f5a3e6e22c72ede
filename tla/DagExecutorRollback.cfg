SPECIFICATION Spec
CONSTANTS
  a = a
  b = b
  c = c
  d = d
  Node = {b, c, d}
  Deps <- Join
  TopoOrder <- JoinTopo
  Priority <- JoinPriority
  Optional = {b}
  Compensatable = {b, c}
  Conditional = {d}
  FaultyMapper = {}
  ExitNode = {c}
  Retries = 0
  Strategy = {"backward"}
  Limit = {0, 1}
  Checkpoints = FALSE
  MaxStarts = 1
INVARIANT
  RollbackComplete
CHECK_DEADLOCK FALSE
