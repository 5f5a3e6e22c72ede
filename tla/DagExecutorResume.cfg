SPECIFICATION Spec
CONSTANTS
  a = a
  b = b
  c = c
  d = d
  Node = {b, c, d}
  Deps <- Join
  TopoOrder <- JoinTopo
  Priority <- JoinPriority
  Optional = {b}
  Compensatable = {b, c}
  Conditional = {d}
  FaultyMapper = {}
  ExitNode = {c}
  Retries = 1
  Strategy = {"abort", "skip", "backward", "forward"}
  Limit = {0}
  Checkpoints = TRUE
  MaxStarts = 2
INVARIANTS
  CheckpointedNeverReruns
CHECK_DEADLOCK FALSE
