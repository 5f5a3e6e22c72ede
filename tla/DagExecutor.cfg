SPECIFICATION Spec
CONSTANTS
  a = a
  b = b
  c = c
  d = d
  Node = {a, b, c, d}
  Deps <- Diamond
  TopoOrder <- DiamondTopo
  Priority <- DiamondPriority
  Optional = {b}
  Compensatable = {a, b}
  Conditional = {b}
  FaultyMapper = {c}
  ExitNode = {b}
  Retries = 0
  Strategy = {"abort", "skip", "backward", "forward"}
  Limit = {0, 1}
  Checkpoints = FALSE
  MaxStarts = 1
INVARIANTS
  DependenciesFirst
  CountersExact
PROPERTIES
  RollbackOrder
  Terminates
CHECK_DEADLOCK FALSE
