SPECIFICATION Spec
CONSTANTS
  a1 = a1
  a2 = a2
  a3 = a3
  Attempt = {a1, a2, a3}
  None = None
  RunParams <- MCRunParams
  AgentParams <- MCAgentParams
  Cost = {2}
PROPERTY
  NoKeyCollision
CHECK_DEADLOCK FALSE
SYMMETRY MCSymmetry
