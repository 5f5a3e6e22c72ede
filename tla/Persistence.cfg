SPECIFICATION PersistenceSpec
CONSTANTS
  c1 = c1
  yes = yes
  o1 = o1
  o2 = o2
  r1 = r1
  m = m
  p1 = p1
  p2 = p2
  g1 = g1
  g2 = g2
  g3 = g3
  ToolCall = {c1}
  Verdict = {yes}
  Undecided = Undecided
  Owner = {o1, o2}
  NoOwner = NoOwner
  Meta = {m}
  Absent = Absent
  RecordId = {r1}
  LeaseTTL = {1}
  MaxBatch = 1
  MaxTime = 2
  MaxRevision = 20
  Caller = {g1, g2, g3}
  Instance = {p1, p2}
  InstanceOf <- MCInstanceOf
  NoCaller = NoCaller
  MaxCalls = 4
  Partial = Partial
  ev1 = ev1
  ev2 = ev2
  Event = {ev1, ev2}
  Buffer = 1
  MaxFaults = 1
INVARIANTS
  AcceptedHandled
  CallersSound
PROPERTIES
  Refinement
CHECK_DEADLOCK FALSE
SYMMETRY MCSymmetry
