SPECIFICATION ToolCallsSpec
CONSTANTS
  call = call
  sibling = sibling
  a1 = a1
  a2 = a2
  f1 = f1
  f2 = f2
  ToolCall = {call, sibling}
  Verdict = {"inject", "reject", "execute"}
  Undecided = Undecided
  Owner = {a1, a2}
  NoOwner = NoOwner
  Meta <- MCMeta
  Absent = Absent
  RecordId = {1, 2, 3}
  NoRecord = 0
  LeaseTTL = {1}
  MaxBatch = 1
  MaxTime = 2
  MaxRevision = 20
  Fingerprint = {f1, f2}
  NoFingerprint = NoFingerprint
  Flagged <- MCFlagged
  t1 = t1
  t2 = t2
  t3 = t3
  path = path
  EditCall = {t1, t2, t3}
  Path = {path}
  MaxTracked = 1
  MaxText = 4
  MaxScan = 3
  KeyWindow = 1
  MaxSessions = 2
INVARIANTS
  ApprovedCallsOnly
  SuccessorSound
  ReturnedHoldsNoLease
  ScrubExact
PROPERTIES
  EditsApply
CHECK_DEADLOCK FALSE
SYMMETRY MCSymmetry
