SPECIFICATION ResumeSpec
CONSTANTS
  call = call
  sibling = sibling
  a1 = a1
  a2 = a2
  f1 = f1
  f2 = f2
  ToolCall = {call, sibling}
  Verdict = {"inject", "reject", "execute"}
  Undecided = Undecided
  Owner = {a1, a2}
  NoOwner = NoOwner
  Meta <- MCMeta
  Absent = Absent
  RecordId = {1, 2, 3}
  NoRecord = 0
  LeaseTTL = {1}
  MaxBatch = 1
  MaxTime = 2
  MaxRevision = 20
  Fingerprint = {f1, f2}
  NoFingerprint = NoFingerprint
  Flagged <- MCFlagged
PROPERTY
  SupersededNeverRuns
CHECK_DEADLOCK FALSE
