SPECIFICATION SessionSpec
CONSTANTS
  k1 = k1
  k2 = k2
  k3 = k3
  c1 = c1
  c2 = c2
  yes = yes
  no = no
  r1 = r1
  m = m
  ToolCall = {c1, c2}
  Verdict = {yes, no}
  Undecided = Undecided
  Owner = {k1, k2, k3}
  NoOwner = NoOwner
  Meta = {m}
  Absent = Absent
  RecordId = {r1}
  LeaseTTL = {0, 2}
  MaxBatch = 2
  MaxTime = 4
  MaxRevision = 7
  FileCall = {k1, k2, k3}
  Note = {"note1", "note2"}
  Scratch = {"scratch1", "scratch2"}
  MaxNotes = 1
  MaxReports = 1
  OpSets <- EachStore
  x1 = x1
  x2 = x2
  IndexNode = {x1, x2}
  IndexWork = {k1, k2, k3}
  MaxSummary = 2
  Dims = {1, 2}
  Call = {k1, k2, k3}
  TopSession = {"top"}
  ChildName = {"child1", "child2"}
  MaxItems = 2
  TodoCap = 2
  View <- MCView
  LogicalKey <- MCKeys
  Datum = {1}
  MaxEntries = 2
INVARIANTS
  TypeOK
  DecidedBeforeReady
  OneLiveHolder
  CreditedOnce
  FilesKept
  IndexFollows
  SessionToolsSound
PROPERTIES
  DecisionsWriteOnce
  StatusMoves
  SiblingsIntact
CHECK_DEADLOCK FALSE
SYMMETRY MCSymmetry
