SPECIFICATION HostSpec
CONSTANTS
  t1 = t1
  t2 = t2
  t3 = t3
  TaskId = {t1, t2, t3}
  MaxTasks = 2
  MaxStream = 4
  StreamBuffer = 1
  EventBuffer = 1
  c1 = c1
  c2 = c2
  w1 = w1
  w2 = w2
  NoNode = NoNode
  TreeNode = {1, 2, 3}
  TreeCaller = {c1, c2}
  TreeWorker = {w1, w2}
  TreeMaxNodes = 3
  MaxUpdates = 1
  MaxTitles = 1
INVARIANTS
  RequestsAnswered
  TreeSound
  ViewSound
PROPERTIES
  RequestsFinish
  FoldsSound
CHECK_DEADLOCK FALSE
