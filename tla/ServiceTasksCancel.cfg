SPECIFICATION Spec
CONSTANTS
  t1 = t1
  t2 = t2
  t3 = t3
  TaskId = {t1, t2, t3}
  MaxTasks = 2
PROPERTY
  CancelledStays
CHECK_DEADLOCK FALSE
