\* One task is enough: its transfer thread starts and the poll never ends.
CONSTANTS
  u1 = u1
  u2 = u2
  p1 = p1
  p2 = p2
  Words <- FourWords
  TaskLines <- TwoLines
  MaxTasks = 1
  MaxRestarts = 1
SPECIFICATION Spec
PROPERTY
  StartReturns
CHECK_DEADLOCK FALSE
