\* Two task lines, up to two tasks, three constructions: enough for a
\* task added, removed, written back and read again twice over.
CONSTANTS
  u1 = u1
  u2 = u2
  p1 = p1
  p2 = p2
  Words <- FourWords
  TaskLines <- TwoLines
  MaxTasks = 2
  MaxRestarts = 3
SPECIFICATION Spec
INVARIANTS
  TypeOK
  PendingTasksPersist
\* The manager is down for good after its last construction.
CHECK_DEADLOCK FALSE
