SPECIFICATION Spec
CONSTANTS
  n1 = n1
  s1 = s1
  net1 = net1
  task1 = task1
  task2 = task2
  c1 = c1
  c2 = c2
  Prepared = {n1}
  Spare = {s1}
  NetTask <- OneNetTask
  OneShots = {task1, task2}
  Callers = {c1, c2}
  None = None
INVARIANTS
  TypeOK
  UndefinedOnlyInRaces
  NothingRunsAfterStop
PROPERTIES
  StopEnds
  TaskRuns
CHECK_DEADLOCK FALSE
