SPECIFICATION TimerSpec
CONSTANTS
  t1 = t1
  t2 = t2
  LIST1_SIZE = 2
  LIST_SIZE = 4
  Timers = {t1, t2}
  Choices <- SomeChoices
  MaxLag = 1
  Start = 4
  LastCall = 6
  Horizon = 40
  None = None
INVARIANTS
  TimerTypeOK
  HangsOnFullTurn
PROPERTIES
  NeverEarly
  NearOnTime
  UpdateEnds
CHECK_DEADLOCK FALSE
