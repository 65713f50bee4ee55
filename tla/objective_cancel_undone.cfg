CONSTANTS
  a = a
  b = b
  d1 = d1
  d2 = d2
  Node = {a}
  DependsOn <- Alone
  Driver = {d1}
  ProcessOf <- JustOne
  MaxConcurrent = 1
  TaskOutcome = {"merge-ready"}
  MaxStarts = 2
  MaxRetries = 0
  MaxPeriodic = 0
  MaxKills = 0
  MayFail = FALSE
SPECIFICATION Spec
CHECK_DEADLOCK FALSE
PROPERTIES CancelIsFinal
