CONSTANTS
  a = a
  b = b
  d1 = d1
  d2 = d2
  Node = {a, b}
  DependsOn <- Chain
  Driver = {d1, d2}
  ProcessOf <- InDashboard
  MaxConcurrent = 2
  TaskOutcome = {"yielded", "infra", "decision", "hard", "merge-ready"}
  MaxStarts = 2
  MaxRetries = 1
  MaxPeriodic = 1
  MaxKills = 1
  MayFail = TRUE
SPECIFICATION Spec
CHECK_DEADLOCK FALSE
INVARIANTS BuiltOnDone StoppedHasCause OneRunPerNode StopsAreSomebodys
PROPERTIES DoneStaysDone RunsEnd OrphansAreTaken
