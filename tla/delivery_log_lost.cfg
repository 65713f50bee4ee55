CONSTANTS
  Nodes = {"a", "b"}
  MaxDeaths = 0
SPECIFICATION Spec
CHECK_DEADLOCK FALSE
INVARIANTS MergeLogIsComplete
