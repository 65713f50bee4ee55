CONSTANTS
  Worker = {w}
  Call = {c1, c2}
  MaxPending = 1
  ListLimit = 2
  Faulty <- AllButDelete
  MaxIntents = 3
  MaxFaults = 1
SPECIFICATION Spec
CHECK_DEADLOCK FALSE
INVARIANTS AtMostOnce InOrder NothingIsForgotten
PROPERTIES EveryIntentSettles
