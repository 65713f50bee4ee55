CONSTANTS
  Process = {p1, p2}
  Run = {w1, w2}
  RunsOf <- AnyWakeup
  Lapses = {"expiry", "force"}
  MaxAttempts = 2
  MayHold = TRUE
SPECIFICATION Spec
CHECK_DEADLOCK FALSE
INVARIANTS OneOwnerUnlessStrayed OneWorkerPerWakeup AttemptsAreFailures
PROPERTIES EveryWakeupIsSettled
