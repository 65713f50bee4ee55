CONSTANTS
  Threads = {1, 2}
  KeptThreads = 1
  MaxTurns = 2
  Jobs = {1, 2}
  MaxBoots = 3
  c1 = c1
  c2 = c2
  l1 = l1
  l2 = l2
  Desks <- MCDesks
  Topics <- MCTopics
  Procs <- Both
  Stable <- MCStable
  Fresh <- MCFresh
  Files <- MCFiles
  Outsiders = {}
  Window = 1
  MayFill = TRUE
  MayDamage = TRUE
  STAGES <- TinyPipeline
  HighRisk = TRUE
  MaxVerdicts = 2
  MaxInfra = 2
  GateMaxInfra = 1
  MaxRecovery = 1
  MaxSeatPauses = 2
  MaxRetries = 1
  HeadReadable = TRUE
  MaxCommits = 1
  MaxDispatches = 4
SPECIFICATION MCSpec
CHECK_DEADLOCK FALSE
INVARIANTS
  TypeOK
  DispatchMatchesEngine
  PipelineInOrder
  RecoveryAnchored
  RecoveryBounded
  NextIdIsFresh
  BuildIsAuthorized
  BlockHasOwner StoppedIsSomebodys
  RepliesAreComing OneJobPerRequest ReadsAreWhole
PROPERTIES
  SeatPauseIsFree ReleasesReviewedTree ImplementsAtomicStore
