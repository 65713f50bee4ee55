CONSTANTS
  STAGES <- ShortStages
  Group <- NoGroup
  Runner = {r1}
  AgentOutcomes = {"pass"}
  MayYield = FALSE
  MaxStarts = 0
  HighRisk = FALSE
  HeadReadable = TRUE
  MaxVerdicts = 1
  MaxInfra = 1
  GateMaxInfra = 1
  MaxRecovery = 1
  MaxSeatPauses = 1
  MaxRetries = 1
  MaxCommits = 0
  MaxDispatches = 20
SPECIFICATION UnattendedSpec
CHECK_DEADLOCK FALSE
INVARIANT SpendIsBounded
PROPERTIES UnattendedEnds
