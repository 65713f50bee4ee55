CONSTANTS
  STAGES <- ReviewedStages
  Group <- ReviewGroup
  Runner = {r1}
  AgentOutcomes = {"pass", "fail"}
  MayYield = TRUE
  MaxStarts = 1
  HighRisk = FALSE
  HeadReadable = TRUE
  MaxVerdicts = 2
  MaxInfra = 1
  GateMaxInfra = 1
  MaxRecovery = 1
  MaxSeatPauses = 1
  MaxRetries = 0
  MaxCommits = 1
  MaxDispatches = 6
SPECIFICATION SteadySpec
CHECK_DEADLOCK FALSE
PROPERTIES VerdictsAreFresh
