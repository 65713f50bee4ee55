CONSTANTS
  STAGES <- ReviewedStages
  Group <- ReviewGroup
  Runner = {r1}
  AgentOutcomes = {"pass", "fail"}
  MayYield = FALSE
  MaxStarts = 2
  HighRisk = FALSE
  HeadReadable = TRUE
  MaxVerdicts = 2
  MaxInfra = 1
  GateMaxInfra = 1
  MaxRecovery = 1
  MaxSeatPauses = 1
  MaxRetries = 0
  MaxCommits = 1
  MaxDispatches = 6
SPECIFICATION RunnerSpec
CHECK_DEADLOCK FALSE
PROPERTIES VerdictsAreFresh
