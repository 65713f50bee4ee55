CONSTANTS
  STAGES <- ReviewedStages
  Group <- ReviewGroup
  Runner = {r1, r2}
  AgentOutcomes = {"pass"}
  MayYield = TRUE
  MaxStarts = 2
  HighRisk = FALSE
  HeadReadable = TRUE
  MaxVerdicts = 1
  MaxInfra = 1
  GateMaxInfra = 1
  MaxRecovery = 1
  MaxSeatPauses = 1
  MaxRetries = 0
  MaxCommits = 0
  MaxDispatches = 3
SPECIFICATION RunnerSpec
CHECK_DEADLOCK FALSE
PROPERTIES ImplementsWorkflow
