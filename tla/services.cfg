CONSTANTS
  Users <- MCUsers
  MaxItems <- MCMaxItems
  MaxPids <- MCMaxPids
  Nodes = {"a"}
  MaxDeaths = 1
  Tasks = {"t"}
  Publishers = {"loop"}
  MaxChanges = 1
  MaxFaults = 1
  Loads = {1, 2}
SPECIFICATION Spec
CHECK_DEADLOCK FALSE
INVARIANTS ItemsAreHonest SettledOnEvidence ReviewableOrSkipped
PROPERTIES NightEnds MergesAreNoticed PageCatchesUp
