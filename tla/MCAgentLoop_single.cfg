\* One loop, a plan whose order is not that of the priorities, one replan.
SPECIFICATION FairSpec
CONSTANTS
  Loops = {l1}
  NoLoop = NoLoop
  MaxSubGoals = 3
  Plans <- MCReplans
  InitPlans <- MCInits
  MaxTurns = 2
  MaxReplans = 1
  CheckpointTries = 2
  MaxFaults = 1
INVARIANTS
  DependencySafety
  NoStaleRead
  CheckpointsKeepUp
  NoDuplicateExecution
PROPERTIES
  ImplementsPlan
  InactiveGoalStops
  ReadyWorkStarts
  CyclesEnd
