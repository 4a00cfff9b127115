\* Two jobs and one slot, the switch off: a job that awaits the other keeps
\* it out.
SPECIFICATION FairSpec
CONSTANTS
  j1 = j1
  j2 = j2
  Jobs <- TwoJobs
  Callers <- TwoJobs
  Guards <- TwoGuards
  Writers = {}
  TTL = 1
  MaxTime = 0
  MaxWrites = 0
  MaxLost = 0
  Concurrency = 1
  MaxCalls = 1
  MaxTurns = 2
  MaxStalls = 1
  MaxFaults = 1
INVARIANTS
  TypeOK
  OpenRowsExplained
PROPERTIES
  CollectedStands
  JobsEnd
\* Every job may have ended.
CHECK_DEADLOCK FALSE
