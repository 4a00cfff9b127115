\* One job, two turns of up to two tool calls, two writers of the kill switch
\* and a clock.
SPECIFICATION Spec
CONSTANTS
  j1 = j1
  j2 = j2
  Jobs <- OneJob
  Callers <- OneJob
  Guards <- TwoGuards
  Writers = {w1, w2}
  TTL = 1
  MaxTime = 2
  MaxWrites = 2
  MaxLost = 1
  Concurrency = 1
  MaxCalls = 2
  MaxTurns = 2
  MaxStalls = 0
  MaxFaults = 0
INVARIANTS
  KillTakesEffect
  AuditAccounts
  KillStopsTools
\* Every job may have ended.
CHECK_DEADLOCK FALSE
