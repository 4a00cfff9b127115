\* Two tabs, two messages, a batch of one row and a history of three.
SPECIFICATION FairSpec
CONSTANTS
  r1 = r1
  r2 = r2
  r3 = r3
  t1 = t1
  t2 = t2
  Requests = {r1, r2}
  Tabs = {t1, t2}
  Ticks = {1, 2}
  MaxHistory = 3
  Batch = 1
  MaxTurns = 2
  MaxFaults = 1
  None = None
INVARIANTS
  TypeOK
  RunOnce
  RepliesFollow
PROPERTIES
  ImplementsMailbox
  ServedUnlessClogged
\* Every message may have been dealt with.
CHECK_DEADLOCK FALSE
