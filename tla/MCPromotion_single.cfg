\* One run and one tick at a time, one crash or failed tick.
SPECIFICATION FairSpec
CONSTANTS
  c1 = c1
  c2 = c2
  f1 = f1
  f2 = f2
  Slots = {r1}
  Ticks = {t1}
  Changes <- TwoChanges
  Files <- TwoFiles
  FileOf <- SameFile
  Original = Original
  NoChange = NoChange
  NoBranch = NoBranch
  MaxCommits = 2
  MaxFaults = 1
INVARIANTS
  BaselineAgrees
PROPERTIES
  WindowCloses
  RollbackRestoresKnownGood
  RollbackMergesBaseline
