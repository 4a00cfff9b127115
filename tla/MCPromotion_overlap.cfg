\* Two runs, which the row of the promotion that comes first is to keep apart.
SPECIFICATION Spec
CONSTANTS
  c1 = c1
  c2 = c2
  f1 = f1
  f2 = f2
  Slots = {r1, r2}
  Ticks = {t1}
  Changes <- TwoChanges
  Files <- TwoFiles
  FileOf <- SameFile
  Original = Original
  NoChange = NoChange
  NoBranch = NoBranch
  MaxCommits = 2
  MaxFaults = 0
PROPERTIES
  OnePromotionAtATime
