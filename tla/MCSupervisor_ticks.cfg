\* Two ticks that overlap, two goals paused and activated under their loops.
SPECIFICATION FairSpec
CONSTANTS
  g1 = g1
  g2 = g2
  Goals <- TwoGoals
  Rank <- RankTwo
  Loops = {x1, x2}
  Ticks = {t1, t2}
  Cap = 1
  Reactivates = TRUE
  NoLoop = NoLoop
  NoGoal = NoGoal
  MaxFaults = 1
INVARIANTS
  MapEntriesRun
PROPERTIES
  TopGoalsServed
