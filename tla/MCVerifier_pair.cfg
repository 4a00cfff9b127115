\* Two changes of one tool, staged in different milliseconds.
SPECIFICATION FairSpec
CONSTANTS
  v1 = v1
  v2 = v2
  Changes <- TwoChanges
  Stamp <- Apart
  MaxFaults = 1
INVARIANTS
  TypeOK
  PipelineOnlyVerified
  LeftoversReported
PROPERTIES
  ChangesEnd
\* Every change may have been dealt with.
CHECK_DEADLOCK FALSE
