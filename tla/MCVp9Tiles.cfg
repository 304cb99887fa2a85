CONSTANTS
  MaxThreads = 2
  JobCounts = {1, 2, 4}
  CreateMayFail = TRUE
  SbRows = 3
SPECIFICATION FairSpec
INVARIANTS
  TypeOK
  JobsDistinct
  QuietBetweenBatches
PROPERTIES
  FrameSpec
  EveryCallEnds
