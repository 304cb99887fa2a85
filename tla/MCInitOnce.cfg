\* Three threads in two initialisations that share the mutex.
SPECIFICATION FairSpec
CONSTANTS
  Threads = {t1, t2, t3}
  Regions = {FFInitFFmpeg, initFFusionParsers}
  NULL = NULL
INVARIANTS
  OneAtATime
  InitialisedAtMostOnce
  UnlockedByOwner
PROPERTIES
  EveryCallReturns
