\* Open, preflight repeatedly, play, close and open again.
SPECIFICATION CodecSpec
CONSTANTS
  MaxFrame     = 4
  KeyFrames    <- StreamKeys
  Droppable    <- StreamDroppable
  Undecodable  <- NoFrames
  PixFmtOf     <- All422
  FrameDelay   = 2
  NULL = NULL
  GARBLED = GARBLED
  EMPTY = EMPTY
  BLACK = BLACK
  Records      = {r1, r2}
  MaxBuffers   = 2
  AllocMayFail = FALSE
  Alignments   = {TRUE}
  OpenMayFail      = TRUE
  RetriesPreflight = FALSE
  HasExtradata     = FALSE
SYMMETRY RecordSymmetry
CHECK_DEADLOCK FALSE
INVARIANTS
  CodecTypeOK
  NoCrash
  ContextAndPicturesFreed
  IntactFramesShown
  DestinationFits
PROPERTIES
  RepeatedPreflightHarmless
