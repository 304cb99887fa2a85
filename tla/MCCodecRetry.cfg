\* A second Preflight succeeds after avcodec_open2 failed.
SPECIFICATION CodecSpec
CONSTANTS
  MaxFrame     = 4
  KeyFrames    <- StreamKeys
  Droppable    <- StreamDroppable
  Undecodable  <- NoFrames
  PixFmtOf     <- All420
  FrameDelay   = 2
  NULL = NULL
  GARBLED = GARBLED
  EMPTY = EMPTY
  BLACK = BLACK
  Records      = {r1, r2}
  MaxBuffers   = 2
  AllocMayFail = FALSE
  Alignments   = {TRUE}
  OpenMayFail      = TRUE
  RetriesPreflight = TRUE
  HasExtradata     = FALSE
SYMMETRY RecordSymmetry
CHECK_DEADLOCK FALSE
INVARIANTS
  PreflightOpensDecoder
