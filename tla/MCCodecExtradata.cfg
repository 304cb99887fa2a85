\* The pixel format probe frees the extradata it borrowed.
SPECIFICATION CodecSpec
CONSTANTS
  MaxFrame     = 4
  KeyFrames    <- StreamKeys
  Droppable    <- StreamDroppable
  Undecodable  <- NoFrames
  PixFmtOf     <- All420
  FrameDelay   = 2
  NULL = NULL
  GARBLED = GARBLED
  EMPTY = EMPTY
  BLACK = BLACK
  Records      = {r1, r2}
  MaxBuffers   = 2
  AllocMayFail = FALSE
  Alignments   = {TRUE}
  OpenMayFail      = FALSE
  RetriesPreflight = FALSE
  HasExtradata     = TRUE
SYMMETRY RecordSymmetry
CHECK_DEADLOCK FALSE
INVARIANTS
  ExtradataFreedByUser
