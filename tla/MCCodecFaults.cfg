\* Every failure on the way to an opened decoder, and a host that insists.
SPECIFICATION CodecSpec
CONSTANTS
  MaxFrame     = 4
  KeyFrames    <- StreamKeys
  Droppable    <- StreamDroppable
  Undecodable  <- NoFrames
  PixFmtOf     <- All422
  FrameDelay   = 2
  NULL = NULL
  GARBLED = GARBLED
  EMPTY = EMPTY
  BLACK = BLACK
  Records      = {r1, r2}
  MaxBuffers   = 2
  AllocMayFail = TRUE
  Alignments   = {TRUE}
  OpenMayFail      = TRUE
  RetriesPreflight = TRUE
  HasExtradata     = TRUE
SYMMETRY RecordSymmetry
CHECK_DEADLOCK FALSE
INVARIANTS
  ContextAndPicturesFreed
  ShowsNoOtherFrame
