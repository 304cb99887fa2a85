\* Play, seek, drop and redisplay an intact stream, with more decompress
\* records than frame buffers.
SPECIFICATION Spec
CONSTANTS
  MaxFrame     = 5
  KeyFrames    <- StreamKeys
  Droppable    <- StreamDroppable
  Undecodable  <- NoFrames
  PixFmtOf     <- All420
  FrameDelay   = 2
  NULL = NULL
  GARBLED = GARBLED
  EMPTY = EMPTY
  BLACK = BLACK
  Records      = {r1, r2, r3}
  MaxBuffers   = 2
  AllocMayFail = FALSE
  Alignments   = {TRUE}
SYMMETRY RecordSymmetry
INVARIANTS
  TypeOK
  NoSlotLeak
  IntactFramesShown
  DecoderDrained
  SlotOwnership
PROPERTIES
  StarvedOnlyWhenFull
  StoreSpec
