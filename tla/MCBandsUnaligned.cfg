\* The converter of an aligned destination is kept for an unaligned one.
SPECIFICATION Spec
CONSTANTS
  MaxFrame     = 4
  KeyFrames    <- StreamKeys
  Droppable    <- StreamDroppable
  Undecodable  <- NoFrames
  PixFmtOf     <- All420
  FrameDelay   = 2
  NULL = NULL
  GARBLED = GARBLED
  EMPTY = EMPTY
  BLACK = BLACK
  Records      = {r1, r2}
  MaxBuffers   = 2
  AllocMayFail = FALSE
  Alignments   = {TRUE, FALSE}
INVARIANTS
  SSE2OnlyWhenAligned
