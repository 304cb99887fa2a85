\* A slot is found free, and taken, before EndBand has freed its AVFrame.
SPECIFICATION TaskSpec
CONSTANTS
  MaxFrame     = 4
  KeyFrames    <- StreamKeys
  Droppable    <- StreamDroppable
  Undecodable  <- NoFrames
  PixFmtOf     <- All420
  FrameDelay   = 2
  NULL = NULL
  GARBLED = GARBLED
  EMPTY = EMPTY
  BLACK = BLACK
  Records      = {r1, r2, r3}
  MaxBuffers   = 2
  AllocMayFail = FALSE
  Alignments   = {TRUE}
INVARIANTS
  DrawBandMPSafe
