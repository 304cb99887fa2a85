\* A damaged key frame, allocations that fail, destinations aligned and not.
SPECIFICATION Spec
CONSTANTS
  MaxFrame     = 4
  KeyFrames    <- StreamKeys
  Droppable    <- StreamDroppable
  Undecodable  <- DamagedPackets
  PixFmtOf     <- TenBit
  FrameDelay   = 2
  NULL = NULL
  GARBLED = GARBLED
  EMPTY = EMPTY
  BLACK = BLACK
  Records      = {r1, r2}
  MaxBuffers   = 2
  AllocMayFail = TRUE
  Alignments   = {TRUE, FALSE}
SYMMETRY RecordSymmetry
INVARIANTS
  SlotOwnership
  ShowsNoOtherFrame
  ConverterOfTheFormat
