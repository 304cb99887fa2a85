\* Every converter on pictures around the sizes of its vector blocks.
SPECIFICATION Spec
CONSTANTS
  Widths  = {1, 2, 3, 16, 31, 32, 33, 49, 64, 67}
  Heights = {1, 2, 3, 4}
  MaxOverrun = 2
CHECK_DEADLOCK FALSE
INVARIANTS
  InsideThePicture
  EveryPixelConverted
  ClearedToBlack
