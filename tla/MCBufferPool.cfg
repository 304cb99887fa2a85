CONSTANTS
  Threads = {dec, host, work}
  Decoder = dec
  Pools = {p1, p2}
  Data = {d1, d2, d3}
  MaxRefs = 1
  NULL = NULL
SPECIFICATION Spec
SYMMETRY MemorySymmetry
INVARIANTS
  TypeOK
  PoolOutlivesUsers
  BuffersNotShared
  NothingLeaks
