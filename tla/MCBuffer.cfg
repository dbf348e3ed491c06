CONSTANTS
  Raws = {r1, r2, r3, r4}
  Chunks <- MCChunks
  Lists = {x, y}
  ALLOC_UNIT = 4
  UNIT_MAX = 4
  HEADER = 1
  PAGE = 2
  Bases = {1}
  MaxRaw = 4
  MaxLen = 4
  MaxBufs = 3
  MaxCalls = 4
SPECIFICATION Spec
SYMMETRY Symmetry
VIEW Memory
INVARIANTS
  BufferTypeOK
  TailExclusive
PROPERTIES
  RefinesSharedBytes
  CrcRight
  AlignedForDirectIO
  EncodingRoundTrip
CHECK_DEADLOCK FALSE
