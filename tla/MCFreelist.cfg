CONSTANTS
  Backends = {"memdb", "rocksdb"}
  KeyPrefixes = {1, 2, 3, 4}
  Longer <- MCLonger
  XorPrefixes = {2}
  SumPrefixes = {4}
  Unreadable = Unreadable
  BPK = 2
  Sizes = {5, 6}
  Extents <- MCExtents
  OtherTxns <- MCOther
  MaxTxns = 3
  MaxOther = 2
  MaxCrashes = 1
  META = 1
  BITMAP = 2
  None = None
SPECIFICATION Spec
INVARIANTS
  FreelistTypeOK
  BitmapExact
  EnumeratesSnapshot
  AckedMarked
PROPERTIES
  PrefixIsolation
CHECK_DEADLOCK FALSE
