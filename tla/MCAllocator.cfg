CONSTANTS
  Kinds = {"avl", "bitmap", "hybrid"}
  Size = 6
  BITS = 2
  SLOTS = 1
  ENTRIES = 2
  CAP = 1
  THRESHOLD = 2
  FREEPCT = 30
  SEARCH = 2
  BYTES = 4
  WORD = 64
  Threads = {t1, t2}
  Requests <- MCRequests
  Ranges <- MCRanges
  None = None
SPECIFICATION Spec
SYMMETRY Symmetry
INVARIANTS
  AllocatorTypeOK
  Accounted
  SummariesHideNothing
PROPERTIES
  HandsOutFree
  AnswersRight
  RefinesFreeSpace
CHECK_DEADLOCK FALSE
