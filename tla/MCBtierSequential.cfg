CONSTANTS
  FastUnits = {1, 2, 3, 4, 5}
  SlowUnits = {0, 1, 2, 3, 4, 5, 6, 7}
  Slots = 4
  Word = 1000
  SmallSlots = 4
  Large = 2
  MaxExtents = 3
  MaxCycles = 3
  MaxGen = 9
  MaxDeferred = 9
  Movers = {worker}
  Worker = worker
  FAST = FAST
  SLOW = SLOW
  ACTIVE = ACTIVE
  MIGRATING = MIGRATING
  None = None
  Absent = Absent
  Extents = {1, 2, 3}
  Offsets = {0, 1, 2, 3, 4}
  Lengths = {0, 1, 2, 3, 4}
  Maybe = Maybe
  Keys = {k1, k2}
  Writers = {w1}
  Readers = {}
  Background = FALSE
  MaxMigrations = 1
  MaxCompactions = 1
  JournalCap = 4
  ReadGrace = 2
  MaxOps = 3
  MaxTasks = 2
  MaxRounds = 3
  MaxRestarts = 1
  MaxFaults = 1
SPECIFICATION Spec
SYMMETRY Symmetry
INVARIANTS
  BtierTypeOK
  ReadsLastAck
  SpaceAccounted
  LiveBytesExact
  ReverseIndexExact
CHECK_DEADLOCK FALSE
