CONSTANTS
  FastUnits = {1, 2, 3}
  SlowUnits = {0, 1, 2}
  Slots = 2
  Word = 1000
  SmallSlots = 2
  Large = 2
  MaxExtents = 3
  MaxCycles = 3
  MaxGen = 9
  MaxDeferred = 9
  Movers = {worker}
  Worker = worker
  FAST = FAST
  SLOW = SLOW
  ACTIVE = ACTIVE
  MIGRATING = MIGRATING
  None = None
  Absent = Absent
  Extents = {1, 2, 3}
  Offsets = {0, 1, 2}
  Lengths = {0, 1, 2}
  Maybe = Maybe
  Keys = {k1}
  Writers = {w1}
  Readers = {}
  Background = TRUE
  MaxMigrations = 1
  MaxCompactions = 0
  JournalCap = 4
  ReadGrace = 2
  MaxOps = 3
  MaxTasks = 2
  MaxRounds = 3
  MaxRestarts = 0
  MaxFaults = 0
SPECIFICATION Spec
INVARIANTS
  AckedReadable
CHECK_DEADLOCK FALSE
