CONSTANTS
  FastUnits = {1, 2, 3}
  SlowUnits = {0, 1, 2}
  Slots = 2
  Word = 1000
  SmallSlots = 2
  Large = 2
  MaxExtents = 3
  MaxCycles = 4
  MaxGen = 9
  MaxDeferred = 9
  Movers = {worker}
  Worker = worker
  FAST = FAST
  SLOW = SLOW
  ACTIVE = ACTIVE
  MIGRATING = MIGRATING
  None = None
  Absent = Absent
  Extents = {1, 2, 3}
  Offsets = {0, 1, 2}
  Lengths = {0, 1, 2}
  Maybe = Maybe
  Keys = {k1}
  Writers = {w1}
  Readers = {r1}
  Background = TRUE
  MaxMigrations = 1
  MaxCompactions = 0
  JournalCap = 4
  ReadGrace = 2
  MaxOps = 4
  MaxTasks = 1
  MaxRounds = 4
  MaxRestarts = 0
  MaxFaults = 0
SPECIFICATION Spec
SYMMETRY Symmetry
INVARIANTS
  ClaimExclusive
  DeferredFreeProtectsReaders
  GenerationProtocol
PROPERTIES
  ExtentMapSpec
  KeyMapSpec
  MovesOnlyByCommit
CHECK_DEADLOCK FALSE
