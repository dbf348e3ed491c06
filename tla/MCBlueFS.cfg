SPECIFICATION Spec
CONSTANTS
  Thread = {t1}
  Dir = {d}
  Name = {a, b}
  Block = {b1, b2}
  MinFlush = 2
  LogInitial = 4
  MinRunway = 1
  LogExtend = 1
  MaxIno = 3
  MaxSize = 2
  MaxCalls = 4
  MaxTxn = 3
  MaxCrash = 1
  MaxErrors = 1
SYMMETRY Symmetry
CONSTRAINT Playable
INVARIANTS BlueFSTypeOK SpaceSafe
PROPERTIES Recovered FsyncLogged
CHECK_DEADLOCK FALSE
