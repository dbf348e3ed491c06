SPECIFICATION Spec
CONSTANTS
  Thread = {t1}
  Dir = {d}
  Name = {a}
  Block = {b1, b2}
  MinFlush = 1
  LogInitial = 3
  MinRunway = 1
  LogExtend = 1
  MaxIno = 2
  MaxSize = 1
  MaxCalls = 2
  MaxTxn = 4
  MaxCrash = 0
  MaxErrors = 0
INVARIANT DeltasContinue
CHECK_DEADLOCK FALSE
