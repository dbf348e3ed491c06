CONSTANTS
  Ctx = {a, k}
  CallbackCtx = {k}
  a = a
  k = k
  Depth = 2
  MaxReap = 2
  Attempts = 1
  MaxAio = 3
  MaxErrors = 1
SPECIFICATION Spec
INVARIANTS
  KernelDeviceTypeOK
  CountExact
  NoUseAfterFree
PROPERTIES
  FlushDurable
  WaitReturns
CHECK_DEADLOCK FALSE
