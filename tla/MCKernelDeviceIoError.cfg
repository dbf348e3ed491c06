CONSTANTS
  Ctx = {a}
  CallbackCtx = {}
  a = a
  Depth = 2
  MaxReap = 2
  Attempts = 1
  MaxAio = 2
  MaxErrors = 1
SPECIFICATION Spec
PROPERTY
  WaitReturnsOnError
CHECK_DEADLOCK FALSE
