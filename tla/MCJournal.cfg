CONSTANTS
  N = 25
  TxnBlocks = {1}
  CkptBlocks = {1}
  MaxUnchecked = 1
  MaxTxns = 34
  MaxCrashes = 1
  MaxIoErrors = 1
  FlushMayFail = FALSE
  Zero = Zero
SPECIFICATION Spec
INVARIANTS
  JournalTypeOK
  DurableCommit
PROPERTIES
  ImplementsLog
CHECK_DEADLOCK FALSE
