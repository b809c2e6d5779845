SPECIFICATION FairSpec
CONSTANTS
  Flows = {f1}
  NoFlow = NoFlow
  IdleQueueLen = 1
  ActiveQueueLen = 1
  IdleBudget = 1
  ActiveBudget = 1
  TinyBytes = 0
  MaxBytes = 1
  Traffic = {"cli2srv"}
  SwapEnabled = TRUE
  Reswap = FALSE
  AllocMayFail = TRUE
INVARIANTS ExportedOnce LastDumpComplete
PROPERTIES EventuallyDeleted
CHECK_DEADLOCK FALSE
