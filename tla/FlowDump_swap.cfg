SPECIFICATION Spec
CONSTANTS
  Flows = {f1}
  NoFlow = NoFlow
  IdleQueueLen = 1
  ActiveQueueLen = 1
  IdleBudget = 1
  ActiveBudget = 1
  TinyBytes = 0
  MaxBytes = 1
  Traffic = {"cli2srv", "srv2cli"}
  SwapEnabled = TRUE
  Reswap = TRUE
  AllocMayFail = FALSE
INVARIANTS StatsNeverBackwards
CHECK_DEADLOCK FALSE
