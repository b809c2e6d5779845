SPECIFICATION Spec
CONSTANTS
  Flows = {f1, f2}
  NoFlow = NoFlow
  IdleQueueLen = 1
  ActiveQueueLen = 2
  IdleBudget = 1
  ActiveBudget = 1
  TinyBytes = 0
  MaxBytes = 1
  Traffic = {"cli2srv"}
  SwapEnabled = FALSE
  Reswap = FALSE
  AllocMayFail = FALSE
SYMMETRY FlowSymmetry
INVARIANTS UsesAccounted NoUseAfterFree DrainedAtStop
CHECK_DEADLOCK FALSE
