SPECIFICATION Spec
CONSTANTS
  Alerts = {1}
  NoAlert = 0
  CliScore <- MCCliScore
  SrvScore <- MCSrvScore
  Buffers = {b1, b2, b3}
  NoBuffer = NoBuffer
  QueueLen = 1
  SwapEnabled = TRUE
  PrefsChange = FALSE
INVARIANT ScoresInSync
CHECK_DEADLOCK FALSE
