SPECIFICATION Spec
CONSTANTS
  Alerts = {1, 2}
  NoAlert = 0
  CliScore <- MCCliScore
  SrvScore <- MCSrvScore
  Buffers = {b1, b2, b3}
  NoBuffer = NoBuffer
  QueueLen = 2
  SwapEnabled = TRUE
  PrefsChange = TRUE
INVARIANTS FlowOutlivesAlerts ShadowHolds LastNotificationTells CountersBalanced
CHECK_DEADLOCK FALSE
