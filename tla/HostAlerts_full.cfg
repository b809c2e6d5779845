SPECIFICATION Spec
CONSTANTS
  Checks = {c1}
  Alerts = {a1}
  NoAlert = NoAlert
  QueueLen = 1
  PrefsChange = FALSE
INVARIANTS QueuedIsLive
CHECK_DEADLOCK FALSE
