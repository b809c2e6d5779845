SPECIFICATION FairSpec
CONSTANTS
  Checks = {c1, c2}
  Alerts = {a1, a2}
  NoAlert = NoAlert
  QueueLen = 2
  PrefsChange = TRUE
INVARIANTS AlertsAreLive EngageBeforeRelease FilterAgrees NoLeak HostOutlivesEvents ScoreBalanced
PROPERTIES IdleHostDeleted
CHECK_DEADLOCK FALSE
