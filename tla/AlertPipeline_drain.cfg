SPECIFICATION FairSpec
CONSTANTS
  IfaceAlerts = {f1}
  InternalAlerts = {i1}
  Recipients = {db, mail}
  Deletable = {mail}
  Served = {db, mail}
  NoAlert = NoAlert
  QueueSize = 1
  Budget = 1
INVARIANT OfferedOrLost
PROPERTIES DrainedIsSettled EventuallyDrained
