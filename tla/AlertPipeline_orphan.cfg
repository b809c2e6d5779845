SPECIFICATION FairSpec
CONSTANTS
  IfaceAlerts = {f1}
  InternalAlerts = {}
  Recipients = {db, mail}
  Deletable = {mail}
  Served = {db, mail}
  NoAlert = NoAlert
  QueueSize = 1
  Budget = 1
PROPERTY ShutdownWhenDone
