SPECIFICATION Spec
CONSTANTS
  IfaceAlerts = {f1}
  InternalAlerts = {i1}
  Recipients = {db, mail}
  Deletable = {mail}
  Served = {db, mail}
  NoAlert = NoAlert
  QueueSize = 1
  Budget = 1
PROPERTY NothingPending
