SPECIFICATION FairSpec
CONSTANTS
  Jobs = {a}
  NoJob = NoJob
  OneShot = {}
  MinThreads = 1
  MaxThreads = 1
  SpareThreads = 1
  LimitResources = FALSE
  NoResources = FALSE
PROPERTIES ShutdownTerminates
CHECK_DEADLOCK FALSE
