SPECIFICATION FairSpec
CONSTANTS
  Jobs = {a, o}
  NoJob = NoJob
  OneShot = {o}
  MinThreads = 1
  MaxThreads = 2
  SpareThreads = 1
  LimitResources = FALSE
  NoResources = TRUE
INVARIANTS JobOnce NeverStuck ScriptsEndFirst
PROPERTIES QueuedRuns ShutdownCompletes
CHECK_DEADLOCK FALSE
