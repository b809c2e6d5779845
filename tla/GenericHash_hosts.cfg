SPECIFICATION FairSpec
CONSTANTS
  Entries = {e1, e2}
  NumHashes = 2
  Walkers = {w1}
  MaxHashSize = 2
  MinNumIdle = 1
  MaxQueued = 1
  StartStates <- HostStates
  NeedsUnused = TRUE
  Collected = FALSE
INVARIANT UnusedWhenExpired
PROPERTIES EventuallyFreed
CHECK_DEADLOCK FALSE
