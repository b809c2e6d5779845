SPECIFICATION Spec
CONSTANTS
  Entries = {e1, e2}
  NumHashes = 2
  Walkers = {w1}
  MaxHashSize = 2
  MinNumIdle = 0
  MaxQueued = 1
  StartStates <- FlowStates
  NeedsUnused = FALSE
  Collected = TRUE
INVARIANTS NoUseAfterFree OneContainer WaitingIsIdle CountersAgree DeletedLater
SYMMETRY EntrySymmetry
CHECK_DEADLOCK FALSE
