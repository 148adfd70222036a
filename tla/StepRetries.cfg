SPECIFICATION FairSpec
CONSTANTS
  Workflows <- OnePair
  MaxParallel = 2
  MaxAttempts = 1
  MaxRoutines = 3
INVARIANTS
  RunsWithinRetries
CHECK_DEADLOCK FALSE
