SPECIFICATION FairSpec
CONSTANTS
  Workflows <- SomeWorkflows
  MaxParallel = 2
  MaxAttempts = 2
  MaxRoutines = 4
INVARIANTS
  TypeOK
  OrderedWhenAcyclic
  EveryStepSettles
  SkippedBehindFailure
  RunsBehindDeps
  CarriedNotRerun
PROPERTIES
  QuietAfterReturn
  Returns
CHECK_DEADLOCK FALSE
