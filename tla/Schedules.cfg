SPECIFICATION FairScheduleSpec
CONSTANTS
  wa = wa
  wb = wb
  p1 = p1
  p2 = p2
  Processes = {p1, p2}
  Workflows = {wa}
  Crons = {"often", "30feb"}
  NextTime <- MCCrons
  NoCron = NoCron
  MaxTime = 3
  MaxFailures = 1
  MaxCrashes = 1
INVARIANTS
  ScheduleTypeOK
  OncePerDueTime
PROPERTIES
  NoDueTimeDropped
  DueRuns
CHECK_DEADLOCK FALSE
