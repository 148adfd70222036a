SPECIFICATION Spec
CONSTANTS
  p1 = p1
  Processes = {p1}
  Here = p1
  wa = wa
  wb = wb
  k1 = k1
  k2 = k2
  r1 = r1
  r2 = r2
  Workflows = {wa, wb}
  Crons = {"often"}
  NextTime <- AlwaysCron
  NoCron = None
  Absent = None
  NoCommit = NoCommit
  MaxTime = 1
  MaxFailures = 0
  MaxCrashes = 1
  Commits = {k1, k2}
  Branches = {"main"}
  DefaultBranch = "main"
  Tree <- TwoTrees
  Requests = {r1, r2}
  Events <- FewEvents
SYMMETRY Symmetry
INVARIANTS
  TriggersTypeOK
  WebhookStartsWanted
CHECK_DEADLOCK FALSE
