SPECIFICATION FairCollectorSpec
CONSTANTS
  p1 = p1
  i1 = i1
  w1 = w1
  c1 = c1
  Projects = {p1}
  MaxId = 1
  Groups = {}
  NoGroup = NoGroup
  NoKey = NoKey
  NoBox = NoBox
  Ids = {1, 2}
  Instances = {i1}
  Workers = {w1}
  Callers = {c1}
  Home <- OneHome
  MaxStarts = 2
  MaxLost = 1
  MaxCancels = 1
  MaxFailures = 1
  Sources = {"snapshot"}
INVARIANTS
  UploadOutlivesRun
PROPERTIES
  CancelEnds
  RunsEnd
  DrainReturns
  NothingLeaks
CHECK_DEADLOCK FALSE
