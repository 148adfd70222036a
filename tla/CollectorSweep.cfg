SPECIFICATION CollectorSpec
CONSTANTS
  p1 = p1
  i1 = i1
  w1 = w1
  c1 = c1
  Projects = {p1}
  MaxId = 1
  Groups = {}
  NoGroup = NoGroup
  NoKey = NoKey
  NoBox = NoBox
  Ids = {1, 2}
  Instances = {i1}
  Workers = {w1}
  Callers = {}
  Home <- NoCallerHome
  MaxStarts = 2
  MaxLost = 0
  MaxCancels = 0
  MaxFailures = 0
  Sources = {"git"}
INVARIANTS
  OnlyFinishedSwept
CHECK_DEADLOCK FALSE
