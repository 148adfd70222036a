SPECIFICATION ReportsSpec
CONSTANTS
  p1 = p1
  i1 = i1
  w1 = w1
  w2 = w2
  c1 = c1
  s1 = s1
  Projects = {p1}
  MaxId = 2
  Groups = {}
  NoGroup = NoGroup
  NoKey = NoKey
  Instances = {i1}
  Workers = {w1, w2}
  Callers = {c1}
  Home <- Home1
  MaxStarts = 2
  MaxLost = 0
  MaxCancels = 0
  Sources = {"git"}
  Readers = {s1}
  MaxFailures = 1
SYMMETRY Symmetry
INVARIANTS
  ReportsTypeOK
  StreamTellsAll
  CheckShowsResult
  OneCheckRun
CHECK_DEADLOCK FALSE
