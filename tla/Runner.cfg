SPECIFICATION Spec
CONSTANTS
  p1 = p1
  i1 = i1
  i2 = i2
  w1 = w1
  w2 = w2
  c1 = c1
  c2 = c2
  Projects = {p1}
  MaxId = 3
  Groups = {"deploy"}
  NoGroup = NoGroup
  NoKey = NoKey
  Instances = {i1}
  Workers = {w1, w2}
  Callers = {c1, c2}
  Home <- OneInstanceHome
  MaxStarts = 2
  MaxLost = 1
  MaxCancels = 1
  Sources = {"git", "snapshot"}
SYMMETRY Symmetry
CONSTRAINT ThirdRowPlain
INVARIANTS
  TypeOK
  OneRunPerWorkspace
  SupersededAttemptsFailed
  Ownership
PROPERTIES
  TerminalIsFinal
  CanceledOnRequest
CHECK_DEADLOCK FALSE
