SPECIFICATION Spec
CONSTANTS
  None = None
  Agent = {a1, a2}
  Proc = {p1, p2}
  Dim = {d1}
  IdBound = 2
  RecordBound = 2
  StopBound = 1
  LossBound = 0
SYMMETRY MCSymmetry
INVARIANTS
  IdsUnique
  MembersListed
CHECK_DEADLOCK FALSE
