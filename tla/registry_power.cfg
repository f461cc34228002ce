SPECIFICATION Spec
CONSTANTS
  p1 = p1
  p2 = p2
  d1 = d1
  d2 = d2
  None = None
  Malformed = Malformed
  Proc = {p1, p2}
  Tenant = {t1, t2}
  Dim = {d1}
  Skipper = {sk}
  Owner = sk
  LocalDim <- MCLocalDimSame
  CheckpointAfterLinks = 2
  Fragments = {"torn", "unterminated"}
  PowerMayFail = TRUE
  TmpMayBeLost = FALSE
  HistoryBound = 4
SYMMETRY MCSymmetry
INVARIANTS
  ChainIntact
  ActiveIsHistory
  AckedNotLost
