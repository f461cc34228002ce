SPECIFICATION FairSpec
CONSTANTS
  p1 = p1
  p2 = p2
  d1 = d1
  d2 = d2
  None = None
  Malformed = Malformed
  Proc = {p1, p2}
  Tenant = {t1}
  Dim = {d1, d2}
  Skipper = {sk}
  Owner = sk
  LocalDim <- MCLocalDimDiffer
  CheckpointAfterLinks = 1
  Fragments = {"torn", "unterminated"}
  PowerMayFail = FALSE
  TmpMayBeLost = FALSE
  HistoryBound = 4
INVARIANT TypeOK
PROPERTY
  ImplementsMembership
  
  LockReleased
