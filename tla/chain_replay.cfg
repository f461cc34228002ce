SPECIFICATION MCSpec
CONSTANTS
  Tenant = {t1, t2}
  Dim = {d1}
  Skipper = {s1, s2}
  None = None
  MaxLinks = 4
  Absent = Absent
  Key = {0, 1}
  Text <- MCText
  Id = {0, 1}
  Width = {0}
  Time = {0}
  Number = {0, 1}
  Digest = {0}
  MaxMembers = 2
INVARIANTS
  LoopAgrees
  OnlyTruncationPasses
  SignatureBinds
CHECK_DEADLOCK FALSE
