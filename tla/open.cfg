SPECIFICATION Spec
CONSTANTS
  None = None
  Torn = Torn
  Proc = {p1, p2}
  Tenant = {t1}
  Dim = {d1}
  Skipper = {sk, other}
  Owner = sk
  Overlap = FALSE
  HistoryBound = 3
INVARIANTS
  RollbackRefused
  NoFalseAlarm
  CacheRemembers
