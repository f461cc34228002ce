SPECIFICATION Spec
CONSTANTS
  None = None
  Torn = Torn
  Misfit = Misfit
  Point = {0, 1}
  Capacity = 2
  Ttl = 1
  Reach = 0
  Proc = {asker, other}
  Asker = asker
  Trial = 2
  HitBound = 3
INVARIANTS
  IdleNotServed
  StaleOnlyIfLate
  CountersHonest
  WeightEarned
CHECK_DEADLOCK FALSE
