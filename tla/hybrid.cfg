SPECIFICATION Spec
CONSTANTS
  None = None
  Local = Local
  Tenant = {1, 2}
  Dim = {d1}
  Remote = {r1, r2}
  Version = {1, 2}
  Second = {0, 1}
  LogBound = 2
INVARIANTS
  ListHonest
  MigrationExact
PROPERTIES
  PullsForward
CHECK_DEADLOCK FALSE
