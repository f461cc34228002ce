SPECIFICATION LifeSpec
CONSTANTS
  None = None
  Me = me
  Dim = {d1, d2}
  LocalDim = d1
  Reader = {r1}
  MinGrowth = 1
  Percent = 50
  RecordBound = 4
INVARIANTS
  SagaFollowsMembership
  FailsOnlyOnLeave
PROPERTIES
  RefreshLives
CHECK_DEADLOCK FALSE
