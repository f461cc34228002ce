SPECIFICATION LoopSpec
CONSTANTS
  Scores = {0, 1, 2, 5, 40}
  PeerBound = 4
  Totals = {0, 1, 2, 3, 4, 5, 6, 7}
  Floors = {0, 1, 2}
  Caps = {0, 2, 3, 4}
INVARIANTS
  LoopsAgree
  AllocationSound
PROPERTY Terminates
CHECK_DEADLOCK FALSE
