SPECIFICATION BuildSpec
CONSTANTS
  a = a
  b = b
  Absent = Absent
  mine = mine
  peer = peer
  Origin = {mine, peer}
  Cost <- MCCost
  Record <- MCRecord
  Near = 1
  Similarity = {5, 8}
  Ranker <- MCRanker
  Options <- MCOptions
  MaxHits = 3
INVARIANTS
  SourcesTrue
  NoRepeats
  PackedByRank
  AllAccounted
  SentencesKept
CHECK_DEADLOCK FALSE
