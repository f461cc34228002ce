SPECIFICATION FairSpec
CONSTANTS
  p1 = p1
  p2 = p2
  p3 = p3
  Local = Local
  Requests <- MCRequests
  Peers <- MCPeers
  Records <- MCRecords
  Score <- MCScore
  MinPerPeer = 1
  MaxPeers = 2
INVARIANTS
  RemoteAsAllowed
  AnswersCountOnce
  NobodyElseLost
  ResultIsBest
PROPERTY Returns
CHECK_DEADLOCK FALSE
