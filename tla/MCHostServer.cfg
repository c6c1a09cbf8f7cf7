SPECIFICATION FairSpec
CONSTANTS
  c1 = c1
  c2 = c2
  c3 = c3
  Conns = {c1, c2, c3}
  Endless = {c2, c3}
  MaxActive = 2
  MaxStarts = 2
INVARIANTS SlotsConserved StopReachesAll OneAcceptThread
PROPERTIES StopReturns ConnectionsTaken
CHECK_DEADLOCK FALSE
