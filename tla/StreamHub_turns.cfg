SPECIFICATION HubSpec
CONSTANTS
  a1 = a1
  a2 = a2
  Subscribers = {a1, a2}
  MaxValue = 2
  MaxConnects = 3
CHECK_DEADLOCK FALSE
INVARIANTS
  CurrentInTurn
PROPERTY LatestIsRouted
