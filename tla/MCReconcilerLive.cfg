CONSTANTS
  q1 = q1
  Queries <- MCQueries
  Role = "PEER"
  MaxTimeline = 1
  MaxLoads = 2
  MaxActions = 1
  MaxPushes = 1
SPECIFICATION FairSpec
INVARIANT TypeOK
PROPERTY PendingConverges
VIEW MCView
