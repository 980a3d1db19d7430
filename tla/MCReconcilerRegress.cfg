CONSTANTS
  q1 = q1
  Queries <- MCQueries
  Role = "ADMIN"
  MaxTimeline = 1
  MaxLoads = 2
  MaxActions = 1
  MaxPushes = 1
SPECIFICATION Spec
PROPERTY StatusNeverRegresses
VIEW MCView
