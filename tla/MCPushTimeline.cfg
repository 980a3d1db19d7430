CONSTANTS
  h1 = h1
  h2 = h2
  Handlers <- MCHandlers
  MaxListeners = 3
  MaxTimeline = 2
  MaxEvents = 5
SPECIFICATION PushSpec
CONSTRAINT HistoryBound
INVARIANT EmitDeliversSnapshot
INVARIANT TimelineIsRecentHistory
