--------------------------- MODULE MCPushTimeline ---------------------------
EXTENDS PushTimeline, TLC

CONSTANTS h1, h2

MCHandlers == {h1, h2}
=============================================================================
