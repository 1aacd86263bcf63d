SPECIFICATION Spec
CONSTANTS
  Connection <- SharedIds
  LOCALHOST_HEX = 127
  LO_HEX = 0
  MAX_COLOR_DEFS = 2
INVARIANT TableIsAccountedFor
INVARIANT PaintedApart
PROPERTY UnsharedCloseNoticeMatches
PROPERTY ImplementsIdPool
