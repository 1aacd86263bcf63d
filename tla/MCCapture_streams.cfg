\* Two streams, with segments lost, repeated and reordered.
SPECIFICATION Spec
CONSTANTS
  Connection <- TwoHosts
  LOCALHOST_HEX = 127
  LO_HEX = 0
  MAX_COLOR_DEFS = 2
  Content <- Segments
  Forgettable <- TwoHosts
  FilterLists <- Filters
  EnDns = {TRUE}
INVARIANT TypeOK
INVARIANT FollowsWhatWasAskedFor
PROPERTY OnlyEarlyPacketsAreLost
PROPERTY OnlyReorderingJoinsPackets
PROPERTY FinishIsAnnounced
PROPERTY ImplementsReporter
