\* Two threads log to files at two paths, which may be moved.
SPECIFICATION FairSpec
CONSTANTS
  Threads <- Two
  Main = "main"
  Paths = {"a", "b"}
  Levels <- SomeLevels
  Settings <- TwoSettings
  MaxCalls <- FewCalls
  MaxRotations = 1
INVARIANT TypeOK
INVARIANT OneOrder
INVARIANT EveryFileHasIt
INVARIANT DropsOnlyInAChange
INVARIANT ClosedOnlyThere
INVARIANT IndentedByOpenScopes
INVARIANT TheLastWordIsWritten
PROPERTY EverythingIsFlushed
