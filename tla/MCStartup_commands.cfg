\* All command lines of up to three arguments, and some of four.
SPECIFICATION Spec
CONSTANTS
  Commands <- SomeCommands
  Interfaces <- SomeInterfaces
  PartsOfAny <- SomeParts
  Digits = {"0", "5", "7", "10"}
  Signs = {"-"}
INVARIANT TypeOK
INVARIANT ReadsAsWritten
INVARIANT HelpIsTrue
INVARIANT EveryArgumentIsInReach
INVARIANT NoTextIsLost
INVARIANT CapturesWhatWasAskedFor
