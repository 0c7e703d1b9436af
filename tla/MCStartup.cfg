SPECIFICATION StartupSpec
CONSTANTS
  NoName = NoName
  NoValue = NoValue
  Unreadable = Unreadable
  Malformed = Malformed
  EmptyDocument = EmptyDocument
  Specs <- MCSpecs
  Directories <- MCDirectories
  Empty = Empty
  Unparsable = Unparsable
  Launches <- MCLaunches
\* The process serves or is gone, and that is all.
CHECK_DEADLOCK FALSE
INVARIANTS
  AcceptedSuitsRunner NothingIsLost PrecedenceHolds RefusalIsEarned ParseFailureIsTold NeverOpenByMistake
