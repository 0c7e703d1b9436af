SPECIFICATION ChecksSpec
CONSTANTS
  NoName = NoName
  NoValue = NoValue
  NoAnswer = NoAnswer
  NotJSON = NotJSON
  Failed = Failed
  NaN = NaN
  Probes <- MCProbes
  Responses <- MCResponses
  Numerals <- MCNumerals
  Integrals <- MCIntegrals
  TextFacts <- MCTextFacts
  Clock = 1
  Empty = ""
  Unset = Unset
  Within <- MCWithin
  DurationRange = 32
  Day = 4
  PageLimit = 3
  DefaultTimeout = 2
  Confs <- MCConfs
  Replies <- MCReplies
  MaxRedirects = 3
  Now = 10
\* A check passes, fails or is never made, and that is all.
CHECK_DEADLOCK FALSE
INVARIANTS
  VerdictIsEarned AllEqualIgnoresOrder ChecksEndInTime
PROPERTIES ChecksFinish
