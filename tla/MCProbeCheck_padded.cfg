SPECIFICATION Spec
CONSTANTS
  NoName = NoName
  NoValue = NoValue
  NoAnswer = NoAnswer
  NotJSON = NotJSON
  Failed = Failed
  NaN = NaN
  Probes <- MCNamed
  Responses <- MCResponses
  Numerals <- MCNumerals
  Integrals <- MCIntegrals
  TextFacts <- MCTextFacts
  Clock = 1
\* A probe passes, fails or is rejected, and that is all.
CHECK_DEADLOCK FALSE
INVARIANTS AcceptedReferencesResolve
