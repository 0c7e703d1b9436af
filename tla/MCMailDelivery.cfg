SPECIFICATION Spec
CONSTANTS
  NoAddress = NoAddress
  ann = ann
  bob = bob
  cyd = cyd
  Recipients <- MCRecipients
  Mode = "starttls"
\* The notice is over when its goroutine is done.
CHECK_DEADLOCK FALSE
INVARIANTS NilMeansAccepted OneMailEach WatchersDoNotPileUp OnlyDeadlineStarves
PROPERTIES PhaseEnds
