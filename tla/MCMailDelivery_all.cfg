\* README.md: the email is sent to all configured mail receivers.
SPECIFICATION Spec
CONSTANTS
  NoAddress = NoAddress
  ann = ann
  bob = bob
  cyd = cyd
  Recipients <- MCRecipients
  Mode = "implicit"
\* The notice is over when its goroutine is done.
CHECK_DEADLOCK FALSE
INVARIANTS EveryRecipientIsTried
