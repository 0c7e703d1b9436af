SPECIFICATION EddieSpec
CONSTANTS
  DurationRange = 64
  Specs <- EddieSpecs
  Conf <- EddieConf
  Scripts <- EddieScripts
  CycleInterval = 3
  StartupJitter = 0
  MailTimeout = 1
  ScriptTimeout = 3
  Prompt = TRUE
  MaxCycles = 6
  MaxTime = 17
  Clients = {c1}
  QuickRequests = FALSE
\* The process exits.
CHECK_DEADLOCK FALSE
INVARIANTS ExitZeroIsClean ExitCutsOffOneCycle ShellsBounded ThresholdForcesTransition
PROPERTIES ImplementsService ProcessEnds NoticesGoOutUnlessExit
