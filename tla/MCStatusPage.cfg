SPECIFICATION SystemSpec
CONSTANTS
  DurationRange = 64
  often = often
  seldom = seldom
  never = never
  Specs <- PageSpecs
  Conf <- PageConf
  Order <- PageOrder
  RefreshInterval = 1
  CycleInterval = 1
  StartupJitter = 0
  MailTimeout = 1
  Prompt = FALSE
  MaxCycles = 2
  MaxTime = 2
\* Run returns when its context is done; the bounds end the rest.
CHECK_DEADLOCK FALSE
INVARIANTS RowsAreAsOfGeneratedAt
PROPERTIES StreamsGoForward
