\* README.md: a failure transition occurs when cycles.failure consecutive checks fail.
SPECIFICATION Safety
CONSTANTS
  DurationRange = 64
  Specs <- SparseSpecs
  Conf <- SparseConf
  CycleInterval = 2
  StartupJitter = 0
  MailTimeout = 1
  Prompt = TRUE
  MaxCycles = 7
  MaxTime = 20
CHECK_DEADLOCK FALSE
INVARIANTS ThresholdForcesTransition
