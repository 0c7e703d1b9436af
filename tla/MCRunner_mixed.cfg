\* Safety, refinement and liveness, with goroutines of any speed.
SPECIFICATION Spec
CONSTANTS
  DurationRange = 64
  Specs <- MixedSpecs
  Conf <- MixedConf
  CycleInterval = 1
  StartupJitter = 2
  MailTimeout = 1
  Prompt = FALSE
  MaxCycles = 4
  MaxTime = 4
\* Run returns when its context is done; the bounds end the rest.
CHECK_DEADLOCK FALSE
INVARIANTS TypeOK SerialChecks NoLostUpdate CountersHonest ToldMatchesStatus StampsOrdered
PROPERTIES TransitionsJustified ImplementsAlerting NoticesGoOut CyclesEnd StopsAfterCancel
