SPECIFICATION Spec
CONSTANTS
  Outputs <- MCOutputs
  Records <- MCRecords
  Cuts <- MCCuts
INVARIANTS
  NothingLost
  BacklogIsFailures
  LinesReadAsLogged
\* after the last call of Write
CHECK_DEADLOCK FALSE
