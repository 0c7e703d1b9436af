SPECIFICATION Spec
CONSTANTS
  DurationRange = 8
  Intervals <- MCIntervals
  Thresholds <- MCThresholds
  Gaps <- MCGaps
  MaxResults = 6
\* The histories are bounded by MaxResults.
CHECK_DEADLOCK FALSE
INVARIANTS StatusMatchesHistory CountersMatchHistory
