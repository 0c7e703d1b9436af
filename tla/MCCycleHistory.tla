---------------------------- MODULE MCCycleHistory ----------------------------
(* Durations lie in -8 .. 7: the interval 4 doubles past the largest       *)
(* duration, and the gap of 9 is past what time.Sub can return.            *)
EXTENDS CycleHistory

MCIntervals  == {-1, 1, 3, 4}
MCThresholds == -1 .. 3
MCGaps       == {1, 3, 9}
===============================================================================
