------------------------------ MODULE CycleState ------------------------------
(***************************************************************************)
(* The state the monitor keeps for one spec and the pure functions that    *)
(* advance it: internal/state/store.go (SpecState) and the threshold,      *)
(* staleness and scheduling functions of internal/monitor/runner.go.       *)
(*                                                                         *)
(* Time is a natural number of ticks; ZeroTime is Go's zero time.Time.     *)
(* A time.Duration is a signed integer of fixed width: it lies in          *)
(* -DurationRange .. DurationRange - 1, and products wrap around.          *)
(***************************************************************************)
EXTENDS Integers

CONSTANT DurationRange   \* 2^63 in the program; small in the model-checked instances

ASSUME DurationAssumption == DurationRange \in Nat \ {0} /\ DurationRange % 2 = 0

ZeroTime == -1
Times    == Nat \cup {ZeroTime}

Statuses    == {"healthy", "failing"}
Transitions == {"none", "failure", "recovery"}

SpecStates == [Status: Statuses,
               ConsecutiveFailures: Nat,
               ConsecutiveSuccesses: Nat,
               LastCycleStartedAt: Times,
               LastCycleAt: Times]

MutantFreshState == [Status |-> "",
                     ConsecutiveFailures |-> 0,
                     ConsecutiveSuccesses |-> 0,
                     LastCycleStartedAt |-> ZeroTime,
                     LastCycleAt |-> ZeroTime]

(* What both readers of the store use for a spec it does not hold yet.     *)
FreshState == [Status |-> "healthy",
               ConsecutiveFailures |-> 0,
               ConsecutiveSuccesses |-> 0,
               LastCycleStartedAt |-> ZeroTime,
               LastCycleAt |-> ZeroTime]

-------------------------------------------------------------------------------
(* Thresholds and scheduling.                                              *)

ThresholdOrDefault(value, fallback) == IF value <= 0 THEN fallback ELSE value

ShouldRunInCycle(everyCycles, cycleNumber) ==
  everyCycles <= 1 \/ cycleNumber % everyCycles = 0

-------------------------------------------------------------------------------
(* Stale counters. A gap of more than two intervals between two completed  *)
(* checks of a spec forgets its consecutive counters (not its status).     *)

MutantStaleCycleGapMultiplier == 1

staleCycleGapMultiplier == 2

(* Two's complement wrap-around of a product of durations.                 *)
Wrap(d) == ((d + DurationRange) % (2 * DurationRange)) - DurationRange

(* time.Time.Sub saturates instead of wrapping.                            *)
Sub(t, u) == IF t - u >= DurationRange THEN DurationRange - 1 ELSE t - u

MaxGap(cycleInterval) == Wrap(cycleInterval * staleCycleGapMultiplier)

MutantIsStaleNoOverflowGuard(current, cycleAt, cycleInterval) ==
  /\ current.LastCycleAt # ZeroTime
  /\ cycleInterval > 0
  /\ Sub(cycleAt, current.LastCycleAt) > MaxGap(cycleInterval)

IsStale(current, cycleAt, cycleInterval) ==
  /\ current.LastCycleAt # ZeroTime
  /\ cycleInterval > 0
  /\ MaxGap(cycleInterval) > 0
  /\ Sub(cycleAt, current.LastCycleAt) > MaxGap(cycleInterval)

ResetStaleConsecutiveState(current, cycleAt, cycleInterval) ==
  IF IsStale(current, cycleAt, cycleInterval)
  THEN [current EXCEPT !.ConsecutiveFailures = 0, !.ConsecutiveSuccesses = 0]
  ELSE current

-------------------------------------------------------------------------------
(* The threshold automaton. TransitionOf and ApplyCycleResult are the two  *)
(* results of the Go function applyCycleResult.                            *)

MutantTransitionOf(current, success, failureThreshold, successThreshold) ==
  CASE /\ success
       /\ current.Status = "failing"
       /\ current.ConsecutiveSuccesses + 1 >= successThreshold -> "recovery"
    [] /\ ~success
       /\ current.ConsecutiveFailures + 1 >= failureThreshold  -> "failure"
    [] OTHER -> "none"

TransitionOf(current, success, failureThreshold, successThreshold) ==
  CASE /\ success
       /\ current.Status = "failing"
       /\ current.ConsecutiveSuccesses + 1 >= successThreshold -> "recovery"
    [] /\ ~success
       /\ current.Status # "failing"
       /\ current.ConsecutiveFailures + 1 >= failureThreshold  -> "failure"
    [] OTHER -> "none"

AfterTransition(current, transition) ==
  [current EXCEPT !.Status = IF transition = "failure" THEN "failing" ELSE "healthy",
                  !.ConsecutiveFailures = 0,
                  !.ConsecutiveSuccesses = 0]

MutantCountResult(current, success) ==
  IF success
  THEN [current EXCEPT !.ConsecutiveSuccesses = IF current.Status = "failing" THEN @ + 1 ELSE 0]
  ELSE [current EXCEPT !.ConsecutiveSuccesses = 0, !.ConsecutiveFailures = @ + 1]

(* No threshold is crossed: one counter grows and the other is cleared.    *)
CountResult(current, success) ==
  IF success
  THEN [current EXCEPT !.ConsecutiveFailures = 0,
                       !.ConsecutiveSuccesses = IF current.Status = "failing" THEN @ + 1 ELSE 0]
  ELSE [current EXCEPT !.ConsecutiveSuccesses = 0, !.ConsecutiveFailures = @ + 1]

ApplyCycleResult(current, success, failureThreshold, successThreshold) ==
  LET transition == TransitionOf(current, success, failureThreshold, successThreshold)
  IN  IF transition = "none"
      THEN CountResult(current, success)
      ELSE AfterTransition(current, transition)
===============================================================================
