----------------------------- MODULE CycleHistory -----------------------------
(***************************************************************************)
(* One spec fed with check results: the counters of applyCycleResult and   *)
(* resetStaleConsecutiveState against what the whole history of results    *)
(* says. The history is kept as the sequence of results with the time      *)
(* since the previous one; the thresholds and the cycle interval are       *)
(* chosen once.                                                            *)
(***************************************************************************)
EXTENDS CycleState, Sequences

CONSTANTS Intervals,    \* values of --cycle-interval, positive or not
          Thresholds,   \* values of cycles.failure and cycles.success
          Gaps,         \* bound: times between two completed checks
          MaxResults    \* bound: length of the history

(* Flags hold durations, thresholds are integers, and the clock between    *)
(* two results of a spec does not run backwards.                           *)
ASSUME HistoryAssumption ==
  /\ Intervals \subseteq -DurationRange .. DurationRange - 1
  /\ Thresholds \subseteq Int
  /\ Gaps \subseteq Nat

VARIABLES interval, failureThreshold, successThreshold,
          now, current, transition, history

conf == <<interval, failureThreshold, successThreshold>>
vars == <<interval, failureThreshold, successThreshold, now, current, transition, history>>

Init ==
  /\ interval \in Intervals
  /\ failureThreshold \in {ThresholdOrDefault(v, 1) : v \in Thresholds}
  /\ successThreshold \in {ThresholdOrDefault(v, 1) : v \in Thresholds}
  /\ now = 0
  /\ current = FreshState
  /\ transition = "none"
  /\ history = <<>>

(* handleCycleResult, gap after the previous result.                       *)
HandleCycleResult(success, gap) ==
  LET fresh == ResetStaleConsecutiveState(current, now + gap, interval)
  IN  /\ Len(history) < MaxResults
      /\ now' = now + gap
      /\ transition' = TransitionOf(fresh, success, failureThreshold, successThreshold)
      /\ current' = [ApplyCycleResult(fresh, success, failureThreshold, successThreshold)
                       EXCEPT !.LastCycleStartedAt = now + gap, !.LastCycleAt = now + gap]
      /\ history' = Append(history, [ok |-> success, gap |-> gap])
      /\ UNCHANGED conf

Next == \E success \in BOOLEAN, gap \in Gaps : HandleCycleResult(success, gap)

Spec == Init /\ [][Next]_vars

-------------------------------------------------------------------------------
(* The reference: windows of the history.                                  *)

(* The gap before result i is longer than two intervals, as integers. An   *)
(* interval whose double is not a duration never makes a gap long.         *)
LongGap(i) ==
  /\ 0 < interval /\ 2 * interval < DurationRange
  /\ history[i].gap > 2 * interval

(* Results i - n + 1 .. i exist, are all equal to ok, and have no long gap *)
(* between them.                                                           *)
WindowEnds(i, ok, n) ==
  /\ i >= n
  /\ \A j \in i - n + 1 .. i :
       /\ history[j].ok = ok
       /\ j > i - n + 1 => ~LongGap(j)

Fails      == {i \in DOMAIN history : WindowEnds(i, FALSE, failureThreshold)}
Recoveries == {i \in DOMAIN history : WindowEnds(i, TRUE, successThreshold)}

FailingAfter(n) == \E i \in Fails : i <= n /\ \A j \in Recoveries : j <= n => j < i

(* The status of the spec after any history is the one that the windows of *)
(* its history give: the last complete run of failures or of successes     *)
(* that was not broken by a long gap decides, and its last result reports  *)
(* the transition this makes, if any. Overflow of interval * 2, saturation *)
(* of time.Sub and non-positive intervals are covered.                     *)
StatusMatchesHistory ==
  LET n == Len(history)
  IN  /\ (current.Status = "failing") <=> FailingAfter(n)
      /\ transition = CASE n = 0 \/ (FailingAfter(n) <=> FailingAfter(n - 1)) -> "none"
                        [] n > 0 /\ FailingAfter(n) /\ ~FailingAfter(n - 1) -> "failure"
                        [] OTHER -> "recovery"

(* The counters are the length of the current unbroken run of results, for *)
(* as long as it is too short for a transition.                            *)
CountersMatchHistory ==
  LET Run(ok) == {n \in 1 .. Len(history) : WindowEnds(Len(history), ok, n)}
      Longest(ok) == IF Run(ok) = {} THEN 0 ELSE CHOOSE n \in Run(ok) : \A m \in Run(ok) : m <= n
  IN  /\ current.Status = "healthy" => /\ current.ConsecutiveFailures = Longest(FALSE)
                                       /\ current.ConsecutiveSuccesses = 0
      /\ current.Status = "failing" => current.ConsecutiveSuccesses = Longest(TRUE)

===============================================================================
