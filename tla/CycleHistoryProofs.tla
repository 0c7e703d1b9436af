-------------------------- MODULE CycleHistoryProofs --------------------------
(***************************************************************************)
(* The threshold automaton, proved for every width of a duration and every *)
(* interval, threshold and history of results: first the arithmetic of     *)
(* resetStaleConsecutiveState, what the guard against overflow of          *)
(* interval * 2 is for; then the automaton against the windows of its      *)
(* whole history.                                                          *)
(*                                                                         *)
(* The inductive invariant HistoryInv adds to StatusMatchesHistory what    *)
(* the counter of each status stands for (RunsCounted): the length of the  *)
(* run of results that could end it, which is shorter than the threshold.  *)
(***************************************************************************)
EXTENDS CycleHistory, SequenceTheorems, TLAPS

(* The only fact about % that is needed: a number below twice the modulus  *)
(* is reduced by subtracting the modulus at most once.                     *)
LEMMA ModOnce ==
  ASSUME NEW n \in Nat \ {0}, NEW a \in Nat, a < 2 * n
  PROVE  a % n = IF a < n THEN a ELSE a - n
OBVIOUS

(* Doubling a positive duration wraps around exactly when the double does  *)
(* not fit, and then the result is not positive.                           *)
LEMMA DoubledInterval ==
  ASSUME NEW i \in 1 .. DurationRange - 1
  PROVE  /\ 2 * i < DurationRange => MaxGap(i) = 2 * i
         /\ 2 * i >= DurationRange => MaxGap(i) <= 0
<1>1. DurationRange \in Nat \ {0}
  BY DurationAssumption
<1> DEFINE m == 2 * DurationRange
           a == 2 * i + DurationRange
<1>2. m \in Nat \ {0} /\ a \in Nat /\ a < 2 * m
  BY <1>1
<1>3. a % m = IF a < m THEN a ELSE a - m
  BY <1>2, ModOnce
<1>4. MaxGap(i) = (a % m) - DurationRange
  BY <1>1 DEF MaxGap, Wrap, staleCycleGapMultiplier
<1> QED
  BY <1>1, <1>3, <1>4

(* For every interval a flag can hold and any two times of completed       *)
(* checks, the counters are forgotten exactly when the interval is         *)
(* positive, its double is a duration, and the time between the checks is  *)
(* longer than two intervals: neither the wrap-around of interval * 2 nor  *)
(* the saturation of time.Sub ever decides.                                *)
THEOREM StaleMeansLongGap ==
  ASSUME NEW i \in -DurationRange .. DurationRange - 1,
         NEW t \in Nat, NEW st \in SpecStates, st.LastCycleAt \in 0 .. t
  PROVE  IsStale(st, t, i) <=> /\ i > 0
                               /\ 2 * i < DurationRange
                               /\ t - st.LastCycleAt > 2 * i
<1>1. /\ DurationRange \in Nat \ {0}
      /\ \E k \in Nat : DurationRange = 2 * k
  <2>1. DurationRange \in Nat \ {0} /\ DurationRange % 2 = 0
    BY DurationAssumption
  <2>2. DurationRange = 2 * (DurationRange \div 2) /\ DurationRange \div 2 \in Nat
    BY <2>1
  <2> QED
    BY <2>1, <2>2
<1>2. st.LastCycleAt # ZeroTime /\ t - st.LastCycleAt \in Nat
  BY DEF ZeroTime
<1>3. CASE i <= 0
  BY <1>1, <1>3 DEF IsStale
<1>4. CASE i > 0 /\ 2 * i >= DurationRange
  <2>1. MaxGap(i) <= 0 /\ MaxGap(i) \in Int
    BY <1>1, <1>4, DoubledInterval DEF MaxGap, Wrap, staleCycleGapMultiplier
  <2> QED
    BY <1>1, <1>4, <2>1 DEF IsStale
<1>5. CASE i > 0 /\ 2 * i < DurationRange
  <2>1. MaxGap(i) = 2 * i
    BY <1>1, <1>5, DoubledInterval
  <2>2. Sub(t, st.LastCycleAt) > 2 * i <=> t - st.LastCycleAt > 2 * i
    BY <1>1, <1>2, <1>5 DEF Sub
  <2> QED
    BY <1>2, <1>5, <2>1, <2>2 DEF IsStale
<1> QED
  BY <1>1, <1>3, <1>4, <1>5

-------------------------------------------------------------------------------
(* The automaton against the whole history of results (CycleHistory).      *)

HistoryTypeOK ==
  /\ interval \in -DurationRange .. DurationRange - 1
  /\ failureThreshold \in Nat \ {0} /\ successThreshold \in Nat \ {0}
  /\ now \in Nat
  /\ current \in SpecStates
  /\ history \in Seq([ok: BOOLEAN, gap: Nat])
  /\ current.LastCycleAt = IF history = <<>> THEN ZeroTime ELSE now

(* n results of this kind end the history unbroken, and not one more.      *)
RunIs(ok, n) ==
  WindowEnds(Len(history), ok, n) /\ ~WindowEnds(Len(history), ok, n + 1)

(* Each status counts the results that could end it: the counter is the    *)
(* length of the run, which is shorter than the threshold.                 *)
RunsCounted ==
  /\ current.Status = "healthy" => /\ current.ConsecutiveSuccesses = 0
                                   /\ current.ConsecutiveFailures < failureThreshold
                                   /\ RunIs(FALSE, current.ConsecutiveFailures)
  /\ current.Status = "failing" => /\ current.ConsecutiveSuccesses < successThreshold
                                   /\ RunIs(TRUE, current.ConsecutiveSuccesses)

HistoryInv == HistoryTypeOK /\ RunsCounted /\ StatusMatchesHistory

(* An empty history is in the invariant.                                   *)
LEMMA HistoryInit == Init => HistoryInv
<1> SUFFICES ASSUME Init PROVE HistoryInv
  OBVIOUS
<1>1. HistoryTypeOK
  <2>1. failureThreshold \in Nat \ {0} /\ successThreshold \in Nat \ {0}
    <3>1. \A v \in Thresholds : ThresholdOrDefault(v, 1) \in Nat \ {0}
      BY HistoryAssumption DEF ThresholdOrDefault
    <3> QED
      BY <3>1 DEF Init
  <2>2. current \in SpecStates /\ current.LastCycleAt = ZeroTime
    BY DEF Init, FreshState, SpecStates, Statuses, Times
  <2> QED
    BY <2>1, <2>2, HistoryAssumption DEF Init, HistoryTypeOK
<1>2. /\ Len(history) = 0 /\ history = <<>>
      /\ current.Status = "healthy"
      /\ current.ConsecutiveFailures = 0 /\ current.ConsecutiveSuccesses = 0
  BY DEF Init, FreshState
<1>3. RunsCounted
  BY <1>1, <1>2 DEF RunsCounted, RunIs, WindowEnds, HistoryTypeOK
<1>4. ~FailingAfter(0)
  BY <1>2 DEF FailingAfter, Fails
<1>5. StatusMatchesHistory
  BY <1>2, <1>4 DEF StatusMatchesHistory, Init
<1> QED
  BY <1>1, <1>3, <1>5 DEF HistoryInv

(* The fields of what the two branches of applyCycleResult return.         *)
LEMMA CountResultFields ==
  ASSUME NEW st \in SpecStates, NEW success \in BOOLEAN
  PROVE  LET counted == CountResult(st, success)
         IN  /\ counted \in SpecStates
             /\ counted.Status = st.Status
             /\ counted.ConsecutiveFailures = IF success THEN 0 ELSE st.ConsecutiveFailures + 1
             /\ counted.ConsecutiveSuccesses =
                  IF success /\ st.Status = "failing" THEN st.ConsecutiveSuccesses + 1 ELSE 0
<1> DEFINE Counts(m, n) == [Status |-> st.Status, ConsecutiveFailures |-> m,
                            ConsecutiveSuccesses |-> n,
                            LastCycleStartedAt |-> st.LastCycleStartedAt,
                            LastCycleAt |-> st.LastCycleAt]
<1>1. /\ st.Status \in Statuses /\ st.ConsecutiveFailures \in Nat /\ st.ConsecutiveSuccesses \in Nat
      /\ st.LastCycleStartedAt \in Times /\ st.LastCycleAt \in Times
      /\ st = Counts(st.ConsecutiveFailures, st.ConsecutiveSuccesses)
  BY DEF SpecStates
<1>2. \A m \in Nat, n \in Nat : Counts(m, n) \in SpecStates
  BY <1>1 DEF SpecStates
<1>3. CASE success /\ st.Status = "failing"
  <2>1. CountResult(st, success) = Counts(0, st.ConsecutiveSuccesses + 1)
    BY <1>1, <1>3 DEF CountResult
  <2>2. st.ConsecutiveSuccesses + 1 \in Nat
    BY <1>1
  <2>3. Counts(0, st.ConsecutiveSuccesses + 1) \in SpecStates
    BY <1>2, <2>2
  <2>4. /\ CountResult(st, success).Status = st.Status
        /\ CountResult(st, success).ConsecutiveFailures = 0
        /\ CountResult(st, success).ConsecutiveSuccesses = st.ConsecutiveSuccesses + 1
    BY <2>1
  <2> QED
    BY <1>3, <2>1, <2>3, <2>4, Zenon
<1>4. CASE success /\ st.Status # "failing"
  <2>1. CountResult(st, success) = Counts(0, 0)
    BY <1>1, <1>4 DEF CountResult
  <2>2. Counts(0, 0) \in SpecStates
    BY <1>2
  <2>3. /\ CountResult(st, success).Status = st.Status
        /\ CountResult(st, success).ConsecutiveFailures = 0
        /\ CountResult(st, success).ConsecutiveSuccesses = 0
    BY <2>1
  <2> QED
    BY <1>4, <2>1, <2>2, <2>3, Zenon
<1>5. CASE ~success
  <2>1. CountResult(st, success) = Counts(st.ConsecutiveFailures + 1, 0)
    BY <1>1, <1>5 DEF CountResult
  <2> QED
    BY <1>1, <1>2, <1>5, <2>1
<1> QED
  BY <1>3, <1>4, <1>5

(* What a transition leaves behind: the new status and no counts.          *)
LEMMA AfterTransitionFields ==
  ASSUME NEW st \in SpecStates, NEW tr
  PROVE  LET after == AfterTransition(st, tr)
         IN  /\ after \in SpecStates
             /\ after.Status = IF tr = "failure" THEN "failing" ELSE "healthy"
             /\ after.ConsecutiveFailures = 0 /\ after.ConsecutiveSuccesses = 0
BY DEF AfterTransition, SpecStates, Statuses

(* What the step sees of the previous result: the counters are forgotten   *)
(* exactly when the new gap is long.                                       *)
LEMMA HistoryStep ==
  ASSUME HistoryTypeOK,
         NEW success \in BOOLEAN, NEW gap \in Gaps, HandleCycleResult(success, gap),
         NEW n, n = Len(history)
  PROVE  /\ HistoryTypeOK'
         /\ n \in Nat /\ Len(history') = n + 1
         /\ \A i \in 1 .. n : history'[i] = history[i]
         /\ history'[n + 1] = [ok |-> success, gap |-> gap]
         /\ n > 0 => (LongGap(n + 1)' <=> IsStale(current, now + gap, interval))
         /\ n = 0 => ~IsStale(current, now + gap, interval)
<1>1. /\ n \in Nat /\ Len(history') = n + 1
      /\ \A i \in 1 .. n : history'[i] = history[i]
      /\ history'[n + 1] = [ok |-> success, gap |-> gap]
      /\ history' \in Seq([ok: BOOLEAN, gap: Nat])
      /\ history' # <<>>
  <2>1. gap \in Nat
    BY HistoryAssumption
  <2> QED
    BY <2>1 DEF HistoryTypeOK, HandleCycleResult
<1>2. now' = now + gap /\ now' \in Nat /\ gap \in Nat
  BY HistoryAssumption DEF HistoryTypeOK, HandleCycleResult
<1> DEFINE fresh == ResetStaleConsecutiveState(current, now + gap, interval)
           after == ApplyCycleResult(fresh, success, failureThreshold, successThreshold)
<1>3. fresh \in SpecStates
  BY DEF ResetStaleConsecutiveState, HistoryTypeOK, SpecStates
<1>4. after \in SpecStates
  BY <1>3, CountResultFields, AfterTransitionFields DEF ApplyCycleResult
<1>5. current' \in SpecStates /\ current'.LastCycleAt = now'
  BY <1>2, <1>4 DEF HandleCycleResult, SpecStates, Times
<1>6. HistoryTypeOK'
  BY <1>1, <1>2, <1>5 DEF HistoryTypeOK, HandleCycleResult, conf
<1>7. n > 0 => (LongGap(n + 1)' <=> IsStale(current, now + gap, interval))
  <2> SUFFICES ASSUME n > 0 PROVE LongGap(n + 1)' <=> IsStale(current, now + gap, interval)
    OBVIOUS
  <2>1. current.LastCycleAt = now /\ now \in Nat
    BY <1>1 DEF HistoryTypeOK
  <2>2. interval' = interval /\ interval \in -DurationRange .. DurationRange - 1 /\ interval \in Int
    BY DurationAssumption DEF HandleCycleResult, conf, HistoryTypeOK
  <2>3. IsStale(current, now + gap, interval) <=>
          /\ interval > 0 /\ 2 * interval < DurationRange
          /\ gap > 2 * interval
    <3> DEFINE t == now + gap
    <3>1. t \in Nat /\ current.LastCycleAt \in 0 .. t /\ current \in SpecStates
      BY <1>2, <2>1 DEF HistoryTypeOK
    <3>2. t - current.LastCycleAt = gap
      BY <1>2, <2>1
    <3> HIDE DEF t
    <3>3. IsStale(current, t, interval) <=>
            /\ interval > 0 /\ 2 * interval < DurationRange
            /\ t - current.LastCycleAt > 2 * interval
      BY <2>2, <3>1, StaleMeansLongGap
    <3> QED
      BY <3>2, <3>3 DEF t
  <2>4. history'[n + 1].gap = gap
    BY <1>1
  <2> QED
    BY <1>2, <2>1, <2>2, <2>3, <2>4 DEF LongGap
<1>8. n = 0 => ~IsStale(current, now + gap, interval)
  <2>1. n = 0 => history = <<>>
    <3>1. history \in Seq([ok: BOOLEAN, gap: Nat])
      BY DEF HistoryTypeOK
    <3> QED
      BY <3>1, EmptySeq
  <2> QED
    BY <2>1 DEF HistoryTypeOK, IsStale
<1> QED
  BY <1>1, <1>6, <1>7, <1>8

(* With m equal results at the end there are also k of them.               *)
LEMMA ShorterWindow ==
  ASSUME NEW i \in Nat, NEW ok, NEW m \in Nat, NEW k \in 0 .. m, WindowEnds(i, ok, m)
  PROVE  WindowEnds(i, ok, k)
BY DEF WindowEnds

(* A step leaves the windows of the past alone.                            *)
LEMMA OldWindow ==
  ASSUME HistoryTypeOK,
         NEW success \in BOOLEAN, NEW gap \in Gaps, HandleCycleResult(success, gap),
         NEW i \in 0 .. Len(history), NEW ok, NEW m \in Nat
  PROVE  WindowEnds(i, ok, m)' <=> WindowEnds(i, ok, m)
<1>1. Len(history) \in Nat /\ \A j \in 1 .. Len(history) : history'[j] = history[j]
  BY HistoryStep
<1>2. interval' = interval
  BY DEF HandleCycleResult, conf
<1>3. ASSUME i >= m, NEW j \in i - m + 1 .. i
      PROVE  j \in 1 .. Len(history)
  BY <1>1, <1>3
<1> QED
  BY <1>1, <1>2, <1>3 DEF WindowEnds, LongGap

(* A window that ends with the new result is a window that ended with the  *)
(* one before, continued over a gap that is not long.                      *)
LEMMA NewWindow ==
  ASSUME HistoryTypeOK,
         NEW success \in BOOLEAN, NEW gap \in Gaps, HandleCycleResult(success, gap),
         NEW n, n = Len(history), NEW ok, NEW m \in Nat
  PROVE  WindowEnds(n + 1, ok, m + 1)' <=>
           /\ success = ok
           /\ m > 0 => WindowEnds(n, ok, m) /\ ~LongGap(n + 1)'
<1>1. n \in Nat /\ history'[n + 1].ok = success
  <2>1. n \in Nat /\ history'[n + 1] = [ok |-> success, gap |-> gap]
    BY HistoryStep, Zenon
  <2> QED
    BY <2>1
<1>2. WindowEnds(n, ok, m)' <=> WindowEnds(n, ok, m)
  BY <1>1, OldWindow
<1>3. WindowEnds(n + 1, ok, m + 1)' <=>
        /\ n + 1 >= m + 1
        /\ \A j \in n - m + 1 .. n + 1 :
             /\ history'[j].ok = ok
             /\ j > n - m + 1 => ~LongGap(j)'
  BY <1>1 DEF WindowEnds
<1>4. WindowEnds(n, ok, m)' <=>
        /\ n >= m
        /\ \A j \in n - m + 1 .. n :
             /\ history'[j].ok = ok
             /\ j > n - m + 1 => ~LongGap(j)'
  BY <1>1 DEF WindowEnds
<1>5. \A j \in n - m + 1 .. n + 1 : j \in n - m + 1 .. n \/ j = n + 1
  BY <1>1
<1>6. CASE m = 0
  <2>1. \A j \in n - m + 1 .. n + 1 : j = n + 1 /\ ~(j > n - m + 1)
    BY <1>1, <1>6
  <2>2. n + 1 \in n - m + 1 .. n + 1 /\ n + 1 >= m + 1
    BY <1>1, <1>6
  <2> QED
    BY <1>1, <1>3, <1>6, <2>1, <2>2
<1>7. CASE m > 0
  <2>1. n + 1 \in n - m + 1 .. n + 1 /\ n + 1 > n - m + 1 /\ (n + 1 >= m + 1 <=> n >= m)
    BY <1>1, <1>7
  <2>2. \A j \in n - m + 1 .. n : j \in n - m + 1 .. n + 1
    BY <1>1
  <2> QED
    BY <1>1, <1>2, <1>3, <1>4, <1>5, <1>7, <2>1, <2>2
<1> QED
  BY <1>6, <1>7

(* A run is as long as its counter says: it has every shorter window and   *)
(* no longer one.                                                          *)
LEMMA RunLength ==
  ASSUME HistoryTypeOK, NEW ok, NEW c \in Nat, RunIs(ok, c), NEW m \in Nat
  PROVE  WindowEnds(Len(history), ok, m) <=> m <= c
<1>1. Len(history) \in Nat
  BY DEF HistoryTypeOK
<1>2. CASE m <= c
  <2>1. m \in 0 .. c /\ WindowEnds(Len(history), ok, c)
    BY <1>2 DEF RunIs
  <2> QED
    BY <1>1, <1>2, <2>1, ShorterWindow
<1>3. CASE m > c
  <2>1. c + 1 \in 0 .. m /\ ~WindowEnds(Len(history), ok, c + 1)
    BY <1>3 DEF RunIs
  <2>2. WindowEnds(Len(history), ok, m) => WindowEnds(Len(history), ok, c + 1)
    BY <1>1, <2>1, ShorterWindow
  <2> QED
    BY <1>3, <2>1, <2>2
<1> QED
  BY <1>2, <1>3

(* The run that ends with the new result.                                  *)
LEMMA NextRun ==
  ASSUME HistoryTypeOK,
         NEW success \in BOOLEAN, NEW gap \in Gaps, HandleCycleResult(success, gap),
         NEW n, n = Len(history), NEW ok, NEW c \in Nat, RunIs(ok, c),
         NEW kept, kept = IF IsStale(current, now + gap, interval) THEN 0 ELSE c
  PROVE  /\ \A m \in Nat \ {0} :
              WindowEnds(n + 1, ok, m)' <=> success = ok /\ m <= kept + 1
         /\ success = ok => RunIs(ok, kept + 1)'
<1>1. /\ n \in Nat /\ Len(history') = n + 1
      /\ n > 0 => (LongGap(n + 1)' <=> IsStale(current, now + gap, interval))
      /\ n = 0 => ~IsStale(current, now + gap, interval)
  BY HistoryStep
<1>2. kept \in Nat
  OBVIOUS
<1>3. ASSUME NEW m \in Nat
      PROVE  (m > 0 => WindowEnds(n, ok, m) /\ ~LongGap(n + 1)') <=> m <= kept
  <2>1. WindowEnds(n, ok, m) <=> m <= c
    BY RunLength
  <2>2. n = 0 => c = 0
    BY <1>1 DEF RunIs, WindowEnds
  <2> QED
    BY <1>1, <1>2, <2>1, <2>2
<1>4. ASSUME NEW m \in Nat \ {0}
      PROVE  WindowEnds(n + 1, ok, m)' <=> success = ok /\ m <= kept + 1
  <2> DEFINE k == m - 1
  <2>1. k \in Nat /\ k + 1 = m
    OBVIOUS
  <2> HIDE DEF k
  <2>2. WindowEnds(n + 1, ok, k + 1)' <=>
          success = ok /\ (k > 0 => WindowEnds(n, ok, k) /\ ~LongGap(n + 1)')
    BY <2>1, NewWindow
  <2>3. k <= kept <=> m <= kept + 1
    BY <1>2, <2>1
  <2> QED
    BY <1>3, <2>1, <2>2, <2>3
<1>5. success = ok => RunIs(ok, kept + 1)'
  <2> SUFFICES ASSUME success = ok
               PROVE  /\ WindowEnds(n + 1, ok, kept + 1)'
                      /\ ~WindowEnds(n + 1, ok, kept + 1 + 1)'
    BY <1>1 DEF RunIs
  <2>1. kept + 1 \in Nat \ {0} /\ kept + 1 + 1 \in Nat \ {0}
    BY <1>2
  <2> QED
    BY <1>2, <1>4, <2>1
<1> QED
  BY <1>4, <1>5

-------------------------------------------------------------------------------
(* Whether the last complete window was one of failures.                   *)

(* What the history says of the past does not change with a new result.    *)
LEMMA FailingAfterOld ==
  ASSUME HistoryTypeOK,
         NEW success \in BOOLEAN, NEW gap \in Gaps, HandleCycleResult(success, gap),
         NEW k \in 0 .. Len(history)
  PROVE  FailingAfter(k)' <=> FailingAfter(k)
<1>1. /\ Len(history) \in Nat /\ Len(history') = Len(history) + 1
      /\ history \in Seq([ok: BOOLEAN, gap: Nat]) /\ history' \in Seq([ok: BOOLEAN, gap: Nat])
  <2>1. HistoryTypeOK'
    BY HistoryStep
  <2>2. Len(history') = Len(history) + 1
    BY HistoryStep
  <2> QED
    BY <2>1, <2>2 DEF HistoryTypeOK
<1>2. /\ failureThreshold' = failureThreshold /\ successThreshold' = successThreshold
      /\ failureThreshold \in Nat /\ successThreshold \in Nat
  BY DEF HistoryTypeOK, HandleCycleResult, conf
<1>3. ASSUME NEW i, i <= k
      PROVE  /\ i \in Fails' <=> i \in Fails
             /\ i \in Recoveries' <=> i \in Recoveries
  <2>1. DOMAIN history = 1 .. Len(history) /\ DOMAIN history' = 1 .. Len(history) + 1
    BY <1>1
  <2>2. (i \in DOMAIN history' <=> i \in DOMAIN history) /\ (i \in DOMAIN history => i \in 0 .. Len(history))
    BY <1>1, <1>3, <2>1
  <2>3. ASSUME i \in DOMAIN history, NEW ok, NEW m \in Nat
        PROVE  WindowEnds(i, ok, m)' <=> WindowEnds(i, ok, m)
    BY <2>2, <2>3, OldWindow
  <2>4. /\ i \in Fails <=> i \in DOMAIN history /\ WindowEnds(i, FALSE, failureThreshold)
        /\ i \in Recoveries <=> i \in DOMAIN history /\ WindowEnds(i, TRUE, successThreshold)
    BY DEF Fails, Recoveries
  <2>5. /\ i \in Fails' <=> i \in DOMAIN history' /\ WindowEnds(i, FALSE, failureThreshold)'
        /\ i \in Recoveries' <=> i \in DOMAIN history' /\ WindowEnds(i, TRUE, successThreshold)'
    BY DEF Fails, Recoveries
  <2> QED
    BY <1>2, <2>2, <2>3, <2>4, <2>5
<1> QED
  BY <1>3 DEF FailingAfter

(* A new result can only end a window of its own kind, and so changes the  *)
(* status one way only.                                                    *)
LEMMA FailingAfterNew ==
  ASSUME HistoryTypeOK,
         NEW success \in BOOLEAN, NEW gap \in Gaps, HandleCycleResult(success, gap),
         NEW n, n = Len(history),
         NEW fails \in BOOLEAN, fails <=> WindowEnds(n + 1, FALSE, failureThreshold)',
         NEW recovers \in BOOLEAN, recovers <=> WindowEnds(n + 1, TRUE, successThreshold)'
  PROVE  /\ fails => ~success
         /\ recovers => success
         /\ FailingAfter(n + 1)' <=> fails \/ (FailingAfter(n) /\ ~recovers)
<1>1. /\ n \in Nat /\ HistoryTypeOK' /\ Len(history') = n + 1
      /\ failureThreshold' = failureThreshold /\ successThreshold' = successThreshold
      /\ failureThreshold \in Nat \ {0} /\ successThreshold \in Nat \ {0}
  BY HistoryStep DEF HistoryTypeOK, HandleCycleResult, conf
<1>2. (fails => ~success) /\ (recovers => success)
  <2>1. ASSUME NEW ok \in BOOLEAN, NEW m \in Nat \ {0}, WindowEnds(n + 1, ok, m)'
        PROVE  success = ok
    <3> DEFINE k == m - 1
    <3>1. k \in Nat /\ k + 1 = m
      OBVIOUS
    <3> HIDE DEF k
    <3> QED
      BY <2>1, <3>1, NewWindow
  <2> QED
    BY <1>1, <2>1
<1>3. DOMAIN history' = 1 .. n + 1
  BY <1>1 DEF HistoryTypeOK
<1>4. n + 1 \in DOMAIN history'
  BY <1>1, <1>3
<1>5. (n + 1 \in Fails' <=> fails) /\ (n + 1 \in Recoveries' <=> recovers)
  BY <1>4 DEF Fails, Recoveries
<1>6. /\ \A i \in Fails' : i \in 1 .. n + 1
      /\ \A i \in Recoveries' : i \in 1 .. n + 1
  BY <1>3 DEF Fails, Recoveries
<1>7. FailingAfter(n)' <=> FailingAfter(n)
  BY <1>1, FailingAfterOld
<1>8. /\ FailingAfter(n)' <=> \E i \in Fails' : i <= n /\ \A j \in Recoveries' : j <= n => j < i
      /\ FailingAfter(n + 1)' <=>
           \E i \in Fails' : i <= n + 1 /\ \A j \in Recoveries' : j <= n + 1 => j < i
  BY DEF FailingAfter
<1>9. CASE fails
  <2>1. \A j \in Recoveries' : j <= n + 1 => j < n + 1
    BY <1>1, <1>2, <1>5, <1>6, <1>9
  <2> QED
    BY <1>1, <1>2, <1>5, <1>8, <1>9, <2>1
<1>10. CASE recovers
  <2>1. \A i \in Fails' : ~(n + 1 < i)
    BY <1>1, <1>6
  <2> QED
    BY <1>1, <1>2, <1>5, <1>8, <1>10, <2>1
<1>11. CASE ~fails /\ ~recovers
  <2>1. /\ \A i \in Fails' : i <= n /\ i <= n + 1
        /\ \A i \in Recoveries' : i <= n /\ i <= n + 1
    BY <1>1, <1>5, <1>6, <1>11
  <2> QED
    BY <1>2, <1>7, <1>8, <1>11, <2>1
<1> QED
  BY <1>9, <1>10, <1>11

-------------------------------------------------------------------------------
(* One result: the automaton and the history move together.                *)

(* A result changes status and counters as the history says, and reports a *)
(* transition exactly if the status changes.                               *)
LEMMA ResultStep ==
  ASSUME HistoryInv,
         NEW success \in BOOLEAN, NEW gap \in Gaps, HandleCycleResult(success, gap),
         NEW n, n = Len(history)
  PROVE  /\ RunsCounted'
         /\ (current.Status = "failing")' <=> FailingAfter(n + 1)'
         /\ transition' = IF current'.Status = current.Status THEN "none"
                          ELSE IF current'.Status = "failing" THEN "failure" ELSE "recovery"
<1> DEFINE stale == IsStale(current, now + gap, interval)
           kept(c) == IF stale THEN 0 ELSE c
           fresh == ResetStaleConsecutiveState(current, now + gap, interval)
           failures == current.ConsecutiveFailures
           successes == current.ConsecutiveSuccesses
<1>1. /\ HistoryTypeOK /\ RunsCounted /\ HistoryTypeOK'
      /\ n \in Nat /\ Len(history') = n + 1
      /\ failureThreshold' = failureThreshold /\ successThreshold' = successThreshold
      /\ failureThreshold \in Nat \ {0} /\ successThreshold \in Nat \ {0}
      /\ current.Status \in {"healthy", "failing"}
      /\ failures \in Nat /\ successes \in Nat
  BY HistoryStep DEF HistoryInv, HistoryTypeOK, HandleCycleResult, conf, SpecStates, Statuses
<1>2. /\ fresh \in SpecStates
      /\ fresh.Status = current.Status
      /\ fresh.ConsecutiveFailures = kept(failures)
      /\ fresh.ConsecutiveSuccesses = kept(successes)
  BY <1>1 DEF ResetStaleConsecutiveState, HistoryTypeOK, SpecStates
<1>3. current.Status = "failing" <=> FailingAfter(n)
  BY DEF HistoryInv, StatusMatchesHistory
<1> DEFINE after == ApplyCycleResult(fresh, success, failureThreshold, successThreshold)
           tr == TransitionOf(fresh, success, failureThreshold, successThreshold)
<1> HIDE DEF fresh
<1>4. /\ after = IF tr = "none" THEN CountResult(fresh, success) ELSE AfterTransition(fresh, tr)
      /\ transition' = tr
  BY DEF ApplyCycleResult, HandleCycleResult, fresh
<1>5. after \in SpecStates
  BY <1>2, <1>4, CountResultFields, AfterTransitionFields
<1>6. /\ current'.Status = after.Status
      /\ current'.ConsecutiveFailures = after.ConsecutiveFailures
      /\ current'.ConsecutiveSuccesses = after.ConsecutiveSuccesses
  BY <1>5 DEF HandleCycleResult, SpecStates, fresh
<1> HIDE DEF after
<1>7. PICK fails \in BOOLEAN : fails <=> WindowEnds(n + 1, FALSE, failureThreshold)'
  OBVIOUS
<1>8. PICK recovers \in BOOLEAN : recovers <=> WindowEnds(n + 1, TRUE, successThreshold)'
  OBVIOUS
<1>9. /\ fails => ~success
      /\ recovers => success
      /\ FailingAfter(n + 1)' <=> fails \/ (FailingAfter(n) /\ ~recovers)
  BY <1>1, <1>7, <1>8, FailingAfterNew
(* A run that the new result breaks.                                       *)
<1>10. ASSUME NEW ok \in BOOLEAN, success # ok
       PROVE  RunIs(ok, 0)'
  <2>1. WindowEnds(n + 1, ok, 0)'
    BY <1>1 DEF WindowEnds
  <2>2. ~WindowEnds(n + 1, ok, 0 + 1)'
    BY <1>1, <1>10, NewWindow
  <2> QED
    BY <1>1, <2>1, <2>2 DEF RunIs
(* A run that it may continue.                                             *)
<1>11. ASSUME NEW ok \in BOOLEAN, NEW c \in Nat, RunIs(ok, c), NEW d \in Nat, d = kept(c)
       PROVE  /\ \A m \in Nat \ {0} :
                   WindowEnds(n + 1, ok, m)' <=> success = ok /\ m <= d + 1
              /\ success = ok => RunIs(ok, d + 1)'
  BY <1>1, <1>11, NextRun
<1>12. CASE current.Status = "healthy"
  <2>1. successes = 0 /\ RunIs(FALSE, failures) /\ ~FailingAfter(n)
    BY <1>1, <1>3, <1>12 DEF RunsCounted
  <2>2. PICK c \in Nat : c = failures
    BY <1>1
  <2>3. PICK d \in Nat : d = kept(c)
    OBVIOUS
  <2>4. d <= c /\ fresh.ConsecutiveFailures = d
    BY <1>2, <2>2, <2>3
  <2>5. RunIs(FALSE, c)
    BY <2>1, <2>2
  <2>6. /\ \A m \in Nat \ {0} :
             WindowEnds(n + 1, FALSE, m)' <=> success = FALSE /\ m <= d + 1
        /\ success = FALSE => RunIs(FALSE, d + 1)'
    BY <1>11, <2>3, <2>5, Zenon
  <2>7. WindowEnds(n + 1, FALSE, failureThreshold)' <=> success = FALSE /\ failureThreshold <= d + 1
    BY <1>1, <2>6
  <2>8. fails <=> ~success /\ failureThreshold <= d + 1
    BY <1>7, <2>7, Zenon
  <2>9. CASE success
    <3>1. tr = "none"
      BY <1>2, <1>12, <2>9 DEF TransitionOf
    <3>2. /\ current'.Status = "healthy"
          /\ current'.ConsecutiveFailures \in Nat
          /\ current'.ConsecutiveFailures = 0 /\ current'.ConsecutiveSuccesses = 0
      BY <1>1, <1>2, <1>4, <1>6, <1>12, <2>9, <3>1, CountResultFields DEF HistoryTypeOK, SpecStates
    <3>3. RunIs(FALSE, 0)'
      BY <1>10, <2>9, Zenon
    <3>4. RunsCounted'
      <4>1. RunIs(FALSE, current.ConsecutiveFailures)'
        BY <3>2, <3>3
      <4>2. current'.ConsecutiveFailures < failureThreshold'
        BY <1>1, <3>2
      <4> QED
        BY <3>2, <4>1, <4>2 DEF RunsCounted
    <3> QED
      BY <1>4, <1>9, <1>12, <2>1, <2>8, <2>9, <3>1, <3>2, <3>4
  <2>10. CASE ~success /\ failureThreshold <= d + 1
    <3>1. tr = "failure"
      BY <1>1, <1>2, <1>12, <2>4, <2>10 DEF TransitionOf
    <3>2. current'.Status = "failing" /\ current'.ConsecutiveFailures = 0 /\ current'.ConsecutiveSuccesses = 0
      BY <1>2, <1>4, <1>6, <3>1, AfterTransitionFields
    <3>3. RunIs(TRUE, 0)'
      BY <1>10, <2>10, Zenon
    <3>4. RunsCounted'
      <4>1. RunIs(TRUE, current.ConsecutiveSuccesses)'
        BY <3>2, <3>3
      <4>2. current'.ConsecutiveSuccesses < successThreshold'
        BY <1>1, <3>2
      <4> QED
        BY <3>2, <4>1, <4>2 DEF RunsCounted
    <3> QED
      BY <1>4, <1>9, <1>12, <2>1, <2>8, <2>10, <3>1, <3>2, <3>4
  <2>11. CASE ~success /\ ~(failureThreshold <= d + 1)
    <3>1. tr = "none"
      BY <1>1, <1>2, <1>12, <2>4, <2>11 DEF TransitionOf
    <3>2. after = CountResult(fresh, success)
      BY <1>4, <3>1
    <3>3. /\ current'.Status = "healthy"
          /\ current'.ConsecutiveFailures = d + 1
          /\ current'.ConsecutiveSuccesses = 0
      <4>1. /\ after.Status = "healthy"
            /\ after.ConsecutiveFailures = d + 1
            /\ after.ConsecutiveSuccesses = 0
        BY <1>2, <1>12, <2>4, <2>11, <3>2, CountResultFields
      <4> QED
        BY <1>6, <4>1, Zenon
    <3>4. RunIs(FALSE, d + 1)'
      BY <2>6, <2>11, Zenon
    <3>5. RunsCounted'
      <4>1. RunIs(FALSE, current.ConsecutiveFailures)'
        BY <3>3, <3>4
      <4>2. current'.ConsecutiveFailures < failureThreshold'
        BY <1>1, <2>11, <3>3
      <4> QED
        BY <3>3, <4>1, <4>2 DEF RunsCounted
    <3> QED
      BY <1>4, <1>9, <1>12, <2>1, <2>8, <2>11, <3>1, <3>3, <3>5
  <2> QED
    BY <2>9, <2>10, <2>11
<1>13. CASE current.Status = "failing"
  <2>1. RunIs(TRUE, successes) /\ FailingAfter(n)
    BY <1>1, <1>3, <1>13 DEF RunsCounted
  <2>2. PICK c \in Nat : c = successes
    BY <1>1
  <2>3. PICK d \in Nat : d = kept(c)
    OBVIOUS
  <2>4. d <= c /\ fresh.ConsecutiveSuccesses = d
    BY <1>2, <2>2, <2>3
  <2>5. RunIs(TRUE, c)
    BY <2>1, <2>2
  <2>6. /\ \A m \in Nat \ {0} :
             WindowEnds(n + 1, TRUE, m)' <=> success = TRUE /\ m <= d + 1
        /\ success = TRUE => RunIs(TRUE, d + 1)'
    BY <1>11, <2>3, <2>5, Zenon
  <2>7. WindowEnds(n + 1, TRUE, successThreshold)' <=> success = TRUE /\ successThreshold <= d + 1
    BY <1>1, <2>6
  <2>8. recovers <=> success /\ successThreshold <= d + 1
    BY <1>8, <2>7, Zenon
  <2>9. CASE ~success
    <3>1. tr = "none"
      BY <1>2, <1>13, <2>9 DEF TransitionOf
    <3>2. /\ current'.Status = "failing"
          /\ current'.ConsecutiveFailures \in Nat
          /\ current'.ConsecutiveSuccesses = 0 /\ current'.ConsecutiveSuccesses = 0
      BY <1>1, <1>2, <1>4, <1>6, <1>13, <2>9, <3>1, CountResultFields DEF HistoryTypeOK, SpecStates
    <3>3. RunIs(TRUE, 0)'
      BY <1>10, <2>9, Zenon
    <3>4. RunsCounted'
      <4>1. RunIs(TRUE, current.ConsecutiveSuccesses)'
        BY <3>2, <3>3
      <4>2. current'.ConsecutiveSuccesses < successThreshold'
        BY <1>1, <3>2
      <4> QED
        BY <3>2, <4>1, <4>2 DEF RunsCounted
    <3> QED
      BY <1>4, <1>9, <1>13, <2>1, <2>8, <2>9, <3>1, <3>2, <3>4
  <2>10. CASE success /\ successThreshold <= d + 1
    <3>1. tr = "recovery"
      BY <1>1, <1>2, <1>13, <2>4, <2>10 DEF TransitionOf
    <3>2. current'.Status = "healthy" /\ current'.ConsecutiveFailures = 0 /\ current'.ConsecutiveSuccesses = 0
      BY <1>2, <1>4, <1>6, <3>1, AfterTransitionFields
    <3>3. RunIs(FALSE, 0)'
      BY <1>10, <2>10, Zenon
    <3>4. RunsCounted'
      <4>1. RunIs(FALSE, current.ConsecutiveFailures)'
        BY <3>2, <3>3
      <4>2. current'.ConsecutiveFailures < failureThreshold'
        BY <1>1, <3>2
      <4> QED
        BY <3>2, <4>1, <4>2 DEF RunsCounted
    <3> QED
      BY <1>4, <1>9, <1>13, <2>1, <2>8, <2>10, <3>1, <3>2, <3>4
  <2>11. CASE success /\ ~(successThreshold <= d + 1)
    <3>1. tr = "none"
      BY <1>1, <1>2, <1>13, <2>4, <2>11 DEF TransitionOf
    <3>2. after = CountResult(fresh, success)
      BY <1>4, <3>1
    <3>3. /\ current'.Status = "failing"
          /\ current'.ConsecutiveSuccesses = d + 1
          /\ current'.ConsecutiveFailures = 0
      <4>1. /\ after.Status = "failing"
            /\ after.ConsecutiveSuccesses = d + 1
            /\ after.ConsecutiveFailures = 0
        BY <1>2, <1>13, <2>4, <2>11, <3>2, CountResultFields
      <4> QED
        BY <1>6, <4>1, Zenon
    <3>4. RunIs(TRUE, d + 1)'
      BY <2>6, <2>11, Zenon
    <3>5. RunsCounted'
      <4>1. RunIs(TRUE, current.ConsecutiveSuccesses)'
        BY <3>3, <3>4
      <4>2. current'.ConsecutiveSuccesses < successThreshold'
        BY <1>1, <2>11, <3>3
      <4> QED
        BY <3>3, <4>1, <4>2 DEF RunsCounted
    <3> QED
      BY <1>4, <1>9, <1>13, <2>1, <2>8, <2>11, <3>1, <3>3, <3>5
  <2> QED
    BY <2>9, <2>10, <2>11
<1> QED
  BY <1>1, <1>12, <1>13

(* Every step keeps the invariant.                                         *)
LEMMA HistoryInvStep == HistoryInv /\ [Next]_vars => HistoryInv'
<1> SUFFICES ASSUME HistoryInv, [Next]_vars PROVE HistoryInv'
  OBVIOUS
<1>1. CASE Next
  <2>1. PICK success \in BOOLEAN, gap \in Gaps : HandleCycleResult(success, gap)
    BY <1>1 DEF Next
  <2>2. PICK n : n = Len(history)
    OBVIOUS
  <2>3. HistoryTypeOK /\ current.Status \in {"healthy", "failing"}
    BY DEF HistoryInv, HistoryTypeOK, SpecStates, Statuses
  <2>4. HistoryTypeOK' /\ n \in Nat /\ Len(history') = n + 1
    BY <2>1, <2>2, <2>3, HistoryStep
  <2>5. /\ RunsCounted'
        /\ (current.Status = "failing")' <=> FailingAfter(n + 1)'
        /\ transition' = IF current'.Status = current.Status THEN "none"
                         ELSE IF current'.Status = "failing" THEN "failure" ELSE "recovery"
    BY <2>1, <2>2, ResultStep
  <2>6. current.Status = "failing" <=> FailingAfter(n)
    BY <2>2 DEF HistoryInv, StatusMatchesHistory
  <2>7. FailingAfter(n)' <=> FailingAfter(n)
    <3>1. n \in 0 .. Len(history)
      BY <2>2, <2>4
    <3> QED
      BY <2>1, <2>3, <3>1, FailingAfterOld
  <2>8. current'.Status \in {"healthy", "failing"}
    BY <2>4 DEF HistoryTypeOK, SpecStates, Statuses
  <2>9. transition' = CASE n + 1 = 0 \/ (FailingAfter(n + 1)' <=> FailingAfter(n)') -> "none"
                        [] n + 1 > 0 /\ FailingAfter(n + 1)' /\ ~FailingAfter(n)' -> "failure"
                        [] OTHER -> "recovery"
    <3>1. n + 1 # 0 /\ n + 1 > 0
      BY <2>4
    <3>2. CASE current'.Status = current.Status
      BY <2>5, <2>6, <2>7, <3>1, <3>2
    <3>3. CASE current'.Status # current.Status /\ current'.Status = "failing"
      BY <2>3, <2>5, <2>6, <2>7, <3>1, <3>3
    <3>4. CASE current'.Status # current.Status /\ current'.Status # "failing"
      BY <2>3, <2>5, <2>6, <2>7, <2>8, <3>1, <3>4
    <3> QED
      BY <3>2, <3>3, <3>4
  <2>10. StatusMatchesHistory'
    <3>1. n + 1 - 1 = n
      BY <2>4
    <3> QED
      BY <2>4, <2>5, <2>9, <3>1 DEF StatusMatchesHistory
  <2> QED
    BY <2>4, <2>5, <2>10 DEF HistoryInv
<1>2. CASE UNCHANGED vars
  BY <1>2 DEF vars, HistoryInv, HistoryTypeOK, RunsCounted, RunIs, StatusMatchesHistory,
              FailingAfter, Fails, Recoveries, WindowEnds, LongGap
<1> QED
  BY <1>1, <1>2

(* The automaton agrees with its whole history, however long it is.        *)
LEMMA HistoryInvariance == Spec => []HistoryInv
BY HistoryInit, HistoryInvStep, PTL DEF Spec

(* After any sequence of results, with any gaps, thresholds and interval,  *)
(* the status and the transition reported last are those that the windows  *)
(* of the whole history give (applyCycleResult, runner.go).                *)
THEOREM StatusMatches == Spec => []StatusMatchesHistory
<1>1. HistoryInv => StatusMatchesHistory
  BY DEF HistoryInv
<1> QED
  BY <1>1, HistoryInvariance, PTL

(* The counters are the length of the unbroken run of results that could   *)
(* change the status (applyCycleResult, resetStaleConsecutiveState).       *)
THEOREM CountersMatch == Spec => []CountersMatchHistory
<1>1. HistoryInv => CountersMatchHistory
  <2> SUFFICES ASSUME HistoryInv PROVE CountersMatchHistory
    OBVIOUS
  <2> DEFINE Run(ok) == {n \in 1 .. Len(history) : WindowEnds(Len(history), ok, n)}
             Longest(ok) == IF Run(ok) = {} THEN 0
                            ELSE CHOOSE n \in Run(ok) : \A m \in Run(ok) : m <= n
  <2>1. HistoryTypeOK /\ RunsCounted /\ Len(history) \in Nat
    BY DEF HistoryInv, HistoryTypeOK
  <2>2. ASSUME NEW ok, NEW c \in Nat, RunIs(ok, c)
        PROVE  Longest(ok) = c
    <3>1. \A m \in Nat : WindowEnds(Len(history), ok, m) <=> m <= c
      BY <2>1, <2>2, RunLength
    <3>2. c <= Len(history)
      BY <2>1, <2>2 DEF RunIs, WindowEnds
    <3>3. Run(ok) = 1 .. c
      BY <2>1, <3>1, <3>2
    <3>4. CASE c = 0
      BY <3>3, <3>4
    <3>5. CASE c # 0
      <4>1. c \in Run(ok) /\ \A m \in Run(ok) : m <= c
        BY <3>3, <3>5
      <4>2. \A n \in Run(ok) : (\A m \in Run(ok) : m <= n) => n = c
        BY <3>3, <4>1
      <4> QED
        BY <4>1, <4>2
    <3> QED
      BY <3>4, <3>5
  <2>3. current.ConsecutiveFailures \in Nat /\ current.ConsecutiveSuccesses \in Nat
    BY <2>1 DEF HistoryTypeOK, SpecStates
  <2> HIDE DEF Longest
  <2>4. CountersMatchHistory <=>
          /\ current.Status = "healthy" => /\ current.ConsecutiveFailures = Longest(FALSE)
                                           /\ current.ConsecutiveSuccesses = 0
          /\ current.Status = "failing" => current.ConsecutiveSuccesses = Longest(TRUE)
    BY DEF CountersMatchHistory, Longest
  <2> QED
    BY <2>1, <2>2, <2>3, <2>4 DEF RunsCounted
<1> QED
  BY <1>1, HistoryInvariance, PTL
===============================================================================
