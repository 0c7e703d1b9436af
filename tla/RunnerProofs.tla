----------------------------- MODULE RunnerProofs -----------------------------
(***************************************************************************)
(* What the runs of MCRunner check on small instances, proved for any      *)
(* specs, thresholds, intervals, jitter and any interleaving.              *)
(*                                                                         *)
(* The inductive invariant IInv adds three facts to the properties: only a *)
(* waiting runCycle has goroutines (Idle), no two of them work on the same *)
(* spec (OneEach), and each goroutine's locals fit the clock and the entry *)
(* it has written (WorkerOK). A step of a goroutine is safe because        *)
(* OneEach and NoLostUpdate make the entry it writes back the current one. *)
(*                                                                         *)
(* The last part is about real time: with Timely's bounds on what a cycle  *)
(* takes, TimedInv adds to IInv where the clock is in a cycle, and no run  *)
(* of results is ever forgotten.                                           *)
(***************************************************************************)
EXTENDS Runner, TLAPS

(* Thresholds are at least one, whatever the spec file says.               *)
LEMMA ThresholdType ==
  ASSUME NEW s \in Specs
  PROVE  /\ FailureThreshold(s) \in Nat \ {0}
         /\ SuccessThreshold(s) \in Nat \ {0}
BY RunnerAssumption DEF SpecConf, FailureThreshold, SuccessThreshold, ThresholdOrDefault

(* The state of a spec without an entry is a state.                        *)
LEMMA FreshStateType == FreshState \in SpecStates
BY DEF FreshState, SpecStates, Statuses, Times, ZeroTime

(* What Get returns for a spec, entry or not.                              *)
LEMMA GetType ==
  ASSUME TypeOK, NEW s \in Specs
  PROVE  Get(s) \in SpecStates
BY FreshStateType DEF TypeOK, Get

(* What Set does, seen through Get.                                        *)
LEMMA SetEntry ==
  ASSUME TypeOK, NEW s \in Specs, NEW st \in SpecStates, Set(s, st)
  PROVE  /\ DOMAIN store' \subseteq Specs
         /\ store' \in [DOMAIN store' -> SpecStates]
         /\ \A t \in Specs : Get(t)' = IF t = s THEN st ELSE Get(t)
BY DEF TypeOK, Get, Set

(* A state with other counters is a state.                                 *)
LEMMA CountersType ==
  ASSUME NEW st \in SpecStates, NEW m \in Nat, NEW n \in Nat
  PROVE  /\ [st EXCEPT !.ConsecutiveFailures = m, !.ConsecutiveSuccesses = n] \in SpecStates
         /\ [st EXCEPT !.ConsecutiveSuccesses = n, !.ConsecutiveFailures = m] \in SpecStates
BY DEF SpecStates

(* Forgetting stale counters keeps the status and never raises a counter.  *)
LEMMA ResetType ==
  ASSUME NEW st \in SpecStates, NEW t, NEW i
  PROVE  /\ ResetStaleConsecutiveState(st, t, i) \in SpecStates
         /\ ResetStaleConsecutiveState(st, t, i).Status = st.Status
         /\ ResetStaleConsecutiveState(st, t, i).ConsecutiveFailures <= st.ConsecutiveFailures
         /\ ResetStaleConsecutiveState(st, t, i).ConsecutiveSuccesses <= st.ConsecutiveSuccesses
<1>1. CASE IsStale(st, t, i)
  <2> DEFINE r == [st EXCEPT !.ConsecutiveFailures = 0, !.ConsecutiveSuccesses = 0]
  <2>1. ResetStaleConsecutiveState(st, t, i) = r
    BY <1>1 DEF ResetStaleConsecutiveState
  <2>2. r \in SpecStates /\ r.Status = st.Status
    BY DEF SpecStates
  <2>3. r.ConsecutiveFailures <= st.ConsecutiveFailures
    BY DEF SpecStates
  <2>4. r.ConsecutiveSuccesses <= st.ConsecutiveSuccesses
    BY DEF SpecStates
  <2> QED
    BY <2>1, <2>2, <2>3, <2>4
<1>2. CASE ~IsStale(st, t, i)
  <2>1. ResetStaleConsecutiveState(st, t, i) = st
    BY <1>2 DEF ResetStaleConsecutiveState
  <2> QED
    BY <2>1 DEF SpecStates
<1> QED
  BY <1>1, <1>2

(* The types of the two results of applyCycleResult.                       *)
LEMMA ApplyType ==
  ASSUME NEW st \in SpecStates, NEW ok \in BOOLEAN, NEW f \in Nat \ {0}, NEW g \in Nat \ {0}
  PROVE  /\ TransitionOf(st, ok, f, g) \in Transitions
         /\ ApplyCycleResult(st, ok, f, g) \in SpecStates
<1>1. TransitionOf(st, ok, f, g) \in Transitions
  BY DEF TransitionOf, Transitions
<1>2. CountResult(st, ok) \in SpecStates
  <2> DEFINE m == st.ConsecutiveFailures + 1
             n == st.ConsecutiveSuccesses + 1
  <2>1. m \in Nat /\ n \in Nat /\ 0 \in Nat
    BY DEF SpecStates
  <2>2. CASE ok /\ st.Status = "failing"
    <3>1. CountResult(st, ok) = [st EXCEPT !.ConsecutiveFailures = 0, !.ConsecutiveSuccesses = n]
      BY <2>2 DEF CountResult, SpecStates
    <3> HIDE DEF n
    <3>2. [st EXCEPT !.ConsecutiveFailures = 0, !.ConsecutiveSuccesses = n] \in SpecStates
      BY <2>1, CountersType, Zenon
    <3> QED
      BY <3>1, <3>2, Zenon
  <2>3. CASE ok /\ st.Status # "failing"
    <3>1. CountResult(st, ok) = [st EXCEPT !.ConsecutiveFailures = 0, !.ConsecutiveSuccesses = 0]
      BY <2>3 DEF CountResult, SpecStates
    <3>2. [st EXCEPT !.ConsecutiveFailures = 0, !.ConsecutiveSuccesses = 0] \in SpecStates
      BY <2>1, CountersType, Zenon
    <3> QED
      BY <3>1, <3>2, Zenon
  <2>4. CASE ~ok
    <3>1. CountResult(st, ok) = [st EXCEPT !.ConsecutiveSuccesses = 0, !.ConsecutiveFailures = m]
      BY <2>4 DEF CountResult, SpecStates
    <3> HIDE DEF m
    <3>2. [st EXCEPT !.ConsecutiveSuccesses = 0, !.ConsecutiveFailures = m] \in SpecStates
      BY <2>1, CountersType, Zenon
    <3> QED
      BY <3>1, <3>2, Zenon
  <2> QED
    BY <2>2, <2>3, <2>4
<1>3. AfterTransition(st, TransitionOf(st, ok, f, g)) \in SpecStates
  BY DEF AfterTransition, SpecStates, Statuses
<1> QED
  BY <1>1, <1>2, <1>3 DEF ApplyCycleResult

(* The type of the goroutine that runCycle starts.                         *)
LEMMA NewWorkerType ==
  ASSUME TypeOK, NEW s \in Specs, NEW n \in Nat
  PROVE  NewWorker(s, n) \in Worker
<1>1. SpecStartDelay(s, n) \in Nat
  BY RunnerAssumption DEF SpecConf, SpecStartDelay
<1> QED
  BY <1>1, FreshStateType DEF NewWorker, Worker, WorkerPCs, Times, ZeroTime, Transitions, TypeOK

(* The types of what handleCycleResult stores and triggers.                *)
LEMMA OutcomeType ==
  ASSUME NEW w \in Worker, w.completedAt \in Nat
  PROVE  /\ Outcome(w).transition \in Transitions
         /\ Outcome(w).state \in SpecStates
<1> DEFINE fresh == ResetStaleConsecutiveState(w.loaded, w.completedAt, CycleInterval)
           ft    == FailureThreshold(w.spec)
           st    == SuccessThreshold(w.spec)
<1>1. /\ w.spec \in Specs /\ w.loaded \in SpecStates /\ w.ok \in BOOLEAN
      /\ w.startedAt \in Times /\ w.completedAt \in Times
  BY DEF Worker, Times
<1>2. fresh \in SpecStates
  BY <1>1, ResetType
<1>3. ft \in Nat \ {0} /\ st \in Nat \ {0}
  BY <1>1, ThresholdType
<1>4. /\ TransitionOf(fresh, w.ok, ft, st) \in Transitions
      /\ ApplyCycleResult(fresh, w.ok, ft, st) \in SpecStates
  BY <1>1, <1>2, <1>3, ApplyType
<1> QED
  BY <1>1, <1>4 DEF Outcome, SpecStates

(* What holds of a goroutine between its own steps.                        *)
WorkerOK(w) ==
  /\ w.pc \in {"mark", "check", "doomed", "handle"} => w.startedAt \in Nat /\ w.startedAt <= now
  /\ w.pc = "handle" => w.completedAt \in Nat /\ w.startedAt <= w.completedAt /\ w.completedAt <= now
  /\ w.pc = "notify" => w.transition = IF Get(w.spec).Status = "failing" THEN "failure" ELSE "recovery"

(* Only a cycle that is waited for has goroutines, each for its own spec.  *)
Idle == rpc # "waiting" => workers = {}
OneEach == \A v, w \in workers : v.spec = w.spec => v = w

(* The inductive invariant.                                                *)
IInv ==
  /\ TypeOK
  /\ Idle
  /\ OneEach
  /\ NoLostUpdate
  /\ CountersHonest
  /\ ToldMatchesStatus
  /\ StampsOrdered
  /\ \A w \in workers : WorkerOK(w)

(* The program starts in the inductive invariant.                          *)
LEMMA InitIInv == Init => IInv
<1> SUFFICES ASSUME Init PROVE IInv
  OBVIOUS
<1>1. TypeOK
  <2>1. DOMAIN store = {}
    BY DEF Init
  <2>2. store \in [DOMAIN store -> SpecStates]
    BY <2>1 DEF Init
  <2>3. /\ failures \in [Specs -> Nat] /\ successes \in [Specs -> Nat]
        /\ told \in [Specs -> Transitions]
    BY DEF Init, Transitions
  <2>4. rpc \in RunPCs /\ now \in Nat /\ nextTick \in Int /\ workers \subseteq Worker
    BY DEF Init, RunPCs, ZeroTime
  <2>5. ctxDone \in BOOLEAN /\ tickPending \in BOOLEAN
    BY DEF Init
  <2>6. cycleNumber \in 0 .. MaxCycles
    BY RunnerAssumption DEF Init
  <2> QED
    BY <2>1, <2>2, <2>3, <2>4, <2>6, <2>5 DEF TypeOK
<1>2. \A s \in Specs : Get(s) = FreshState
  BY DEF Init, Get
<1>3. CountersHonest
  BY <1>2, ThresholdType DEF Init, CountersHonest, FreshState
<1>4. ToldMatchesStatus
  BY <1>2 DEF Init, ToldMatchesStatus, FreshState
<1>5. StampsOrdered
  BY <1>2 DEF Init, StampsOrdered, FreshState, ZeroTime
<1> QED
  BY <1>1, <1>3, <1>4, <1>5 DEF Init, IInv, Idle, OneEach, NoLostUpdate

-------------------------------------------------------------------------------
(* Frames: what replacing or removing one goroutine leaves alone.          *)

(* What a goroutine that moves on means for the others.                    *)
LEMMA BecomeFacts ==
  ASSUME OneEach, NEW w \in workers, NEW v, v.spec = w.spec, Become(w, v)
  PROVE  /\ OneEach'
         /\ v \in workers'
         /\ \A x \in workers' : x = v \/ (x \in workers /\ x # w /\ x.spec # w.spec)
         /\ \A x \in workers : x = w \/ x \in workers'
BY DEF OneEach, Become

(* What a goroutine that returns means for the others.                     *)
LEMMA ReturnFacts ==
  ASSUME OneEach, NEW w \in workers, Return(w)
  PROVE  /\ OneEach'
         /\ \A x \in workers' : x \in workers /\ x # w /\ x.spec # w.spec
         /\ \A x \in workers : x = w \/ x \in workers'
BY DEF OneEach, Return

(* An unchanged store gives the same entries.                              *)
LEMMA SameStore == ASSUME store' = store PROVE \A s : Get(s)' = Get(s)
BY DEF Get

(* Everything of IInv that is neither a type nor about rpc.                *)
Core ==
  /\ OneEach
  /\ NoLostUpdate
  /\ CountersHonest
  /\ ToldMatchesStatus
  /\ StampsOrdered
  /\ \A w \in workers : WorkerOK(w)

(* A goroutine moves on, neither to nor from sending a notice, and the     *)
(* store and the history stay as they are.                                 *)
LEMMA QuietBecome ==
  ASSUME IInv, NEW w \in workers, NEW v \in Worker, v.spec = w.spec, Become(w, v),
         UNCHANGED <<store, failures, successes, told, now>>,
         WorkerOK(v), v.pc \in {"mark", "handle"} => v.loaded = Get(v.spec),
         w.pc # "notify", v.pc # "notify",
         w.pc \in {"check", "doomed", "handle"} => v.pc \in {"check", "doomed", "handle"}
  PROVE  Core'
<1>1. /\ OneEach'
      /\ v \in workers'
      /\ \A x \in workers' : x = v \/ (x \in workers /\ x # w /\ x.spec # w.spec)
      /\ \A x \in workers : x = w \/ x \in workers'
  BY BecomeFacts DEF IInv
<1>2. \A s : Get(s)' = Get(s)
  BY SameStore
<1>3. NoLostUpdate'
  BY <1>1, <1>2 DEF IInv, NoLostUpdate
<1>4. CountersHonest'
  BY <1>2 DEF IInv, CountersHonest
<1>5. ToldMatchesStatus'
  BY <1>1, <1>2 DEF IInv, ToldMatchesStatus
<1>6. StampsOrdered'
  <2>1. \A s \in Specs : Checking(s) => Checking(s)'
    BY <1>1 DEF Checking
  <2> QED
    BY <1>2, <2>1 DEF IInv, StampsOrdered
<1>7. \A x \in workers' : WorkerOK(x)'
  BY <1>1, <1>2 DEF IInv, WorkerOK
<1> QED
  BY <1>1, <1>3, <1>4, <1>5, <1>6, <1>7 DEF Core

(* A goroutine that neither checks nor owes a notice returns.              *)
LEMMA QuietReturn ==
  ASSUME IInv, NEW w \in workers, Return(w),
         UNCHANGED <<store, failures, successes, told, now>>,
         w.pc \in {"sleep", "mail"}
  PROVE  Core'
<1>1. /\ OneEach'
      /\ \A x \in workers' : x \in workers /\ x # w /\ x.spec # w.spec
      /\ \A x \in workers : x = w \/ x \in workers'
  BY ReturnFacts DEF IInv
<1>2. \A s : Get(s)' = Get(s)
  BY SameStore
<1>3. NoLostUpdate'
  BY <1>1, <1>2 DEF IInv, NoLostUpdate
<1>4. CountersHonest'
  BY <1>2 DEF IInv, CountersHonest
<1>5. ToldMatchesStatus'
  BY <1>1, <1>2 DEF IInv, ToldMatchesStatus
<1>6. StampsOrdered'
  <2>1. \A s \in Specs : Checking(s) => Checking(s)'
    BY <1>1 DEF Checking
  <2> QED
    BY <1>2, <2>1 DEF IInv, StampsOrdered
<1>7. \A x \in workers' : WorkerOK(x)'
  BY <1>1, <1>2 DEF IInv, WorkerOK
<1> QED
  BY <1>1, <1>3, <1>4, <1>5, <1>6, <1>7 DEF Core

-------------------------------------------------------------------------------
(* The steps of a goroutine. Get and Set are separate steps, so the lemmas *)
(* for MarkStore and HandleStore rest on NoLostUpdate: what they write is  *)
(* computed from the entry that is still there.                            *)

(* The type of a running goroutine, its spec and its entry.                *)
LEMMA WorkerType ==
  ASSUME TypeOK, NEW w \in workers
  PROVE  w \in Worker /\ w.spec \in Specs /\ Get(w.spec) \in SpecStates
BY GetType DEF TypeOK, Worker

(* A goroutine that moves on keeps the type of workers.                    *)
LEMMA BecomeType ==
  ASSUME TypeOK, NEW w \in workers, NEW v \in Worker, Become(w, v)
  PROVE  workers' \subseteq Worker
BY DEF TypeOK, Become

(* A goroutine that returns keeps the type of workers.                     *)
LEMMA ReturnType ==
  ASSUME TypeOK, NEW w \in workers, Return(w)
  PROVE  workers' \subseteq Worker
BY DEF TypeOK, Return

(* sleepWithContext, timer.                                                *)
LEMMA WakeStep ==
  ASSUME IInv, NEW w \in workers, Wake(w)
  PROVE  IInv'
<1> DEFINE v == [w EXCEPT !.pc = "ready"]
<1>1. w \in Worker /\ TypeOK
  BY WorkerType DEF IInv
<1>2. v \in Worker /\ v.spec = w.spec /\ v.pc = "ready"
  BY <1>1 DEF Worker, WorkerPCs
<1> HIDE DEF v
<1>3. Become(w, v)
  BY DEF Wake, v
<1>4. WorkerOK(v)
  BY <1>2 DEF WorkerOK
<1>5. Core'
  BY <1>2, <1>3, <1>4, QuietBecome DEF Wake, clockVars, historyVars
<1>6. TypeOK'
  BY <1>1, <1>2, <1>3, BecomeType DEF TypeOK, Wake, loopVars, clockVars, historyVars
<1> QED
  BY <1>5, <1>6 DEF IInv, Core, Idle, Wake, loopVars

(* sleepWithContext, cancelled.                                            *)
LEMMA AbandonStep ==
  ASSUME IInv, NEW w \in workers, Abandon(w)
  PROVE  IInv'
<1>1. Core'
  BY QuietReturn DEF Abandon, clockVars, historyVars
<1>2. TypeOK'
  BY ReturnType DEF IInv, TypeOK, Abandon, loopVars, clockVars, historyVars
<1> QED
  BY <1>1, <1>2 DEF IInv, Core, Idle, Abandon, loopVars

(* sendEmailToRecipients returns.                                          *)
LEMMA FinishMailStep ==
  ASSUME IInv, NEW w \in workers, FinishMail(w)
  PROVE  IInv'
<1>1. Core'
  BY QuietReturn DEF FinishMail, clockVars, historyVars
<1>2. TypeOK'
  BY ReturnType DEF IInv, TypeOK, FinishMail, loopVars, clockVars, historyVars
<1> QED
  BY <1>1, <1>2 DEF IInv, Core, Idle, FinishMail, loopVars

(* markCycleStarted's Get.                                                 *)
LEMMA MarkLoadStep ==
  ASSUME IInv, NEW w \in workers, MarkLoad(w)
  PROVE  IInv'
<1> DEFINE v == [w EXCEPT !.pc = "mark", !.startedAt = now, !.loaded = Get(w.spec)]
<1>1. w \in Worker /\ w.spec \in Specs /\ Get(w.spec) \in SpecStates /\ TypeOK
  BY WorkerType DEF IInv
<1>2. v \in Worker /\ v.spec = w.spec /\ v.pc = "mark"
  BY <1>1 DEF Worker, WorkerPCs, TypeOK, Times
<1>3. v.startedAt = now /\ v.loaded = Get(w.spec)
  BY <1>1 DEF Worker
<1> HIDE DEF v
<1>4. Become(w, v)
  BY DEF MarkLoad, v
<1>5. WorkerOK(v)
  BY <1>1, <1>2, <1>3 DEF WorkerOK, TypeOK
<1>6. Core'
  BY <1>2, <1>3, <1>4, <1>5, QuietBecome DEF MarkLoad, clockVars, historyVars
<1>7. TypeOK'
  BY <1>1, <1>2, <1>4, BecomeType DEF TypeOK, MarkLoad, loopVars, clockVars, historyVars
<1> QED
  BY <1>6, <1>7 DEF IInv, Core, Idle, MarkLoad, loopVars

(* validateSpec returns, and handleCycleResult's Get.                      *)
LEMMA FinishCheckStep ==
  ASSUME IInv, NEW w \in workers, NEW ok \in BOOLEAN, FinishCheck(w, ok)
  PROVE  IInv'
<1> DEFINE v == [w EXCEPT !.pc = "handle", !.ok = ok, !.completedAt = now,
                          !.loaded = Get(w.spec)]
<1>1. w \in Worker /\ w.spec \in Specs /\ Get(w.spec) \in SpecStates /\ TypeOK
  BY WorkerType DEF IInv
<1>2. v \in Worker /\ v.spec = w.spec /\ v.pc = "handle"
  BY <1>1 DEF Worker, WorkerPCs, TypeOK, Times
<1>3. v.completedAt = now /\ v.startedAt = w.startedAt /\ v.loaded = Get(w.spec)
  BY <1>1 DEF Worker
<1> HIDE DEF v
<1>4. Become(w, v) /\ w.pc \in {"check", "doomed"}
  BY DEF FinishCheck, v
<1>5. WorkerOK(v)
  BY <1>1, <1>2, <1>3, <1>4 DEF IInv, WorkerOK, TypeOK
<1>6. Core'
  BY <1>2, <1>3, <1>4, <1>5, QuietBecome DEF FinishCheck, clockVars, historyVars
<1>7. TypeOK'
  BY <1>1, <1>2, <1>4, BecomeType DEF TypeOK, FinishCheck, loopVars, clockVars, historyVars
<1> QED
  BY <1>6, <1>7 DEF IInv, Core, Idle, FinishCheck, loopVars

(* What handleCycleResult stores, told from the copy it loaded.            *)
LEMMA OutcomeFacts ==
  ASSUME NEW w \in Worker, w.completedAt \in Nat
  PROVE  LET t == Outcome(w).transition
             r == Outcome(w).state
         IN  /\ r.LastCycleStartedAt = w.startedAt
             /\ r.LastCycleAt = w.completedAt
             /\ t = "failure" => /\ ~w.ok
                                 /\ w.loaded.Status = "healthy"
                                 /\ r.Status = "failing"
                                 /\ w.loaded.ConsecutiveFailures + 1 >= FailureThreshold(w.spec)
             /\ t = "recovery" => /\ w.ok
                                  /\ w.loaded.Status = "failing"
                                  /\ r.Status = "healthy"
                                  /\ w.loaded.ConsecutiveSuccesses + 1 >= SuccessThreshold(w.spec)
             /\ t = "none" => r.Status = w.loaded.Status
             /\ r.ConsecutiveFailures <= IF w.ok THEN 0 ELSE w.loaded.ConsecutiveFailures + 1
             /\ r.ConsecutiveSuccesses <= IF w.ok THEN w.loaded.ConsecutiveSuccesses + 1 ELSE 0
             /\ r.Status = "healthy" => /\ r.ConsecutiveFailures < FailureThreshold(w.spec)
                                        /\ r.ConsecutiveSuccesses = 0
             /\ r.Status = "failing" => r.ConsecutiveSuccesses < SuccessThreshold(w.spec)
<1> DEFINE fresh == ResetStaleConsecutiveState(w.loaded, w.completedAt, CycleInterval)
           ft    == FailureThreshold(w.spec)
           st    == SuccessThreshold(w.spec)
           t     == TransitionOf(fresh, w.ok, ft, st)
           r     == ApplyCycleResult(fresh, w.ok, ft, st)
<1>1. w.spec \in Specs /\ w.loaded \in SpecStates /\ w.ok \in BOOLEAN /\ w.startedAt \in Times
  BY DEF Worker
<1>2. ft \in Nat \ {0} /\ st \in Nat \ {0}
  BY <1>1, ThresholdType
<1>3. /\ fresh \in SpecStates
      /\ fresh.Status = w.loaded.Status
      /\ fresh.ConsecutiveFailures <= w.loaded.ConsecutiveFailures
      /\ fresh.ConsecutiveSuccesses <= w.loaded.ConsecutiveSuccesses
  BY <1>1, ResetType
<1>4. r \in SpecStates
  BY <1>1, <1>2, <1>3, ApplyType
<1>5. /\ Outcome(w).transition = t
      /\ Outcome(w).state = [r EXCEPT !.LastCycleStartedAt = w.startedAt,
                                      !.LastCycleAt = w.completedAt]
  BY DEF Outcome
<1>6. /\ Outcome(w).state.LastCycleStartedAt = w.startedAt
      /\ Outcome(w).state.LastCycleAt = w.completedAt
      /\ Outcome(w).state.Status = r.Status
      /\ Outcome(w).state.ConsecutiveFailures = r.ConsecutiveFailures
      /\ Outcome(w).state.ConsecutiveSuccesses = r.ConsecutiveSuccesses
  BY <1>4, <1>5 DEF SpecStates
<1> HIDE DEF fresh, ft, st
<1>7. /\ fresh.Status \in {"healthy", "failing"}
      /\ fresh.ConsecutiveFailures \in Nat /\ fresh.ConsecutiveSuccesses \in Nat
      /\ w.loaded.ConsecutiveFailures \in Nat /\ w.loaded.ConsecutiveSuccesses \in Nat
  BY <1>1, <1>3 DEF SpecStates, Statuses
<1>8. CASE t = "none"
  <2>1. r = CountResult(fresh, w.ok)
    BY <1>8 DEF ApplyCycleResult
  <2>2. /\ r.Status = fresh.Status
        /\ r.ConsecutiveFailures = IF w.ok THEN 0 ELSE fresh.ConsecutiveFailures + 1
        /\ r.ConsecutiveSuccesses = IF w.ok /\ fresh.Status = "failing"
                                    THEN fresh.ConsecutiveSuccesses + 1 ELSE 0
    BY <1>3, <2>1 DEF CountResult, SpecStates
  <2>3. /\ ~w.ok /\ fresh.Status # "failing" => fresh.ConsecutiveFailures + 1 < ft
        /\ w.ok /\ fresh.Status = "failing" => fresh.ConsecutiveSuccesses + 1 < st
    BY <1>2, <1>7, <1>8 DEF TransitionOf
  <2> QED
    BY <1>1, <1>2, <1>3, <1>5, <1>6, <1>7, <1>8, <2>2, <2>3 DEF ft, st
<1>9. CASE t # "none"
  <2>1. r = AfterTransition(fresh, t)
    BY <1>9 DEF ApplyCycleResult
  <2>2. /\ r.Status = IF t = "failure" THEN "failing" ELSE "healthy"
        /\ r.ConsecutiveFailures = 0
        /\ r.ConsecutiveSuccesses = 0
    BY <1>3, <2>1 DEF AfterTransition, SpecStates
  <2>3. \/ /\ t = "failure" /\ ~w.ok /\ fresh.Status # "failing"
           /\ fresh.ConsecutiveFailures + 1 >= ft
        \/ /\ t = "recovery" /\ w.ok /\ fresh.Status = "failing"
           /\ fresh.ConsecutiveSuccesses + 1 >= st
    BY <1>9 DEF TransitionOf
  <2> QED
    BY <1>1, <1>2, <1>3, <1>5, <1>6, <1>7, <1>9, <2>2, <2>3 DEF ft, st
<1> QED
  BY <1>8, <1>9

(* markCycleStarted's Set: the copy is the current entry, so only a stamp  *)
(* changes.                                                                *)
LEMMA MarkStoreStep ==
  ASSUME IInv, NEW w \in workers, MarkStore(w)
  PROVE  IInv'
<1> DEFINE v  == [w EXCEPT !.pc = IF ctxDone THEN "doomed" ELSE "check",
                           !.due = now + Conf[w.spec].timeout]
           st == [w.loaded EXCEPT !.LastCycleStartedAt = w.startedAt]
<1>1. w \in Worker /\ w.spec \in Specs /\ TypeOK /\ OneEach /\ w.pc = "mark"
  BY WorkerType DEF IInv, MarkStore
<1>2. w.loaded = Get(w.spec) /\ w.startedAt \in Nat /\ w.startedAt <= now
  BY <1>1 DEF IInv, NoLostUpdate, WorkerOK
<1>3. /\ v \in Worker /\ v.spec = w.spec /\ v.pc \in {"check", "doomed"}
      /\ v.startedAt = w.startedAt
  <2>1. now + Conf[w.spec].timeout \in Nat
    BY <1>1, RunnerAssumption DEF TypeOK, SpecConf
  <2>2. CASE ctxDone
    BY <1>1, <2>1, <2>2 DEF Worker, WorkerPCs
  <2>3. CASE ~ctxDone
    BY <1>1, <2>1, <2>3 DEF Worker, WorkerPCs
  <2> QED
    BY <2>2, <2>3
<1>4. /\ st \in SpecStates
      /\ st.LastCycleStartedAt = w.startedAt
      /\ st.LastCycleAt = w.loaded.LastCycleAt
      /\ st.Status = w.loaded.Status
      /\ st.ConsecutiveFailures = w.loaded.ConsecutiveFailures
      /\ st.ConsecutiveSuccesses = w.loaded.ConsecutiveSuccesses
  BY <1>1 DEF Worker, SpecStates
<1>5. Become(w, v) /\ Set(w.spec, st)
  BY DEF MarkStore
<1> HIDE DEF v, st
<1>6. /\ DOMAIN store' \subseteq Specs
      /\ store' \in [DOMAIN store' -> SpecStates]
      /\ \A s \in Specs : Get(s)' = IF s = w.spec THEN st ELSE Get(s)
  BY <1>1, <1>4, <1>5, SetEntry
<1>7. /\ OneEach'
      /\ v \in workers'
      /\ \A x \in workers' : x = v \/ (x \in workers /\ x # w /\ x.spec # w.spec)
      /\ \A x \in workers : x = w \/ x \in workers'
  BY <1>1, <1>3, <1>5, BecomeFacts
<1>8. \A x \in workers' : x.spec \in Specs
  BY <1>1, <1>3, <1>7, WorkerType
<1>9. UNCHANGED <<rpc, now, failures, successes, told>>
  BY DEF MarkStore, loopVars, clockVars, historyVars
<1>10. TypeOK'
  BY <1>1, <1>3, <1>5, <1>6, BecomeType DEF TypeOK, MarkStore, loopVars, clockVars, historyVars
<1>11. NoLostUpdate'
  BY <1>1, <1>3, <1>6, <1>7, <1>8 DEF IInv, NoLostUpdate
<1>12. CountersHonest'
  BY <1>2, <1>4, <1>6, <1>9 DEF IInv, CountersHonest
<1>13. ToldMatchesStatus'
  BY <1>1, <1>2, <1>4, <1>6, <1>7, <1>9 DEF IInv, ToldMatchesStatus
<1>14. StampsOrdered'
  <2>1. \A s \in Specs : Checking(s) => Checking(s)'
    BY <1>1, <1>7 DEF Checking
  <2>2. Checking(w.spec)'
    BY <1>3, <1>7 DEF Checking
  <2> QED
    BY <1>1, <1>2, <1>4, <1>6, <1>9, <2>1, <2>2 DEF IInv, StampsOrdered
<1>15. \A x \in workers' : WorkerOK(x)'
  BY <1>1, <1>2, <1>3, <1>6, <1>7, <1>8, <1>9 DEF IInv, WorkerOK
<1> QED
  BY <1>7, <1>9, <1>10, <1>11, <1>12, <1>13, <1>14, <1>15, <1>1 DEF IInv, Idle

(* The actions of a transition are triggered.                              *)
LEMMA NotifyStep ==
  ASSUME IInv, NEW w \in workers, Notify(w)
  PROVE  IInv'
<1> DEFINE v == [w EXCEPT !.pc = "mail", !.due = now + MailTimeout]
<1>1. w \in Worker /\ w.spec \in Specs /\ TypeOK /\ OneEach /\ w.pc = "notify"
  BY WorkerType DEF IInv, Notify
<1>2. /\ w.transition = IF Get(w.spec).Status = "failing" THEN "failure" ELSE "recovery"
      /\ w.transition \in Transitions
  BY <1>1 DEF IInv, WorkerOK, Worker
<1>3. v \in Worker /\ v.spec = w.spec /\ v.pc = "mail"
  <2>1. now + MailTimeout \in Nat
    BY <1>1, RunnerAssumption DEF TypeOK
  <2> QED
    BY <1>1, <2>1 DEF Worker, WorkerPCs
<1>4. Become(w, v) \/ Return(w)
  BY DEF Notify
<1> HIDE DEF v
<1>5. UNCHANGED <<rpc, cycleNumber, store, ctxDone, now, nextTick, tickPending,
                  failures, successes>>
  BY DEF Notify, loopVars, clockVars
<1>6. \A s : Get(s)' = Get(s)
  BY <1>5, SameStore
<1>7. /\ OneEach'
      /\ \A x \in workers' : x = v \/ (x \in workers /\ x # w /\ x.spec # w.spec)
      /\ \A x \in workers : x = w \/ x \in workers'
  <2>1. CASE Become(w, v)
    BY <1>1, <1>3, <2>1, BecomeFacts
  <2>2. CASE Return(w)
    BY <1>1, <2>2, ReturnFacts
  <2> QED
    BY <1>4, <2>1, <2>2
<1>8. told' = [told EXCEPT ![w.spec] = w.transition]
  BY DEF Notify
<1>9. workers' \subseteq Worker
  BY <1>1, <1>3, <1>4, BecomeType, ReturnType
<1>10. TypeOK'
  BY <1>1, <1>2, <1>5, <1>8, <1>9 DEF TypeOK
<1>11. NoLostUpdate'
  BY <1>3, <1>6, <1>7 DEF IInv, NoLostUpdate
<1>12. CountersHonest'
  BY <1>5, <1>6 DEF IInv, CountersHonest
<1>13. ToldMatchesStatus'
  BY <1>1, <1>2, <1>6, <1>7, <1>8 DEF IInv, ToldMatchesStatus, TypeOK
<1>14. StampsOrdered'
  <2>1. \A s \in Specs : Checking(s) => Checking(s)'
    BY <1>1, <1>7 DEF Checking
  <2> QED
    BY <1>5, <1>6, <2>1 DEF IInv, StampsOrdered
<1>15. \A x \in workers' : WorkerOK(x)'
  BY <1>3, <1>5, <1>6, <1>7 DEF IInv, WorkerOK
<1> QED
  BY <1>1, <1>5, <1>7, <1>10, <1>11, <1>12, <1>13, <1>14, <1>15 DEF IInv, Idle

(* handleCycleResult's Set.                                                *)
LEMMA HandleStoreStep ==
  ASSUME IInv, NEW w \in workers, HandleStore(w)
  PROVE  IInv'
<1> DEFINE t == Outcome(w).transition
           r == Outcome(w).state
           v == [w EXCEPT !.pc = "notify", !.transition = t]
<1>1. w \in Worker /\ w.spec \in Specs /\ TypeOK /\ OneEach /\ w.pc = "handle"
  BY WorkerType DEF IInv, HandleStore
<1>2. /\ w.loaded = Get(w.spec) /\ w.loaded \in SpecStates /\ w.ok \in BOOLEAN
      /\ w.startedAt \in Nat /\ w.completedAt \in Nat
      /\ w.startedAt <= w.completedAt /\ w.completedAt <= now
  BY <1>1 DEF IInv, NoLostUpdate, WorkerOK, Worker
<1>3. t \in Transitions /\ r \in SpecStates
  BY <1>1, <1>2, OutcomeType
<1>4. /\ r.LastCycleStartedAt = w.startedAt
      /\ r.LastCycleAt = w.completedAt
      /\ t = "failure" => w.loaded.Status = "healthy" /\ r.Status = "failing"
      /\ t = "recovery" => w.loaded.Status = "failing" /\ r.Status = "healthy"
      /\ t = "none" => r.Status = w.loaded.Status
      /\ r.ConsecutiveFailures <= IF w.ok THEN 0 ELSE w.loaded.ConsecutiveFailures + 1
      /\ r.ConsecutiveSuccesses <= IF w.ok THEN w.loaded.ConsecutiveSuccesses + 1 ELSE 0
      /\ r.Status = "healthy" => /\ r.ConsecutiveFailures < FailureThreshold(w.spec)
                                 /\ r.ConsecutiveSuccesses = 0
      /\ r.Status = "failing" => r.ConsecutiveSuccesses < SuccessThreshold(w.spec)
  BY <1>1, <1>2, OutcomeFacts
<1>5. v \in Worker /\ v.spec = w.spec /\ v.pc = "notify" /\ v.transition = t
  BY <1>1, <1>3 DEF Worker, WorkerPCs
<1>6. /\ Set(w.spec, r)
      /\ IF t = "none" THEN Return(w) ELSE Become(w, v)
      /\ failures'  = [failures EXCEPT ![w.spec] = IF w.ok THEN 0 ELSE failures[w.spec] + 1]
      /\ successes' = [successes EXCEPT ![w.spec] = IF w.ok THEN successes[w.spec] + 1 ELSE 0]
      /\ UNCHANGED <<rpc, cycleNumber, ctxDone, now, nextTick, tickPending, told>>
  BY DEF HandleStore, loopVars, clockVars
<1> HIDE DEF t, r, v
<1>7. /\ DOMAIN store' \subseteq Specs
      /\ store' \in [DOMAIN store' -> SpecStates]
      /\ \A s \in Specs : Get(s)' = IF s = w.spec THEN r ELSE Get(s)
  BY <1>1, <1>3, <1>6, SetEntry
<1>8. /\ OneEach'
      /\ \A x \in workers' : \/ x = v /\ t # "none"
                             \/ x \in workers /\ x # w /\ x.spec # w.spec
      /\ \A x \in workers : x = w \/ x \in workers'
      /\ t # "none" => v \in workers'
  <2>1. CASE t # "none"
    BY <1>1, <1>5, <1>6, <2>1, BecomeFacts
  <2>2. CASE t = "none"
    BY <1>1, <1>6, <2>2, ReturnFacts
  <2> QED
    BY <2>1, <2>2
<1>9. \A x \in workers' : x.spec \in Specs
  BY <1>1, <1>5, <1>8, WorkerType
<1>10. TypeOK'
  <2>1. workers' \subseteq Worker
    BY <1>1, <1>5, <1>6, BecomeType, ReturnType
  <2>2. failures' \in [Specs -> Nat] /\ successes' \in [Specs -> Nat]
    BY <1>1, <1>2, <1>6 DEF TypeOK
  <2> QED
    BY <1>1, <1>6, <1>7, <2>1, <2>2 DEF TypeOK
<1>11. NoLostUpdate'
  BY <1>5, <1>7, <1>8, <1>9 DEF IInv, NoLostUpdate
<1>12. CountersHonest'
  <2> SUFFICES ASSUME NEW s \in Specs
               PROVE  /\ Get(s)'.ConsecutiveFailures <= failures'[s]
                      /\ Get(s)'.ConsecutiveSuccesses <= successes'[s]
                      /\ Get(s)'.Status = "healthy" =>
                           /\ Get(s)'.ConsecutiveFailures < FailureThreshold(s)
                           /\ Get(s)'.ConsecutiveSuccesses = 0
                      /\ Get(s)'.Status = "failing" =>
                           Get(s)'.ConsecutiveSuccesses < SuccessThreshold(s)
    BY DEF CountersHonest, FailureThreshold, SuccessThreshold
  <2>1. CASE s # w.spec
    BY <1>1, <1>6, <1>7, <2>1 DEF IInv, CountersHonest, TypeOK
  <2>2. CASE s = w.spec
    <3>1. Get(s)' = r
      BY <1>7, <2>2
    <3>2. /\ w.loaded.ConsecutiveFailures <= failures[s]
          /\ w.loaded.ConsecutiveSuccesses <= successes[s]
      BY <1>2, <2>2 DEF IInv, CountersHonest
    <3>3. /\ failures'[s] = IF w.ok THEN 0 ELSE failures[s] + 1
          /\ successes'[s] = IF w.ok THEN successes[s] + 1 ELSE 0
      BY <1>1, <1>6, <2>2 DEF TypeOK
    <3>4. /\ failures[s] \in Nat /\ successes[s] \in Nat
          /\ w.loaded.ConsecutiveFailures \in Nat /\ w.loaded.ConsecutiveSuccesses \in Nat
          /\ r.ConsecutiveFailures \in Nat /\ r.ConsecutiveSuccesses \in Nat
      BY <1>1, <1>2, <1>3 DEF TypeOK, SpecStates
    <3> QED
      BY <1>4, <2>2, <3>1, <3>2, <3>3, <3>4
  <2> QED
    BY <2>1, <2>2
<1>13. ToldMatchesStatus'
  <2> SUFFICES ASSUME NEW s \in Specs, ~\E x \in workers' : x.spec = s /\ x.pc = "notify"
               PROVE  told'[s] = "failure" <=> Get(s)'.Status = "failing"
    BY DEF ToldMatchesStatus
  <2>1. told' = told
    BY <1>6
  <2>2. CASE s # w.spec
    BY <1>7, <1>8, <2>1, <2>2 DEF IInv, ToldMatchesStatus
  <2>3. CASE s = w.spec
    <3>1. t = "none"
      BY <1>5, <1>8, <2>3
    <3>2. ~\E x \in workers : x.spec = s /\ x.pc = "notify"
      BY <1>1, <2>3 DEF OneEach
    <3> QED
      BY <1>2, <1>4, <1>7, <2>1, <2>3, <3>1, <3>2 DEF IInv, ToldMatchesStatus
  <2> QED
    BY <2>2, <2>3
<1>14. StampsOrdered'
  <2>1. \A s \in Specs \ {w.spec} : Checking(s) => Checking(s)'
    BY <1>8 DEF Checking
  <2> QED
    BY <1>1, <1>2, <1>4, <1>6, <1>7, <2>1 DEF IInv, StampsOrdered, TypeOK
<1>15. \A x \in workers' : WorkerOK(x)'
  <2> SUFFICES ASSUME NEW x \in workers' PROVE WorkerOK(x)'
    OBVIOUS
  <2>1. CASE x = v /\ t # "none"
    BY <1>1, <1>3, <1>4, <1>5, <1>7, <2>1 DEF WorkerOK, Transitions
  <2>2. CASE x \in workers /\ x.spec # w.spec
    BY <1>6, <1>7, <1>9, <2>2 DEF IInv, WorkerOK
  <2> QED
    BY <1>8, <2>1, <2>2
<1> QED
  BY <1>1, <1>6, <1>8, <1>10, <1>11, <1>12, <1>13, <1>14, <1>15 DEF IInv, Idle

-------------------------------------------------------------------------------
(* The steps of Run and of the environment.                                *)

(* Nothing of IInv but rpc, the clock and the ticker changes.              *)
LEMMA QuietLoop ==
  ASSUME IInv, UNCHANGED <<workers, store, failures, successes, told>>,
         now' \in Nat, now <= now'
  PROVE  Core'
<1>1. \A s : Get(s)' = Get(s)
  BY SameStore
<1>2. \A s \in Specs : Checking(s)' = Checking(s)
  BY DEF Checking
<1>3. \A s \in Specs : Get(s) \in SpecStates
  BY GetType DEF IInv
<1>4. now \in Nat
  BY DEF IInv, TypeOK
<1>5. StampsOrdered'
  <2> SUFFICES ASSUME NEW s \in Specs
               PROVE  /\ Get(s)'.LastCycleStartedAt > Get(s)'.LastCycleAt => Checking(s)'
                      /\ Get(s)'.LastCycleStartedAt <= now'
                      /\ Get(s)'.LastCycleAt <= now'
    BY DEF StampsOrdered
  <2>1. /\ Get(s).LastCycleStartedAt \in Int /\ Get(s).LastCycleAt \in Int
    BY <1>3 DEF SpecStates, Times, ZeroTime
  <2> QED
    BY <1>1, <1>2, <1>4, <2>1 DEF IInv, StampsOrdered
<1>6. \A w \in workers' : WorkerOK(w)'
  BY <1>1, <1>4 DEF IInv, WorkerOK
<1> QED
  BY <1>1, <1>5, <1>6
     DEF IInv, Core, OneEach, NoLostUpdate, CountersHonest, ToldMatchesStatus

(* runCycle starts its goroutines, when none is left of an earlier cycle.  *)
LEMMA RunCycleStep ==
  ASSUME IInv, rpc # "waiting", RunCycle,
         UNCHANGED <<store, ctxDone, now, nextTick, failures, successes, told>>,
         tickPending' \in BOOLEAN
  PROVE  IInv'
<1> DEFINE ran == {s \in Specs : RunsIn(s, cycleNumber + 1)}
<1>1. workers = {} /\ TypeOK /\ cycleNumber + 1 \in Nat
  BY RunnerAssumption DEF IInv, Idle, TypeOK
<1>2. workers' = {NewWorker(s, cycleNumber + 1) : s \in ran}
  BY <1>1 DEF RunCycle
<1>3. \A s \in Specs : /\ NewWorker(s, cycleNumber + 1).spec = s
                       /\ NewWorker(s, cycleNumber + 1).pc \in {"sleep", "ready"}
                       /\ NewWorker(s, cycleNumber + 1) \in Worker
  BY <1>1, NewWorkerType DEF NewWorker
<1>4. \A x \in workers' : x \in Worker /\ x.pc \in {"sleep", "ready"}
  BY <1>2, <1>3
<1>5. OneEach'
  BY <1>2, <1>3 DEF OneEach
<1>6. \A s : Get(s)' = Get(s)
  BY SameStore
<1>7. TypeOK'
  <2>1. cycleNumber' \in 0 .. MaxCycles /\ rpc' \in RunPCs
    BY <1>1, RunnerAssumption DEF RunCycle, TypeOK, RunPCs
  <2> QED
    BY <1>1, <1>4, <2>1 DEF TypeOK
<1>8. NoLostUpdate' /\ ToldMatchesStatus' /\ \A x \in workers' : WorkerOK(x)'
  BY <1>1, <1>4, <1>6 DEF IInv, NoLostUpdate, ToldMatchesStatus, WorkerOK
<1>9. CountersHonest'
  BY <1>6 DEF IInv, CountersHonest
<1>10. StampsOrdered'
  BY <1>1, <1>6 DEF IInv, StampsOrdered, Checking
<1> QED
  BY <1>5, <1>7, <1>8, <1>9, <1>10 DEF IInv, Idle, RunCycle

(* The remaining steps of Run, the signal and the clock.                   *)
LEMMA LoopStep ==
  ASSUME IInv, FirstCycle \/ TickerCycle \/ EndCycle \/ SelectDone \/ Cancel \/ Tick
  PROVE  IInv'
<1>1. CASE FirstCycle
  BY <1>1, RunCycleStep DEF FirstCycle, clockVars, historyVars, IInv, TypeOK
<1>2. CASE TickerCycle
  <2>1. tickPending' \in BOOLEAN
    BY <1>2 DEF TickerCycle
  <2> QED
    BY <1>2, <2>1, RunCycleStep DEF TickerCycle, historyVars
<1>3. CASE EndCycle
  <2>1. UNCHANGED <<cycleNumber, workers, store, ctxDone, now, tickPending,
                    failures, successes, told>> /\ workers = {}
    BY <1>3 DEF EndCycle, historyVars
  <2>2. Core'
    BY <2>1, QuietLoop DEF IInv, TypeOK
  <2>3. rpc' \in RunPCs
    BY <1>3 DEF EndCycle, RunPCs
  <2>4. nextTick' \in Int
    BY <1>3, RunnerAssumption DEF EndCycle, IInv, TypeOK
  <2>5. TypeOK'
    BY <2>1, <2>3, <2>4 DEF IInv, TypeOK
  <2> QED
    BY <2>1, <2>2, <2>5 DEF IInv, Core, Idle
<1>4. CASE SelectDone
  <2>1. /\ UNCHANGED <<cycleNumber, workers, store, ctxDone, now, nextTick, tickPending,
                       failures, successes, told>>
        /\ rpc = "select" /\ rpc' = "stopped"
    BY <1>4 DEF SelectDone, clockVars, historyVars
  <2>2. Core'
    BY <2>1, QuietLoop DEF IInv, TypeOK
  <2>3. TypeOK'
    BY <2>1 DEF IInv, TypeOK, RunPCs
  <2> QED
    BY <2>1, <2>2, <2>3 DEF IInv, Core, Idle
<1>5. CASE Cancel
  <2>1. UNCHANGED <<rpc, cycleNumber, workers, store, now, nextTick, tickPending,
                    failures, successes, told>>
    BY <1>5 DEF Cancel, loopVars, clockVars, historyVars
  <2>2. Core'
    BY <2>1, QuietLoop DEF IInv, TypeOK
  <2>3. ctxDone' \in BOOLEAN
    BY <1>5 DEF Cancel
  <2>4. TypeOK'
    BY <2>1, <2>3 DEF IInv, TypeOK
  <2> QED
    BY <2>1, <2>2, <2>4 DEF IInv, Core, Idle
<1>6. CASE Tick
  <2>1. UNCHANGED <<rpc, cycleNumber, workers, store, ctxDone, failures, successes, told>>
        /\ now' = now + 1
    BY <1>6 DEF Tick, loopVars, historyVars
  <2>2. now \in Nat /\ now' \in Nat /\ now <= now'
    BY <2>1 DEF IInv, TypeOK
  <2>3. Core'
    BY <2>1, <2>2, QuietLoop
  <2>4. nextTick' \in Int
    BY <1>6, RunnerAssumption DEF Tick, IInv, TypeOK
  <2>5. tickPending' \in BOOLEAN
    BY <1>6 DEF Tick, IInv, TypeOK
  <2>6. TypeOK'
    BY <2>1, <2>2, <2>4, <2>5 DEF IInv, TypeOK
  <2> QED
    BY <2>1, <2>3, <2>6 DEF IInv, Core, Idle
<1> QED
  BY <1>1, <1>2, <1>3, <1>4, <1>5, <1>6

(* Every step keeps the inductive invariant.                               *)
LEMMA NextIInv == IInv /\ [Next]_vars => IInv'
<1> SUFFICES ASSUME IInv, [Next]_vars PROVE IInv'
  OBVIOUS
<1>1. CASE FirstCycle \/ TickerCycle \/ EndCycle \/ SelectDone \/ Cancel \/ Tick
  BY <1>1, LoopStep
<1>2. ASSUME NEW w \in workers, WorkerStep(w) PROVE IInv'
  <2>1. CASE Wake(w)
    BY <2>1, WakeStep
  <2>2. CASE Abandon(w)
    BY <2>2, AbandonStep
  <2>3. CASE MarkLoad(w)
    BY <2>3, MarkLoadStep
  <2>4. CASE MarkStore(w)
    BY <2>4, MarkStoreStep
  <2>5. ASSUME NEW ok \in BOOLEAN, FinishCheck(w, ok) PROVE IInv'
    BY <2>5, FinishCheckStep
  <2>6. CASE HandleStore(w)
    BY <2>6, HandleStoreStep
  <2>7. CASE Notify(w)
    BY <2>7, NotifyStep
  <2>8. CASE FinishMail(w)
    BY <2>8, FinishMailStep
  <2> QED
    BY <1>2, <2>1, <2>2, <2>3, <2>4, <2>5, <2>6, <2>7, <2>8 DEF WorkerStep
<1>3. CASE UNCHANGED vars
  <2>1. UNCHANGED <<rpc, cycleNumber, workers, store, ctxDone, now, nextTick, tickPending,
                    failures, successes, told>>
    BY <1>3 DEF vars
  <2>2. Core'
    BY <2>1, QuietLoop DEF IInv, TypeOK
  <2>3. TypeOK'
    BY <2>1 DEF IInv, TypeOK
  <2> QED
    BY <2>1, <2>2, <2>3 DEF IInv, Core, Idle
<1> QED
  BY <1>1, <1>2, <1>3 DEF Next

-------------------------------------------------------------------------------
(* The theorems.                                                           *)

(* IInv is an invariant of the runner, for any specs and configuration.    *)
THEOREM Invariance == Safety => []IInv
<1> QED
  BY InitIInv, NextIInv, PTL DEF Safety

(* Every variable and every goroutine's locals stay in their types.        *)
THEOREM TypeCorrect == Safety => []TypeOK
<1>1. IInv => TypeOK
  BY DEF IInv
<1> QED
  BY <1>1, Invariance, PTL

(* No spec is ever checked by two goroutines, and Run never moves on while *)
(* a goroutine of its cycle is running.                                    *)
THEOREM ChecksAreSerial == Safety => []SerialChecks
<1>1. IInv => SerialChecks
  BY DEF IInv, SerialChecks, OneEach, Idle
<1> QED
  BY <1>1, Invariance, PTL

(* The entry a goroutine writes back was computed from the current one.    *)
THEOREM UpdatesAreNotLost == Safety => []NoLostUpdate
<1>1. IInv => NoLostUpdate
  BY DEF IInv
<1> QED
  BY <1>1, Invariance, PTL

(* The stored counters never exceed the real runs of results and never     *)
(* rest at their thresholds.                                               *)
THEOREM CountersAreHonest == Safety => []CountersHonest
<1>1. IInv => CountersHonest
  BY DEF IInv
<1> QED
  BY <1>1, Invariance, PTL

(* The last notice agrees with the stored status unless one is on its way. *)
THEOREM NoticesMatch == Safety => []ToldMatchesStatus
<1>1. IInv => ToldMatchesStatus
  BY DEF IInv
<1> QED
  BY <1>1, Invariance, PTL

(* The stamps the status page shows are ordered and never in the future.   *)
THEOREM StampsAreOrdered == Safety => []StampsOrdered
<1>1. IInv => StampsOrdered
  BY DEF IInv
<1> QED
  BY <1>1, Invariance, PTL

-------------------------------------------------------------------------------
(* Transitions and the refinement of Alerting.                             *)

(* Every step but the two that write the store leaves it as it is.         *)
LEMMA StoreWrites ==
  ASSUME [Next]_vars
  PROVE  \/ store' = store
         \/ \E w \in workers : MarkStore(w) \/ HandleStore(w)
BY DEF Next, WorkerStep, FirstCycle, TickerCycle, EndCycle, SelectDone, Cancel, Tick, Wake, Abandon,
       MarkLoad, FinishCheck, Notify, FinishMail, vars

(* What a goroutine's last write does to the store and the history.        *)
LEMMA HandleStoreEffect ==
  ASSUME IInv, NEW w \in workers, HandleStore(w)
  PROVE  LET t == Outcome(w).transition
             r == Outcome(w).state
         IN  /\ t \in Transitions
             /\ \A s \in Specs : Get(s)' = IF s = w.spec THEN r ELSE Get(s)
             /\ failures[w.spec] \in Nat /\ successes[w.spec] \in Nat
             /\ t = "failure" => /\ ~w.ok /\ Get(w.spec).Status = "healthy" /\ r.Status = "failing"
                                 /\ failures[w.spec] + 1 >= FailureThreshold(w.spec)
             /\ t = "recovery" => /\ w.ok /\ Get(w.spec).Status = "failing" /\ r.Status = "healthy"
                                  /\ successes[w.spec] + 1 >= SuccessThreshold(w.spec)
             /\ t = "none" => r.Status = Get(w.spec).Status
<1> DEFINE t == Outcome(w).transition
           r == Outcome(w).state
<1>1. w \in Worker /\ w.spec \in Specs /\ TypeOK /\ w.pc = "handle"
  BY WorkerType DEF IInv, HandleStore
<1>2. /\ w.loaded = Get(w.spec) /\ w.loaded \in SpecStates /\ w.completedAt \in Nat
  BY <1>1 DEF IInv, NoLostUpdate, WorkerOK, Worker
<1>3. t \in Transitions /\ r \in SpecStates
  BY <1>1, <1>2, OutcomeType
<1>4. \A s \in Specs : Get(s)' = IF s = w.spec THEN r ELSE Get(s)
  BY <1>1, <1>3, SetEntry DEF HandleStore
<1>5. /\ t = "failure" => /\ ~w.ok /\ w.loaded.Status = "healthy" /\ r.Status = "failing"
                          /\ w.loaded.ConsecutiveFailures + 1 >= FailureThreshold(w.spec)
      /\ t = "recovery" => /\ w.ok /\ w.loaded.Status = "failing" /\ r.Status = "healthy"
                           /\ w.loaded.ConsecutiveSuccesses + 1 >= SuccessThreshold(w.spec)
      /\ t = "none" => r.Status = w.loaded.Status
  BY <1>1, <1>2, OutcomeFacts
<1>6. /\ w.loaded.ConsecutiveFailures <= failures[w.spec]
      /\ w.loaded.ConsecutiveSuccesses <= successes[w.spec]
  BY <1>1, <1>2 DEF IInv, CountersHonest
<1>7. /\ failures[w.spec] \in Nat /\ successes[w.spec] \in Nat
      /\ w.loaded.ConsecutiveFailures \in Nat /\ w.loaded.ConsecutiveSuccesses \in Nat
      /\ FailureThreshold(w.spec) \in Nat /\ SuccessThreshold(w.spec) \in Nat
  BY <1>1, <1>2, ThresholdType DEF TypeOK, SpecStates
<1> HIDE DEF t, r
<1> QED
  BY <1>2, <1>3, <1>4, <1>5, <1>6, <1>7 DEF t, r

(* markCycleStarted leaves status and counters alone.                      *)
LEMMA MarkStoreStatus ==
  ASSUME IInv, NEW w \in workers, MarkStore(w)
  PROVE  \A s \in Specs : Get(s)'.Status = Get(s).Status
<1> DEFINE st == [w.loaded EXCEPT !.LastCycleStartedAt = w.startedAt]
<1>1. w \in Worker /\ w.spec \in Specs /\ TypeOK /\ w.pc = "mark"
  BY WorkerType DEF IInv, MarkStore
<1>2. w.loaded = Get(w.spec) /\ w.loaded \in SpecStates /\ w.startedAt \in Times
  BY <1>1 DEF IInv, NoLostUpdate, Worker
<1>3. st \in SpecStates /\ st.Status = w.loaded.Status
  BY <1>2 DEF SpecStates
<1>4. \A s \in Specs : Get(s)' = IF s = w.spec THEN st ELSE Get(s)
  BY <1>1, <1>3, SetEntry DEF MarkStore
<1> QED
  BY <1>2, <1>3, <1>4

(* A status flips only at the end of a run of results as long as the       *)
(* threshold that the spec's file asks for.                                *)
THEOREM TransitionsAreJustified == Safety => TransitionsJustified
<1> DEFINE Justified ==
      \A s \in Specs :
        Get(s)'.Status # Get(s).Status =>
          IF Get(s)'.Status = "failing"
          THEN failures'[s] >= FailureThreshold(s)
          ELSE successes'[s] >= SuccessThreshold(s)
<1>1. IInv /\ [Next]_vars => [Justified]_vars
  <2> SUFFICES ASSUME IInv, [Next]_vars PROVE Justified
    OBVIOUS
  <2>1. CASE store' = store
    BY <2>1, SameStore
  <2>2. ASSUME NEW w \in workers, MarkStore(w) PROVE Justified
    BY <2>2, MarkStoreStatus
  <2>3. ASSUME NEW w \in workers, HandleStore(w) PROVE Justified
    <3>1. w.spec \in Specs /\ TypeOK
      BY WorkerType DEF IInv
    <3>2. /\ failures'[w.spec] = IF w.ok THEN 0 ELSE failures[w.spec] + 1
          /\ successes'[w.spec] = IF w.ok THEN successes[w.spec] + 1 ELSE 0
      BY <2>3, <3>1 DEF HandleStore, TypeOK
    <3> QED
      BY <2>3, <3>1, <3>2, HandleStoreEffect DEF Transitions
  <2> QED
    BY <2>1, <2>2, <2>3, StoreWrites
<1> QED
  BY <1>1, Invariance, PTL DEF Safety, TransitionsJustified

(* With one goroutine per spec, the notice owed is that of any goroutine   *)
(* sending.                                                                *)
LEMMA OwedFacts ==
  ASSUME OneEach
  PROVE  /\ \A w \in workers : w.pc = "notify" => Owed(w.spec) = w.transition
         /\ \A s : (~\E w \in workers : w.spec = s /\ w.pc = "notify") => Owed(s) = "none"
<1>1. ASSUME NEW w \in workers, w.pc = "notify" PROVE Owed(w.spec) = w.transition
  <2>1. Notifying(w.spec) = {w}
    BY <1>1 DEF OneEach, Notifying
  <2> QED
    BY <2>1 DEF Owed, Member
<1>2. ASSUME NEW s, ~\E w \in workers : w.spec = s /\ w.pc = "notify" PROVE Owed(s) = "none"
  BY <1>2 DEF Owed, Notifying
<1> QED
  BY <1>1, <1>2

(* In every step but HandleStore and Notify the goroutines that owe a      *)
(* notice stay the same ones.                                              *)
LEMMA OwedUnchanged ==
  ASSUME IInv, [Next]_vars, \A w \in workers : ~HandleStore(w) /\ ~Notify(w)
  PROVE  \A s : Owed(s)' = Owed(s)
<1> SUFFICES ASSUME NEW s PROVE Notifying(s)' = Notifying(s)
  BY DEF Owed
<1>1. CASE UNCHANGED workers
  BY <1>1 DEF Notifying
<1>2. CASE FirstCycle \/ TickerCycle
  <2>1. workers = {}
    BY <1>2 DEF FirstCycle, TickerCycle, IInv, Idle
  <2>2. \A x \in workers' : x.pc \in {"sleep", "ready"}
    BY <1>2, <2>1 DEF FirstCycle, TickerCycle, RunCycle, NewWorker
  <2> QED
    BY <2>1, <2>2 DEF Notifying
<1>3. ASSUME NEW w \in workers, NEW v, Become(w, v), w.pc # "notify", v.pc # "notify"
      PROVE Notifying(s)' = Notifying(s)
  BY <1>3 DEF Become, Notifying
<1>4. ASSUME NEW w \in workers, Return(w), w.pc # "notify"
      PROVE Notifying(s)' = Notifying(s)
  BY <1>4 DEF Return, Notifying
<1>5. ASSUME NEW w \in workers, WorkerStep(w)
      PROVE Notifying(s)' = Notifying(s)
  <2>1. w \in Worker
    BY WorkerType DEF IInv
  <2>2. CASE Wake(w)
    <3>1. [w EXCEPT !.pc = "ready"].pc # "notify"
      BY <2>1 DEF Worker
    <3> QED
      BY <2>2, <3>1, <1>3 DEF Wake
  <2>3. CASE Abandon(w)
    BY <2>3, <1>4 DEF Abandon
  <2>4. CASE MarkLoad(w)
    <3> DEFINE v == [w EXCEPT !.pc = "mark", !.startedAt = now, !.loaded = Get(w.spec)]
    <3>1. v.pc # "notify"
      BY <2>1 DEF Worker
    <3>2. Become(w, v) /\ w.pc # "notify"
      BY <2>4 DEF MarkLoad
    <3> HIDE DEF v
    <3> QED
      BY <3>1, <3>2, <1>3
  <2>5. CASE MarkStore(w)
    <3> DEFINE v == [w EXCEPT !.pc = IF ctxDone THEN "doomed" ELSE "check",
                              !.due = now + Conf[w.spec].timeout]
    <3>1. v.pc # "notify"
      BY <2>1 DEF Worker
    <3>2. Become(w, v) /\ w.pc # "notify"
      BY <2>5 DEF MarkStore
    <3> HIDE DEF v
    <3> QED
      BY <3>1, <3>2, <1>3
  <2>6. ASSUME NEW ok \in BOOLEAN, FinishCheck(w, ok) PROVE Notifying(s)' = Notifying(s)
    <3> DEFINE v == [w EXCEPT !.pc = "handle", !.ok = ok, !.completedAt = now,
                              !.loaded = Get(w.spec)]
    <3>1. v.pc # "notify"
      BY <2>1 DEF Worker
    <3>2. Become(w, v) /\ w.pc # "notify"
      BY <2>6 DEF FinishCheck
    <3> HIDE DEF v
    <3> QED
      BY <3>1, <3>2, <1>3
  <2>7. CASE FinishMail(w)
    BY <2>7, <1>4 DEF FinishMail
  <2> QED
    BY <1>5, <2>2, <2>3, <2>4, <2>5, <2>6, <2>7 DEF WorkerStep
<1> QED
  BY <1>1, <1>2, <1>5 DEF Next, vars, EndCycle, SelectDone, Cancel, Tick

(* Initial states map to initial states of Alerting.                       *)
LEMMA InitAlerting == Init => A!Init
<1> SUFFICES ASSUME Init PROVE A!Init
  OBVIOUS
<1>1. \A s : Get(s) = FreshState /\ Owed(s) = "none"
  BY DEF Init, Get, Owed, Notifying
<1> QED
  BY <1>1 DEF Init, A!Init, FreshState

(* Storing a result is an Observe, a Fail or a Recover of Alerting.        *)
LEMMA HandleStoreAlerting ==
  ASSUME IInv, NEW w \in workers, HandleStore(w)
  PROVE  A!Next
<1> DEFINE t == Outcome(w).transition
           r == Outcome(w).state
           v == [w EXCEPT !.pc = "notify", !.transition = t]
<1>1. w \in Worker /\ w.spec \in Specs /\ TypeOK /\ OneEach /\ w.pc = "handle"
  BY WorkerType DEF IInv, HandleStore
<1>2. /\ failures'  = [failures EXCEPT ![w.spec] = IF w.ok THEN 0 ELSE failures[w.spec] + 1]
      /\ successes' = [successes EXCEPT ![w.spec] = IF w.ok THEN successes[w.spec] + 1 ELSE 0]
      /\ told' = told
      /\ IF t = "none" THEN Return(w) ELSE Become(w, v)
  BY DEF HandleStore, historyVars
<1>3. /\ t \in Transitions
      /\ \A s \in Specs : Get(s)' = IF s = w.spec THEN r ELSE Get(s)
      /\ t = "failure" => /\ ~w.ok /\ Get(w.spec).Status = "healthy" /\ r.Status = "failing"
                          /\ failures[w.spec] + 1 >= FailureThreshold(w.spec)
      /\ t = "recovery" => /\ w.ok /\ Get(w.spec).Status = "failing" /\ r.Status = "healthy"
                           /\ successes[w.spec] + 1 >= SuccessThreshold(w.spec)
      /\ t = "none" => r.Status = Get(w.spec).Status
  BY HandleStoreEffect
<1>4. v \in Worker /\ v.spec = w.spec /\ v.pc = "notify" /\ v.transition = t
  BY <1>1, <1>3 DEF Worker, WorkerPCs
<1>5. w.ok \in BOOLEAN
  BY <1>1 DEF Worker
<1> HIDE DEF t, r, v
<1>6. Owed(w.spec) = "none"
  BY <1>1, OwedFacts DEF OneEach
<1>7. \A s : Owed(s)' = IF s = w.spec THEN t ELSE Owed(s)
  <2>1. ASSUME NEW s, s # w.spec PROVE Notifying(s)' = Notifying(s)
    BY <1>2, <1>4, <2>1 DEF Notifying, Become, Return
  <2>2. Owed(w.spec)' = t
    <3>1. CASE t = "none"
      <4>1. Notifying(w.spec)' = {}
        BY <1>1, <1>2, <3>1 DEF Notifying, Return, OneEach
      <4> QED
        BY <3>1, <4>1 DEF Owed
    <3>2. CASE t # "none"
      <4>1. Notifying(w.spec)' = {v}
        BY <1>1, <1>2, <1>4, <3>2 DEF Notifying, Become, OneEach
      <4> QED
        BY <1>4, <4>1 DEF Owed, Member
    <3> QED
      BY <3>1, <3>2
  <2> QED
    BY <2>1, <2>2 DEF Owed
<1>8. CASE t = "none"
  <2>1. A!Observe(w.spec)
    BY <1>1, <1>2, <1>3, <1>5, <1>6, <1>7, <1>8
       DEF A!Observe, A!CountFailure, A!CountSuccess
  <2> QED
    BY <1>1, <2>1 DEF A!Next
<1>9. CASE t = "failure"
  <2>1. A!Fail(w.spec)
    BY <1>1, <1>2, <1>3, <1>5, <1>6, <1>7, <1>9 DEF A!Fail, A!CountFailure
  <2> QED
    BY <1>1, <2>1 DEF A!Next
<1>10. CASE t = "recovery"
  <2>1. A!Recover(w.spec)
    BY <1>1, <1>2, <1>3, <1>5, <1>6, <1>7, <1>10 DEF A!Recover, A!CountSuccess
  <2> QED
    BY <1>1, <2>1 DEF A!Next
<1> QED
  BY <1>3, <1>8, <1>9, <1>10 DEF Transitions

(* Triggering the actions is a Notify of Alerting.                         *)
LEMMA NotifyAlerting ==
  ASSUME IInv, NEW w \in workers, Notify(w)
  PROVE  A!Next
<1> DEFINE v == [w EXCEPT !.pc = "mail", !.due = now + MailTimeout]
<1>1. w \in Worker /\ w.spec \in Specs /\ OneEach /\ w.pc = "notify"
  BY WorkerType DEF IInv, Notify
<1>2. w.transition \in {"failure", "recovery"} /\ Owed(w.spec) = w.transition
  BY <1>1, OwedFacts DEF IInv, WorkerOK
<1>3. /\ UNCHANGED <<store, failures, successes>>
      /\ told' = [told EXCEPT ![w.spec] = w.transition]
      /\ Become(w, v) \/ Return(w)
  BY DEF Notify
<1>4. v.pc = "mail"
  BY <1>1 DEF Worker
<1> HIDE DEF v
<1>5. \A s : Get(s)' = Get(s)
  BY <1>3, SameStore
<1>6. \A s : Owed(s)' = IF s = w.spec THEN "none" ELSE Owed(s)
  <2>1. ASSUME NEW s, s # w.spec PROVE Notifying(s)' = Notifying(s)
    BY <1>3, <1>4, <2>1 DEF Notifying, Become, Return
  <2>2. Notifying(w.spec)' = {}
    BY <1>1, <1>3, <1>4 DEF Notifying, Become, Return, OneEach
  <2> QED
    BY <2>1, <2>2 DEF Owed
<1>7. A!Notify(w.spec)
  BY <1>1, <1>2, <1>3, <1>5, <1>6 DEF A!Notify
<1> QED
  BY <1>1, <1>7 DEF A!Next

(* Every step of the runner is a step of Alerting or a stutter.            *)
LEMMA StepAlerting ==
  ASSUME IInv, [Next]_vars
  PROVE  [A!Next]_(A!vars)
<1>1. CASE \E w \in workers : HandleStore(w)
  BY <1>1, HandleStoreAlerting
<1>2. CASE \E w \in workers : Notify(w)
  BY <1>2, NotifyAlerting
<1>3. CASE \A w \in workers : ~HandleStore(w) /\ ~Notify(w)
  <2>1. UNCHANGED <<failures, successes, told>>
    BY <1>3 DEF Next, WorkerStep, FirstCycle, TickerCycle, EndCycle, SelectDone, Cancel, Tick,
                Wake, Abandon, MarkLoad, MarkStore, FinishCheck, FinishMail, vars, historyVars
  <2>2. \A s \in Specs : Get(s)'.Status = Get(s).Status
    BY <1>3, StoreWrites, SameStore, MarkStoreStatus
  <2>3. \A s : Owed(s)' = Owed(s)
    BY <1>3, OwedUnchanged
  <2> QED
    BY <2>1, <2>2, <2>3 DEF A!vars
<1> QED
  BY <1>1, <1>2, <1>3

(* The runner with its goroutines and its store implements Alerting: every *)
(* step is a step of it or leaves what it describes unchanged.             *)
THEOREM Refinement == Safety => ImplementsAlerting
<1>1. IInv /\ [Next]_vars => [A!Next]_(A!vars)
  BY StepAlerting
<1> QED
  BY InitAlerting, <1>1, Invariance, PTL DEF Safety, ImplementsAlerting, A!Safety

-------------------------------------------------------------------------------
(* When cycles are on time, no counter is ever forgotten.                  *)
(*                                                                         *)
(* TimedInv follows the clock through a cycle: Run is where the ticker     *)
(* lets it be (LoopTimed), each goroutine is within the time its phase may *)
(* take (OnTime), and the last check of a spec of every cycle ended in the *)
(* current or in the previous cycle (EntryTimed). So no gap is stale, and  *)
(* the counters are the runs themselves (RunsKept).                        *)

(* What a cycle of s takes: the jitter, the check and the mails.           *)
CycleLasts(s) ==
  SpecStartDelay(s, 1) + Conf[s].timeout + (IF Conf[s].mail THEN MailTimeout ELSE 0)

(* Cycles take at most L and L is no longer than the interval. A spec with *)
(* a threshold above one runs in every cycle, and one more of its checks   *)
(* fits in the interval. With thresholds of one there is no run to forget. *)
Timely(L) ==
  /\ Prompt
  /\ CycleInterval \in 1 .. DurationRange - 1
  /\ L \in 0 .. CycleInterval
  /\ \A s \in Specs : Conf[s].active =>
       /\ CycleLasts(s) <= L
       /\ \/ FailureThreshold(s) = 1 /\ SuccessThreshold(s) = 1
          \/ Conf[s].everyCycles <= 1 /\ L + Conf[s].timeout <= CycleInterval

(* When the cycle at hand began; of a first cycle that has ended: when it  *)
(* ended, as the ticker starts there.                                      *)
Base ==
  IF nextTick = ZeroTime THEN 0
  ELSE nextTick - CycleInterval - (IF tickPending THEN CycleInterval ELSE 0)

(* When the check of s in this cycle starts, at the latest.                *)
StartBy(s) == IF nextTick = ZeroTime THEN SpecStartDelay(s, 1) ELSE Base

LoopTimed(L) ==
  /\ rpc = "start" => now = 0 /\ nextTick = ZeroTime /\ cycleNumber = 0
  /\ rpc = "waiting" => cycleNumber >= 1 /\ (nextTick = ZeroTime <=> cycleNumber = 1)
  /\ rpc = "select" => cycleNumber >= 1 /\ nextTick # ZeroTime
  /\ IF nextTick = ZeroTime THEN ~tickPending ELSE nextTick >= 0
  /\ rpc \in {"waiting", "select"} =>
       IF nextTick = ZeroTime THEN now <= L
       ELSE IF tickPending THEN now = nextTick - CycleInterval
       ELSE nextTick - CycleInterval <= now /\ now < nextTick

OnTime(w) ==
  LET checked == StartBy(w.spec) + Conf[w.spec].timeout
  IN  /\ Conf[w.spec].active
      /\ w.pc = "sleep" => nextTick = ZeroTime /\ now <= w.due /\ w.due <= StartBy(w.spec)
      /\ w.pc \in {"ready", "mark"} => now <= StartBy(w.spec)
      /\ w.pc = "check" => now <= w.due /\ w.due <= checked
      /\ w.pc \in {"doomed", "handle", "notify"} => now <= checked
      /\ w.pc = "handle" => Base <= w.completedAt /\ w.completedAt <= checked
      /\ w.pc = "mail" => Conf[w.spec].mail /\ now <= w.due /\ w.due <= checked + MailTimeout

(* The goroutine has not yet counted the result of its check.              *)
BeforeResult(w) == w.pc \in {"sleep", "ready", "mark", "check", "doomed", "handle"}
Uncounted(s)    == \E w \in workers : w.spec = s /\ BeforeResult(w)

EntryTimed(s, L) ==
  /\ rpc = "start" => Get(s).LastCycleAt = ZeroTime
  /\ Get(s).LastCycleAt # ZeroTime => Conf[s].active
  /\ rpc \in {"waiting", "select"} =>
       /\ nextTick = ZeroTime /\ Uncounted(s) => Get(s).LastCycleAt = ZeroTime
       /\ Get(s).LastCycleAt # ZeroTime =>
            Get(s).LastCycleAt >= Base - L - (IF Uncounted(s) THEN CycleInterval ELSE 0)

(* The counter that can change the status is the run of results itself.    *)
RunsKept(s) ==
  /\ Get(s).Status = "healthy" => failures[s] = Get(s).ConsecutiveFailures
  /\ Get(s).Status = "failing" => successes[s] = Get(s).ConsecutiveSuccesses

TimedInv(L) ==
  /\ LoopTimed(L)
  /\ \A w \in workers : OnTime(w)
  /\ \A s \in Specs : Conf[s].everyCycles <= 1 => EntryTimed(s, L)
  /\ \A s \in Specs : RunsKept(s)

(* The durations are numbers, and a delay belongs to the first cycle.      *)
LEMMA TimelyTypes ==
  ASSUME NEW L, Timely(L)
  PROVE  /\ CycleInterval \in Nat \ {0} /\ L \in Nat /\ MailTimeout \in Nat /\ L <= CycleInterval
         /\ DurationRange \in Nat
         /\ \A s \in Specs : /\ SpecStartDelay(s, 1) \in Nat /\ Conf[s].timeout \in Nat
                             /\ Conf[s].everyCycles \in Nat
                             /\ Conf[s].mail \in BOOLEAN /\ Conf[s].active \in BOOLEAN
                             /\ \A n : n # 1 => SpecStartDelay(s, n) = 0
<1>1. CycleInterval \in Nat \ {0} /\ L \in Nat /\ L <= CycleInterval /\ DurationRange \in Nat
  BY DurationAssumption DEF Timely
<1>2. ASSUME NEW s \in Specs
      PROVE  /\ SpecStartDelay(s, 1) \in Nat /\ Conf[s].timeout \in Nat
             /\ Conf[s].everyCycles \in Nat
             /\ Conf[s].mail \in BOOLEAN /\ Conf[s].active \in BOOLEAN
             /\ \A n : n # 1 => SpecStartDelay(s, n) = 0
  BY <1>2, RunnerAssumption DEF SpecConf, SpecStartDelay
<1> QED
  BY <1>1, <1>2, RunnerAssumption

(* Completed checks at most two intervals apart are not a stale gap.       *)
LEMMA NotStale ==
  ASSUME NEW i \in 1 .. DurationRange - 1, NEW t \in Nat, NEW st \in SpecStates,
         st.LastCycleAt # ZeroTime => t - st.LastCycleAt <= 2 * i
  PROVE  ~IsStale(st, t, i)
<1>1. DurationRange \in Nat \ {0}
  BY DurationAssumption
<1>2. CASE st.LastCycleAt = ZeroTime
  BY <1>2 DEF IsStale
<1>3. CASE st.LastCycleAt # ZeroTime
  <2> DEFINE m == 2 * DurationRange
             a == 2 * i + DurationRange
  <2>1. ASSUME NEW k \in Nat \ {0}, NEW b \in Nat, b < 2 * k
        PROVE  b % k = IF b < k THEN b ELSE b - k
    BY <2>1
  <2>2. m \in Nat \ {0} /\ a \in Nat /\ a < 2 * m
    BY <1>1
  <2>3. a % m = IF a < m THEN a ELSE a - m
    BY <2>1, <2>2
  <2>4. MaxGap(i) = (a % m) - DurationRange
    BY <1>1 DEF MaxGap, Wrap, staleCycleGapMultiplier
  <2>5. MaxGap(i) = 2 * i \/ MaxGap(i) <= 0
    BY <1>1, <2>3, <2>4
  <2>6. st.LastCycleAt \in Nat /\ Sub(t, st.LastCycleAt) <= 2 * i
    BY <1>1, <1>3 DEF SpecStates, Times, Sub
  <2>7. Sub(t, st.LastCycleAt) \in Int /\ MaxGap(i) \in Int
    BY <1>1, <2>3, <2>4, <2>6 DEF Sub
  <2> QED
    BY <2>5, <2>6, <2>7 DEF IsStale
<1> QED
  BY <1>2, <1>3

(* What handleCycleResult makes of the counter that matters, when no run   *)
(* is forgotten or there is none to forget.                                *)
LEMMA OutcomeCounts ==
  ASSUME NEW w \in Worker, w.completedAt \in Nat,
         w.loaded.Status = "healthy" => w.loaded.ConsecutiveFailures < FailureThreshold(w.spec),
         w.loaded.Status = "failing" => w.loaded.ConsecutiveSuccesses < SuccessThreshold(w.spec),
         \/ ~IsStale(w.loaded, w.completedAt, CycleInterval)
         \/ FailureThreshold(w.spec) = 1 /\ SuccessThreshold(w.spec) = 1
  PROVE  LET r == Outcome(w).state
         IN  /\ r.Status = "healthy" =>
                  IF w.loaded.Status = "healthy"
                  THEN r.ConsecutiveFailures = IF w.ok THEN 0 ELSE w.loaded.ConsecutiveFailures + 1
                  ELSE w.ok /\ r.ConsecutiveFailures = 0
             /\ r.Status = "failing" =>
                  IF w.loaded.Status = "failing"
                  THEN r.ConsecutiveSuccesses = IF w.ok THEN w.loaded.ConsecutiveSuccesses + 1 ELSE 0
                  ELSE ~w.ok /\ r.ConsecutiveSuccesses = 0
<1> DEFINE fresh == ResetStaleConsecutiveState(w.loaded, w.completedAt, CycleInterval)
           ft    == FailureThreshold(w.spec)
           st    == SuccessThreshold(w.spec)
           t     == TransitionOf(fresh, w.ok, ft, st)
           r     == ApplyCycleResult(fresh, w.ok, ft, st)
<1>1. w.spec \in Specs /\ w.loaded \in SpecStates /\ w.ok \in BOOLEAN
  BY DEF Worker
<1>2. ft \in Nat \ {0} /\ st \in Nat \ {0}
  BY <1>1, ThresholdType
<1>3. fresh \in SpecStates /\ fresh.Status = w.loaded.Status
  BY <1>1, ResetType
<1>4. r \in SpecStates
  BY <1>1, <1>2, <1>3, ApplyType
<1>5. Outcome(w).state = [r EXCEPT !.LastCycleStartedAt = w.startedAt,
                                   !.LastCycleAt = w.completedAt]
  BY DEF Outcome
<1>6. /\ Outcome(w).state.Status = r.Status
      /\ Outcome(w).state.ConsecutiveFailures = r.ConsecutiveFailures
      /\ Outcome(w).state.ConsecutiveSuccesses = r.ConsecutiveSuccesses
  BY <1>4, <1>5 DEF SpecStates
<1>7. /\ fresh.ConsecutiveFailures \in Nat /\ fresh.ConsecutiveSuccesses \in Nat
      /\ w.loaded.ConsecutiveFailures \in Nat /\ w.loaded.ConsecutiveSuccesses \in Nat
      /\ w.loaded.Status \in {"healthy", "failing"}
  BY <1>1, <1>3 DEF SpecStates, Statuses
<1>8. /\ w.loaded.Status = "healthy" => fresh.ConsecutiveFailures = w.loaded.ConsecutiveFailures
      /\ w.loaded.Status = "failing" => fresh.ConsecutiveSuccesses = w.loaded.ConsecutiveSuccesses
  <2>1. CASE ~IsStale(w.loaded, w.completedAt, CycleInterval)
    BY <2>1 DEF ResetStaleConsecutiveState
  <2>2. CASE ft = 1 /\ st = 1
    <3>1. /\ fresh.ConsecutiveFailures <= w.loaded.ConsecutiveFailures
          /\ fresh.ConsecutiveSuccesses <= w.loaded.ConsecutiveSuccesses
      BY <1>1, ResetType
    <3> HIDE DEF fresh
    <3> QED
      BY <1>7, <2>2, <3>1
  <2> QED
    BY <2>1, <2>2
<1> HIDE DEF fresh, ft, st
<1>9. CASE t = "none"
  <2>1. r = CountResult(fresh, w.ok)
    BY <1>9 DEF ApplyCycleResult
  <2>2. /\ r.Status = fresh.Status
        /\ r.ConsecutiveFailures = IF w.ok THEN 0 ELSE fresh.ConsecutiveFailures + 1
        /\ r.ConsecutiveSuccesses = IF w.ok /\ fresh.Status = "failing"
                                    THEN fresh.ConsecutiveSuccesses + 1 ELSE 0
    BY <1>3, <2>1 DEF CountResult, SpecStates
  <2> QED
    BY <1>1, <1>3, <1>6, <1>7, <1>8, <2>2
<1>10. CASE t # "none"
  <2>1. r = AfterTransition(fresh, t)
    BY <1>10 DEF ApplyCycleResult
  <2>2. /\ r.Status = IF t = "failure" THEN "failing" ELSE "healthy"
        /\ r.ConsecutiveFailures = 0
        /\ r.ConsecutiveSuccesses = 0
    BY <1>3, <2>1 DEF AfterTransition, SpecStates
  <2>3. \/ t = "failure" /\ ~w.ok /\ fresh.Status # "failing"
        \/ t = "recovery" /\ w.ok /\ fresh.Status = "failing"
    BY <1>10 DEF TransitionOf
  <2> QED
    BY <1>1, <1>3, <1>6, <1>7, <2>2, <2>3
<1> QED
  BY <1>9, <1>10

(* What a step means that leaves the clock, Run and what counts alone: one *)
(* goroutine moves on in time, or returns.                                 *)
LEMMA QuietTimed ==
  ASSUME IInv, NEW L, TimedInv(L), NEW w \in workers,
         UNCHANGED <<rpc, cycleNumber, now, nextTick, tickPending, failures, successes>>,
         \A s \in Specs : /\ Get(s)'.Status = Get(s).Status
                          /\ Get(s)'.ConsecutiveFailures = Get(s).ConsecutiveFailures
                          /\ Get(s)'.ConsecutiveSuccesses = Get(s).ConsecutiveSuccesses
                          /\ Get(s)'.LastCycleAt = Get(s).LastCycleAt,
         \/ \E v : /\ Become(w, v) /\ v.spec = w.spec /\ OnTime(v)
                   /\ BeforeResult(v) <=> BeforeResult(w)
         \/ Return(w) /\ (BeforeResult(w) => nextTick = ZeroTime)
  PROVE  TimedInv(L)'
<1>1. OneEach /\ w.spec \in Specs
  BY WorkerType DEF IInv
<1>2. Base' = Base
  BY DEF Base
<1>3. \A x : OnTime(x) => OnTime(x)'
  BY <1>2 DEF OnTime, StartBy
<1>4. LoopTimed(L)'
  BY DEF TimedInv, LoopTimed
<1>5. \A s \in Specs : RunsKept(s)'
  BY DEF TimedInv, RunsKept
<1>6. CASE \E v : /\ Become(w, v) /\ v.spec = w.spec /\ OnTime(v)
                  /\ BeforeResult(v) <=> BeforeResult(w)
  <2>1. PICK v : /\ Become(w, v) /\ v.spec = w.spec /\ OnTime(v)
                 /\ BeforeResult(v) <=> BeforeResult(w)
    BY <1>6
  <2>2. /\ v \in workers'
        /\ \A x \in workers' : x = v \/ (x \in workers /\ x # w /\ x.spec # w.spec)
        /\ \A x \in workers : x = w \/ x \in workers'
    BY <1>1, <2>1, BecomeFacts
  <2>3. \A x \in workers' : OnTime(x)'
    BY <1>3, <2>1, <2>2 DEF TimedInv
  <2>4. \A s : Uncounted(s)' <=> Uncounted(s)
    BY <2>1, <2>2 DEF Uncounted, BeforeResult
  <2>5. ASSUME NEW s \in Specs, Conf[s].everyCycles <= 1 PROVE EntryTimed(s, L)'
    BY <1>2, <2>4, <2>5 DEF TimedInv, EntryTimed
  <2> QED
    BY <1>4, <1>5, <2>3, <2>5 DEF TimedInv
<1>7. CASE Return(w) /\ (BeforeResult(w) => nextTick = ZeroTime)
  <2>1. /\ \A x \in workers' : x \in workers /\ x # w /\ x.spec # w.spec
        /\ \A x \in workers : x = w \/ x \in workers'
    BY <1>1, <1>7, ReturnFacts
  <2>2. \A x \in workers' : OnTime(x)'
    BY <1>3, <2>1 DEF TimedInv
  <2>3. \A s : s # w.spec \/ ~BeforeResult(w) => (Uncounted(s)' <=> Uncounted(s))
    BY <1>1, <2>1 DEF Uncounted, OneEach
  <2>4. ASSUME NEW s \in Specs, Conf[s].everyCycles <= 1 PROVE EntryTimed(s, L)'
    <3>1. CASE s # w.spec \/ ~BeforeResult(w)
      BY <1>2, <2>3, <2>4, <3>1 DEF TimedInv, EntryTimed
    <3>2. CASE s = w.spec /\ BeforeResult(w)
      <4>1. Uncounted(s) /\ nextTick = ZeroTime /\ rpc = "waiting"
        BY <1>7, <3>2 DEF Uncounted, IInv, Idle
      <4>2. Get(s).LastCycleAt = ZeroTime
        BY <2>4, <4>1 DEF TimedInv, EntryTimed
      <4> QED
        BY <4>2 DEF EntryTimed
    <3> QED
      BY <3>1, <3>2
  <2> QED
    BY <1>4, <1>5, <2>2, <2>4 DEF TimedInv
<1> QED
  BY <1>6, <1>7
(* Every step of a goroutine but the one that counts a result.             *)
LEMMA WorkerTimed ==
  ASSUME IInv, NEW L, Timely(L), TimedInv(L), NEW w \in workers,
         WorkerStep(w), ~HandleStore(w)
  PROVE  TimedInv(L)'
<1>1. /\ w \in Worker /\ w.spec \in Specs /\ Get(w.spec) \in SpecStates
      /\ OnTime(w) /\ LoopTimed(L) /\ rpc = "waiting" /\ now \in Nat /\ nextTick \in Int
  BY WorkerType DEF IInv, Idle, TimedInv, TypeOK
<1>2. /\ CycleInterval \in Nat \ {0} /\ MailTimeout \in Nat
      /\ Conf[w.spec].timeout \in Nat /\ SpecStartDelay(w.spec, 1) \in Nat
  BY <1>1, TimelyTypes
<1>3. /\ Base \in Int /\ StartBy(w.spec) \in Int /\ Base <= StartBy(w.spec) /\ Base <= now
  BY <1>1, <1>2 DEF Base, StartBy, LoopTimed
<1>4. ASSUME UNCHANGED store
      PROVE  \A s \in Specs : /\ Get(s)'.Status = Get(s).Status
                              /\ Get(s)'.ConsecutiveFailures = Get(s).ConsecutiveFailures
                              /\ Get(s)'.ConsecutiveSuccesses = Get(s).ConsecutiveSuccesses
                              /\ Get(s)'.LastCycleAt = Get(s).LastCycleAt
  BY <1>4, SameStore
<1>5. CASE Wake(w)
  <2> DEFINE v == [w EXCEPT !.pc = "ready"]
  <2>1. v.spec = w.spec /\ v.pc = "ready" /\ w.pc = "sleep" /\ w.due \in Nat
    BY <1>1, <1>5 DEF Worker, Wake
  <2>2. Become(w, v)
    BY <1>5 DEF Wake
  <2> HIDE DEF v
  <2>3. OnTime(v) /\ (BeforeResult(v) <=> BeforeResult(w))
    BY <1>1, <1>3, <2>1 DEF OnTime, BeforeResult
  <2> QED
    BY <1>4, <1>5, <2>1, <2>2, <2>3, QuietTimed DEF Wake, loopVars, clockVars, historyVars
<1>6. CASE Abandon(w)
  <2>1. Return(w) /\ nextTick = ZeroTime
    BY <1>1, <1>6 DEF Abandon, OnTime
  <2> QED
    BY <1>4, <1>6, <2>1, QuietTimed DEF Abandon, loopVars, clockVars, historyVars
<1>7. CASE MarkLoad(w)
  <2> DEFINE v == [w EXCEPT !.pc = "mark", !.startedAt = now, !.loaded = Get(w.spec)]
  <2>1. v.spec = w.spec /\ v.pc = "mark" /\ w.pc = "ready"
    BY <1>1, <1>7 DEF Worker, MarkLoad
  <2>2. Become(w, v)
    BY <1>7 DEF MarkLoad
  <2> HIDE DEF v
  <2>3. OnTime(v) /\ (BeforeResult(v) <=> BeforeResult(w))
    BY <1>1, <1>3, <2>1 DEF OnTime, BeforeResult
  <2> QED
    BY <1>4, <1>7, <2>1, <2>2, <2>3, QuietTimed DEF MarkLoad, loopVars, clockVars, historyVars
<1>8. CASE MarkStore(w)
  <2> DEFINE v  == [w EXCEPT !.pc = IF ctxDone THEN "doomed" ELSE "check",
                             !.due = now + Conf[w.spec].timeout]
             st == [w.loaded EXCEPT !.LastCycleStartedAt = w.startedAt]
  <2>1. /\ v.spec = w.spec /\ v.pc \in {"doomed", "check"} /\ w.pc = "mark"
        /\ v.due = now + Conf[w.spec].timeout
    BY <1>1, <1>8 DEF Worker, MarkStore
  <2>2. Become(w, v) /\ Set(w.spec, st)
    BY <1>8 DEF MarkStore
  <2>3. w.loaded = Get(w.spec) /\ w.startedAt \in Times
    BY <1>1, <2>1 DEF IInv, NoLostUpdate, Worker
  <2>4. /\ st \in SpecStates
        /\ st.Status = w.loaded.Status
        /\ st.ConsecutiveFailures = w.loaded.ConsecutiveFailures
        /\ st.ConsecutiveSuccesses = w.loaded.ConsecutiveSuccesses
        /\ st.LastCycleAt = w.loaded.LastCycleAt
    BY <1>1, <2>3 DEF SpecStates
  <2> HIDE DEF v, st
  <2>5. \A s \in Specs : Get(s)' = IF s = w.spec THEN st ELSE Get(s)
    BY <1>1, <2>2, <2>4, SetEntry DEF IInv
  <2>6. OnTime(v) /\ (BeforeResult(v) <=> BeforeResult(w))
    BY <1>1, <1>2, <1>3, <2>1 DEF OnTime, BeforeResult
  <2>7. \A s \in Specs : /\ Get(s)'.Status = Get(s).Status
                         /\ Get(s)'.ConsecutiveFailures = Get(s).ConsecutiveFailures
                         /\ Get(s)'.ConsecutiveSuccesses = Get(s).ConsecutiveSuccesses
                         /\ Get(s)'.LastCycleAt = Get(s).LastCycleAt
    BY <2>3, <2>4, <2>5
  <2> QED
    BY <1>8, <2>1, <2>2, <2>6, <2>7, QuietTimed DEF MarkStore, loopVars, clockVars, historyVars
<1>9. ASSUME NEW ok \in BOOLEAN, FinishCheck(w, ok) PROVE TimedInv(L)'
  <2> DEFINE v == [w EXCEPT !.pc = "handle", !.ok = ok, !.completedAt = now,
                            !.loaded = Get(w.spec)]
  <2>1. /\ v.spec = w.spec /\ v.pc = "handle" /\ v.completedAt = now
        /\ w.pc \in {"check", "doomed"} /\ w.due \in Nat
    BY <1>1, <1>9 DEF Worker, FinishCheck
  <2>2. Become(w, v)
    BY <1>9 DEF FinishCheck
  <2> HIDE DEF v
  <2>3. OnTime(v) /\ (BeforeResult(v) <=> BeforeResult(w))
    BY <1>1, <1>2, <1>3, <2>1 DEF OnTime, BeforeResult
  <2> QED
    BY <1>4, <1>9, <2>1, <2>2, <2>3, QuietTimed DEF FinishCheck, loopVars, clockVars, historyVars
<1>10. CASE Notify(w)
  <2> DEFINE v == [w EXCEPT !.pc = "mail", !.due = now + MailTimeout]
  <2>1. v.spec = w.spec /\ v.pc = "mail" /\ v.due = now + MailTimeout /\ w.pc = "notify"
    BY <1>1, <1>10 DEF Worker, Notify
  <2>2. ~BeforeResult(w)
    BY <2>1 DEF BeforeResult
  <2>3. CASE Conf[w.spec].mail
    <3>1. Become(w, v)
      BY <1>10, <2>3 DEF Notify
    <3> HIDE DEF v
    <3>2. OnTime(v) /\ ~BeforeResult(v)
      BY <1>1, <1>2, <1>3, <2>1, <2>3 DEF OnTime, BeforeResult
    <3> QED
      BY <1>4, <1>10, <2>1, <2>2, <3>1, <3>2, QuietTimed DEF Notify, loopVars, clockVars
  <2>4. CASE ~Conf[w.spec].mail
    <3>1. Return(w)
      BY <1>10, <2>4 DEF Notify
    <3> QED
      BY <1>4, <1>10, <2>2, <3>1, QuietTimed DEF Notify, loopVars, clockVars
  <2> QED
    BY <2>3, <2>4
<1>11. CASE FinishMail(w)
  <2>1. Return(w) /\ ~BeforeResult(w)
    BY <1>11 DEF FinishMail, BeforeResult
  <2> QED
    BY <1>4, <1>11, <2>1, QuietTimed DEF FinishMail, loopVars, clockVars, historyVars
<1> QED
  BY <1>5, <1>6, <1>7, <1>8, <1>9, <1>10, <1>11 DEF WorkerStep

(* A result is counted: its check and the one before it were close enough. *)
LEMMA HandleTimed ==
  ASSUME IInv, NEW L, Timely(L), TimedInv(L), NEW w \in workers, HandleStore(w)
  PROVE  TimedInv(L)'
<1> DEFINE t == Outcome(w).transition
           r == Outcome(w).state
           v == [w EXCEPT !.pc = "notify", !.transition = t]
<1>1. /\ w \in Worker /\ w.spec \in Specs /\ OneEach /\ w.pc = "handle"
      /\ OnTime(w) /\ LoopTimed(L) /\ rpc = "waiting" /\ now \in Nat /\ nextTick \in Int
  BY WorkerType DEF IInv, Idle, TimedInv, TypeOK, HandleStore
<1>2. /\ CycleInterval \in Nat \ {0} /\ L \in Nat
      /\ Conf[w.spec].timeout \in Nat /\ SpecStartDelay(w.spec, 1) \in Nat
  BY <1>1, TimelyTypes
<1>3. /\ Base \in Int /\ StartBy(w.spec) \in Int /\ Base <= now
      /\ nextTick # ZeroTime => StartBy(w.spec) = Base
  BY <1>1, <1>2 DEF Base, StartBy, LoopTimed
<1>4. /\ w.loaded = Get(w.spec) /\ w.loaded \in SpecStates /\ w.ok \in BOOLEAN
      /\ w.completedAt \in Nat
  BY <1>1 DEF IInv, NoLostUpdate, WorkerOK, Worker
<1>5. /\ t \in Transitions /\ r \in SpecStates /\ r.LastCycleAt = w.completedAt
  BY <1>1, <1>4, OutcomeType, OutcomeFacts
<1>6. \A s \in Specs : Get(s)' = IF s = w.spec THEN r ELSE Get(s)
  BY <1>1, <1>5, SetEntry DEF HandleStore, IInv
<1>7. v.spec = w.spec /\ v.pc = "notify"
  BY <1>1 DEF Worker
<1>8. /\ IF t = "none" THEN Return(w) ELSE Become(w, v)
      /\ failures'  = [failures EXCEPT ![w.spec] = IF w.ok THEN 0 ELSE failures[w.spec] + 1]
      /\ successes' = [successes EXCEPT ![w.spec] = IF w.ok THEN successes[w.spec] + 1 ELSE 0]
      /\ UNCHANGED <<rpc, cycleNumber, now, nextTick, tickPending>>
  BY DEF HandleStore, loopVars, clockVars
<1>9. Base' = Base /\ \A x : OnTime(x) => OnTime(x)'
  <2>1. Base' = Base
    BY <1>8 DEF Base
  <2> QED
    BY <1>8, <2>1 DEF OnTime, StartBy
<1>10. LoopTimed(L)'
  BY <1>1, <1>8 DEF LoopTimed
<1>11. /\ w.loaded.Status = "healthy" =>
            w.loaded.ConsecutiveFailures < FailureThreshold(w.spec)
       /\ w.loaded.Status = "failing" =>
            w.loaded.ConsecutiveSuccesses < SuccessThreshold(w.spec)
  BY <1>1, <1>4 DEF IInv, CountersHonest
<1>12. \/ ~IsStale(w.loaded, w.completedAt, CycleInterval)
       \/ FailureThreshold(w.spec) = 1 /\ SuccessThreshold(w.spec) = 1
  <2>1. CASE FailureThreshold(w.spec) = 1 /\ SuccessThreshold(w.spec) = 1
    BY <2>1
  <2>2. CASE Conf[w.spec].everyCycles <= 1 /\ L + Conf[w.spec].timeout <= CycleInterval
    <3>1. EntryTimed(w.spec, L) /\ Uncounted(w.spec)
      BY <1>1, <2>2 DEF TimedInv, Uncounted, BeforeResult
    <3>2. w.completedAt <= StartBy(w.spec) + Conf[w.spec].timeout
      BY <1>1 DEF OnTime
    <3>3. w.loaded.LastCycleAt # ZeroTime =>
            w.completedAt - w.loaded.LastCycleAt <= 2 * CycleInterval
      <4>1. w.loaded.LastCycleAt \in Int
        BY <1>4 DEF SpecStates, Times, ZeroTime
      <4>2. w.loaded.LastCycleAt # ZeroTime =>
              nextTick # ZeroTime /\ w.loaded.LastCycleAt >= Base - L - CycleInterval
        BY <1>1, <1>4, <3>1 DEF EntryTimed
      <4> QED
        BY <1>2, <1>3, <1>4, <2>2, <3>2, <4>1, <4>2
    <3>4. CycleInterval \in 1 .. DurationRange - 1
      BY DEF Timely
    <3> QED
      BY <1>4, <3>3, <3>4, NotStale
  <2> QED
    BY <1>1, <2>1, <2>2 DEF Timely, OnTime
<1>13. /\ r.Status = "healthy" =>
            IF w.loaded.Status = "healthy"
            THEN r.ConsecutiveFailures = IF w.ok THEN 0 ELSE w.loaded.ConsecutiveFailures + 1
            ELSE w.ok /\ r.ConsecutiveFailures = 0
       /\ r.Status = "failing" =>
            IF w.loaded.Status = "failing"
            THEN r.ConsecutiveSuccesses = IF w.ok THEN w.loaded.ConsecutiveSuccesses + 1 ELSE 0
            ELSE ~w.ok /\ r.ConsecutiveSuccesses = 0
  BY <1>1, <1>4, <1>11, <1>12, OutcomeCounts
<1> HIDE DEF t, r, v
<1>14. ASSUME NEW s \in Specs PROVE RunsKept(s)'
  <2>1. failures \in [Specs -> Nat] /\ successes \in [Specs -> Nat]
    BY DEF IInv, TypeOK
  <2>2. RunsKept(s)
    BY DEF TimedInv
  <2>3. CASE s # w.spec
    <3>1. Get(s)' = Get(s) /\ failures'[s] = failures[s] /\ successes'[s] = successes[s]
      BY <1>1, <1>6, <1>8, <2>1, <2>3
    <3> QED
      BY <2>2, <3>1 DEF RunsKept
  <2>4. CASE s = w.spec
    <3>1. /\ Get(s)' = r
          /\ failures'[s] = IF w.ok THEN 0 ELSE failures[s] + 1
          /\ successes'[s] = IF w.ok THEN successes[s] + 1 ELSE 0
      BY <1>1, <1>6, <1>8, <2>1, <2>4
    <3>2. w.loaded.Status \in {"healthy", "failing"}
      BY <1>4 DEF SpecStates, Statuses
    <3> QED
      BY <1>4, <1>13, <2>2, <2>4, <3>1, <3>2 DEF RunsKept
  <2> QED
    BY <2>3, <2>4
<1>15. /\ \A x \in workers' : \/ x = v
                              \/ x \in workers /\ x # w /\ x.spec # w.spec
       /\ \A x \in workers : x = w \/ x \in workers'
  <2>1. CASE t # "none"
    BY <1>1, <1>7, <1>8, <2>1, BecomeFacts
  <2>2. CASE t = "none"
    BY <1>1, <1>8, <2>2, ReturnFacts
  <2> QED
    BY <2>1, <2>2
<1>16. ASSUME NEW x \in workers' PROVE OnTime(x)'
  <2>1. OnTime(v)
    BY <1>1, <1>7 DEF OnTime
  <2> QED
    BY <1>9, <1>15, <2>1 DEF TimedInv
<1>17. ASSUME NEW s \in Specs, Conf[s].everyCycles <= 1 PROVE EntryTimed(s, L)'
  <2>1. CASE s # w.spec
    <3>1. Get(s)' = Get(s) /\ EntryTimed(s, L)
      BY <1>6, <1>17, <2>1 DEF TimedInv
    <3>2. Uncounted(s)' <=> Uncounted(s)
      BY <1>7, <1>15, <2>1 DEF Uncounted
    <3> QED
      BY <1>8, <1>9, <3>1, <3>2 DEF EntryTimed
  <2>2. CASE s = w.spec
    <3>1. Get(s)'.LastCycleAt = w.completedAt
      BY <1>5, <1>6, <2>2 DEF r
    <3>2. ~Uncounted(s)'
      BY <1>7, <1>15, <2>2 DEF Uncounted, BeforeResult
    <3>3. Base <= w.completedAt /\ Conf[s].active
      BY <1>1, <2>2 DEF OnTime
    <3> QED
      BY <1>1, <1>2, <1>3, <1>4, <1>8, <1>9, <3>1, <3>2, <3>3 DEF EntryTimed
  <2> QED
    BY <2>1, <2>2
<1> QED
  BY <1>10, <1>14, <1>16, <1>17 DEF TimedInv
(* runCycle starts its goroutines when the last cycle was on time.         *)
LEMMA RunCycleTimed ==
  ASSUME IInv, NEW L, Timely(L), TimedInv(L), FirstCycle \/ TickerCycle
  PROVE  TimedInv(L)'
<1> DEFINE n == cycleNumber + 1
           begin == IF nextTick = ZeroTime THEN 0 ELSE nextTick - CycleInterval
<1>1. /\ workers = {} /\ LoopTimed(L) /\ now \in Nat /\ nextTick \in Int /\ cycleNumber \in Nat
  BY RunnerAssumption DEF IInv, Idle, TimedInv, TypeOK, FirstCycle, TickerCycle
<1>2. CycleInterval \in Nat \ {0} /\ L \in Nat /\ L <= CycleInterval
  BY TimelyTypes
<1>3. /\ UNCHANGED <<store, now, nextTick, failures, successes>>
      /\ ~tickPending'
      /\ cycleNumber' = n /\ rpc' = "waiting"
      /\ now = begin
      /\ nextTick = ZeroTime <=> n = 1
      /\ nextTick # ZeroTime => nextTick >= 0 /\ rpc = "select" /\ tickPending
  <2>1. CASE FirstCycle
    <3>1. rpc = "start" /\ UNCHANGED <<store, now, nextTick, tickPending, failures, successes>>
      BY <2>1 DEF FirstCycle, clockVars, historyVars
    <3>2. cycleNumber = 0 /\ now = 0 /\ nextTick = ZeroTime /\ ~tickPending
      BY <1>1, <3>1 DEF LoopTimed
    <3> QED
      BY <2>1, <3>1, <3>2 DEF FirstCycle, RunCycle
  <2>2. CASE TickerCycle
    <3>1. /\ rpc = "select" /\ tickPending /\ ~tickPending'
          /\ UNCHANGED <<store, now, nextTick, failures, successes>>
      BY <2>2 DEF TickerCycle, historyVars
    <3>2. nextTick # ZeroTime /\ cycleNumber >= 1 /\ nextTick >= 0
      BY <1>1, <3>1 DEF LoopTimed
    <3>3. now = nextTick - CycleInterval
      BY <1>1, <3>1, <3>2 DEF LoopTimed
    <3> QED
      BY <1>1, <2>2, <3>1, <3>2, <3>3 DEF TickerCycle, RunCycle
  <2> QED
    BY <2>1, <2>2
<1>4. Base' = begin
  BY <1>1, <1>2, <1>3 DEF Base
<1>5. workers' = {NewWorker(s, n) : s \in {t \in Specs : RunsIn(t, n)}}
  BY <1>1 DEF FirstCycle, TickerCycle, RunCycle
<1>6. \A s : Get(s)' = Get(s)
  BY <1>3, SameStore
<1>7. LoopTimed(L)'
  BY <1>1, <1>2, <1>3 DEF LoopTimed
<1>8. ASSUME NEW x \in workers' PROVE OnTime(x)'
  <2>1. PICK s \in Specs : RunsIn(s, n) /\ x = NewWorker(s, n)
    BY <1>5
  <2>2. /\ SpecStartDelay(s, 1) \in Nat
        /\ n # 1 => SpecStartDelay(s, n) = 0
        /\ Conf[s].timeout \in Nat /\ Conf[s].active
    BY <2>1, TimelyTypes DEF RunsIn
  <2>3. /\ x.spec = s /\ x.pc = IF SpecStartDelay(s, n) > 0 THEN "sleep" ELSE "ready"
        /\ x.due = now + SpecStartDelay(s, n)
    BY <2>1 DEF NewWorker
  <2>4. StartBy(s)' = IF n = 1 THEN SpecStartDelay(s, 1) ELSE begin
    <3>1. nextTick' = nextTick
      BY <1>3
    <3> QED
      BY <1>3, <1>4, <3>1 DEF StartBy, SpecStartDelay
  <2>5. now' = now /\ nextTick' = nextTick
    BY <1>3
  <2>6. StartBy(x.spec)' = IF n = 1 THEN SpecStartDelay(s, 1) ELSE begin
    BY <2>3, <2>4
  <2>7. n = 1 => begin = 0
    BY <1>3
  <2> HIDE DEF n, begin
  <2>8. CASE x.pc = "sleep"
    <3>1. n = 1
      BY <2>2, <2>3, <2>8
    <3>2. nextTick' = ZeroTime /\ now' = 0 /\ x.due = SpecStartDelay(s, 1)
      <4>1. now = 0 /\ x.due = 0 + SpecStartDelay(s, 1)
        BY <1>3, <2>3, <2>7, <3>1
      <4> QED
        BY <1>3, <2>2, <2>5, <3>1, <4>1
    <3>3. StartBy(x.spec)' = SpecStartDelay(s, 1)
      BY <2>6, <3>1
    <3> QED
      BY <2>2, <2>3, <2>8, <3>2, <3>3 DEF OnTime
  <2>9. CASE x.pc = "ready"
    <3>1. now' <= StartBy(x.spec)'
      BY <1>1, <1>3, <2>2, <2>5, <2>6, <2>7
    <3> QED
      BY <2>2, <2>3, <2>9, <3>1 DEF OnTime
  <2> QED
    BY <2>3, <2>8, <2>9
<1>9. ASSUME NEW s \in Specs, Conf[s].everyCycles <= 1 PROVE EntryTimed(s, L)'
  <2>1. EntryTimed(s, L) /\ Get(s).LastCycleAt \in Int
    BY <1>9, GetType DEF TimedInv, IInv, SpecStates, Times, ZeroTime
  <2>2. CASE nextTick = ZeroTime
    <3>1. Get(s).LastCycleAt = ZeroTime
      BY <1>1, <1>3, <2>1, <2>2 DEF EntryTimed, LoopTimed, FirstCycle, TickerCycle
    <3> QED
      BY <1>3, <1>6, <3>1 DEF EntryTimed
  <2>3. CASE nextTick # ZeroTime
    <3>1. /\ Get(s).LastCycleAt # ZeroTime => Conf[s].active
          /\ Get(s).LastCycleAt # ZeroTime => Get(s).LastCycleAt >= Base - L
          /\ Base = begin - CycleInterval
      <4>1. ~Uncounted(s)
        BY <1>1 DEF Uncounted
      <4> QED
        BY <1>1, <1>2, <1>3, <2>1, <2>3, <4>1 DEF EntryTimed, Base
    <3>2. Conf[s].active => Uncounted(s)'
      <4>1. Conf[s].active => NewWorker(s, n) \in workers'
        BY <1>5, <1>9 DEF RunsIn, ShouldRunInCycle
      <4>2. NewWorker(s, n).spec = s /\ BeforeResult(NewWorker(s, n))
        BY DEF NewWorker, BeforeResult
      <4> HIDE DEF n
      <4> QED
        BY <4>1, <4>2 DEF Uncounted
    <3> QED
      BY <1>1, <1>2, <1>3, <1>4, <1>6, <2>1, <2>3, <3>1, <3>2 DEF EntryTimed
  <2> QED
    BY <2>2, <2>3
<1>10. ASSUME NEW s \in Specs PROVE RunsKept(s)'
  BY <1>3, <1>6 DEF TimedInv, RunsKept
<1> QED
  BY <1>7, <1>8, <1>9, <1>10 DEF TimedInv

(* wg.Wait returns; the first time the ticker starts.                      *)
LEMMA EndCycleTimed ==
  ASSUME IInv, NEW L, Timely(L), TimedInv(L), EndCycle
  PROVE  TimedInv(L)'
<1>1. /\ workers = {} /\ rpc = "waiting" /\ LoopTimed(L)
      /\ now \in Nat /\ nextTick \in Int /\ cycleNumber \in Nat
  BY RunnerAssumption DEF IInv, TimedInv, TypeOK, EndCycle
<1>2. CycleInterval \in Nat \ {0} /\ L \in Nat /\ L <= CycleInterval
  BY TimelyTypes
<1>3. /\ UNCHANGED <<cycleNumber, workers, store, now, tickPending, failures, successes>>
      /\ rpc' = "select"
      /\ nextTick' = IF nextTick = ZeroTime THEN now + CycleInterval ELSE nextTick
  BY <1>2 DEF EndCycle, historyVars
<1>4. \A s : Get(s)' = Get(s)
  BY <1>3, SameStore
<1>5. LoopTimed(L)'
  BY <1>1, <1>2, <1>3 DEF LoopTimed, ZeroTime
<1>6. ASSUME NEW s \in Specs, Conf[s].everyCycles <= 1 PROVE EntryTimed(s, L)'
  <2>1. EntryTimed(s, L) /\ Get(s).LastCycleAt \in Times
    BY <1>6, GetType DEF TimedInv, IInv, SpecStates
  <2>2. ~Uncounted(s) /\ ~Uncounted(s)'
    BY <1>1, <1>3 DEF Uncounted
  <2>3. CASE nextTick = ZeroTime
    <3>1. Base' = now /\ now <= L
      BY <1>1, <1>2, <1>3, <2>3 DEF Base, LoopTimed, ZeroTime
    <3> QED
      BY <1>1, <1>2, <1>3, <1>4, <2>1, <2>2, <3>1 DEF EntryTimed, Times
  <2>4. CASE nextTick # ZeroTime
    <3>1. Base' = Base
      BY <1>3, <2>4 DEF Base
    <3> QED
      BY <1>1, <1>3, <1>4, <2>1, <2>2, <2>4, <3>1 DEF EntryTimed
  <2> QED
    BY <2>3, <2>4
<1>7. ASSUME NEW s \in Specs PROVE RunsKept(s)'
  BY <1>3, <1>4 DEF TimedInv, RunsKept
<1> QED
  BY <1>1, <1>3, <1>5, <1>6, <1>7 DEF TimedInv

(* Time passes: only while every goroutine waits, and none of them waits   *)
(* for longer than its phase may take.                                     *)
LEMMA TickTimed ==
  ASSUME IInv, NEW L, Timely(L), TimedInv(L), Tick
  PROVE  TimedInv(L)'
<1>1. /\ LoopTimed(L) /\ now \in Nat /\ nextTick \in Int /\ workers \subseteq Worker
      /\ workers # {} => rpc = "waiting"
  BY DEF IInv, Idle, TimedInv, TypeOK
<1>2. CycleInterval \in Nat \ {0} /\ L \in Nat /\ L <= CycleInterval /\ MailTimeout \in Nat
  BY TimelyTypes
<1>3. /\ rpc # "start"
      /\ rpc = "waiting" => workers # {}
      /\ rpc = "select" => ~tickPending
      /\ \A w \in workers : w.pc \in {"sleep", "check", "mail"} /\ now < w.due
  BY <1>1 DEF Timely, Tick, Urgent, Worker, WorkerPCs
<1>4. /\ UNCHANGED <<rpc, cycleNumber, workers, store, failures, successes>>
      /\ now' = now + 1
      /\ IF nextTick # ZeroTime /\ now + 1 >= nextTick
         THEN tickPending' = TRUE /\ nextTick' = nextTick + CycleInterval
         ELSE UNCHANGED <<tickPending, nextTick>>
  BY DEF Tick, loopVars, historyVars
<1>5. \A s : Get(s)' = Get(s)
  BY <1>4, SameStore
<1>6. ASSUME NEW w \in workers
      PROVE  /\ w.spec \in Specs /\ Base \in Int /\ StartBy(w.spec) \in Int
             /\ w.due \in Nat /\ now + 1 <= w.due
             /\ nextTick = ZeroTime => w.due <= L
             /\ nextTick # ZeroTime => w.due <= Base + L
  <2>1. w \in Worker /\ w.spec \in Specs /\ w.due \in Nat /\ OnTime(w)
    BY <1>1 DEF TimedInv, Worker
  <2>2. /\ SpecStartDelay(w.spec, 1) \in Nat /\ Conf[w.spec].timeout \in Nat
        /\ Conf[w.spec].mail \in BOOLEAN
    BY <2>1, TimelyTypes
  <2>3. CycleLasts(w.spec) <= L
    BY <2>1 DEF Timely, OnTime
  <2>4. Base \in Int /\ StartBy(w.spec) \in Int
    BY <1>1, <1>2, <2>2 DEF Base, StartBy
  <2>5. /\ w.due <= StartBy(w.spec) + Conf[w.spec].timeout
                      + (IF Conf[w.spec].mail THEN MailTimeout ELSE 0)
    BY <1>2, <1>3, <2>1, <2>2, <2>4 DEF OnTime
  <2> QED
    BY <1>1, <1>2, <1>3, <2>1, <2>2, <2>3, <2>4, <2>5 DEF CycleLasts, StartBy
<1>7. rpc = "waiting" => /\ nextTick = ZeroTime => now + 1 <= L
                         /\ nextTick # ZeroTime => Base \in Int /\ now + 1 <= Base + L
  <2>1. SUFFICES ASSUME rpc = "waiting"
                 PROVE  /\ nextTick = ZeroTime => now + 1 <= L
                        /\ nextTick # ZeroTime => Base \in Int /\ now + 1 <= Base + L
    OBVIOUS
  <2>2. PICK w \in workers : TRUE
    BY <1>3, <2>1
  <2> QED
    BY <1>1, <1>2, <1>6, <2>2
<1>8. /\ LoopTimed(L)' /\ (nextTick' = ZeroTime <=> nextTick = ZeroTime)
      /\ rpc \in {"waiting", "select"} => Base' = Base
  <2>1. CASE rpc \in {"waiting", "select"}
    <3>1. CASE nextTick = ZeroTime
      <4>1. now + 1 <= L
        BY <1>1, <1>7, <2>1, <3>1 DEF LoopTimed
      <4> QED
        BY <1>1, <1>3, <1>4, <2>1, <3>1, <4>1 DEF Base, LoopTimed
    <3>2. CASE nextTick # ZeroTime /\ tickPending
      <4>1. rpc = "waiting" /\ now = nextTick - CycleInterval /\ now + 1 <= Base + L
        BY <1>1, <1>3, <1>7, <2>1, <3>2 DEF LoopTimed
      <4> QED
        BY <1>1, <1>2, <3>2, <4>1 DEF Base
    <3>3. CASE nextTick # ZeroTime /\ ~tickPending
      <4>1. nextTick >= 0 /\ nextTick - CycleInterval <= now /\ now < nextTick
        BY <1>1, <2>1, <3>3 DEF LoopTimed
      <4>2. CASE now + 1 >= nextTick
        <5>1. now + 1 = nextTick /\ tickPending' = TRUE /\ nextTick' = nextTick + CycleInterval
          BY <1>1, <1>4, <3>3, <4>1, <4>2
        <5>2. nextTick' # ZeroTime /\ nextTick' >= 0 /\ now' = nextTick' - CycleInterval
          BY <1>1, <1>2, <1>4, <4>1, <5>1 DEF ZeroTime
        <5>3. Base' = Base
          BY <1>1, <1>2, <3>3, <5>1, <5>2 DEF Base
        <5> QED
          BY <1>1, <1>3, <1>4, <3>3, <5>1, <5>2, <5>3 DEF LoopTimed
      <4>3. CASE now + 1 < nextTick
        <5>1. UNCHANGED <<tickPending, nextTick>>
          BY <1>1, <1>4, <4>3
        <5> QED
          BY <1>1, <1>2, <1>3, <1>4, <3>3, <4>1, <4>3, <5>1 DEF Base, LoopTimed
      <4> QED
        BY <1>1, <4>2, <4>3
    <3> QED
      BY <3>1, <3>2, <3>3
  <2>2. CASE rpc \notin {"waiting", "select"}
    <3>1. CASE UNCHANGED <<tickPending, nextTick>>
      BY <1>1, <1>3, <1>4, <2>2, <3>1 DEF LoopTimed
    <3>2. CASE nextTick # ZeroTime /\ now + 1 >= nextTick
      BY <1>1, <1>2, <1>3, <1>4, <2>2, <3>2 DEF LoopTimed, ZeroTime
    <3> QED
      BY <1>4, <3>1, <3>2
  <2> QED
    BY <2>1, <2>2
<1>9. ASSUME NEW w \in workers PROVE OnTime(w)'
  <2>1. /\ OnTime(w) /\ w.spec \in Specs /\ w.due \in Nat /\ now + 1 <= w.due
        /\ w.pc \in {"sleep", "check", "mail"}
    BY <1>3, <1>6 DEF TimedInv
  <2>2. StartBy(w.spec)' = StartBy(w.spec) /\ Base' = Base
    BY <1>1, <1>8 DEF StartBy, SpecStartDelay
  <2> QED
    BY <1>4, <1>8, <2>1, <2>2 DEF OnTime
<1>10. ASSUME NEW s \in Specs, Conf[s].everyCycles <= 1 PROVE EntryTimed(s, L)'
  <2>1. EntryTimed(s, L) /\ (Uncounted(s)' <=> Uncounted(s))
    BY <1>4, <1>10 DEF TimedInv, Uncounted
  <2> QED
    BY <1>4, <1>5, <1>8, <2>1 DEF EntryTimed
<1>11. ASSUME NEW s \in Specs PROVE RunsKept(s)'
  BY <1>4, <1>5 DEF TimedInv, RunsKept
<1> QED
  BY <1>4, <1>8, <1>9, <1>10, <1>11 DEF TimedInv

(* The signal, and the end of Run.                                         *)
LEMMA DoneTimed ==
  ASSUME NEW L, TimedInv(L), SelectDone \/ Cancel \/ UNCHANGED vars
  PROVE  TimedInv(L)'
<1>1. /\ UNCHANGED <<cycleNumber, workers, store, now, nextTick, tickPending, failures, successes>>
      /\ rpc' = rpc \/ rpc' = "stopped"
  BY DEF SelectDone, Cancel, vars, loopVars, clockVars, historyVars
<1>2. /\ \A s : Get(s)' = Get(s)
      /\ \A s : Uncounted(s)' <=> Uncounted(s)
      /\ Base' = Base
  BY <1>1, SameStore DEF Uncounted, Base
<1>3. LoopTimed(L)'
  BY <1>1 DEF TimedInv, LoopTimed
<1>4. ASSUME NEW w \in workers PROVE OnTime(w)'
  BY <1>1, <1>2 DEF TimedInv, OnTime, StartBy
<1>5. ASSUME NEW s \in Specs, Conf[s].everyCycles <= 1 PROVE EntryTimed(s, L)'
  <2>1. EntryTimed(s, L)
    BY <1>5 DEF TimedInv
  <2> QED
    BY <1>1, <1>2, <2>1 DEF EntryTimed
<1>6. ASSUME NEW s \in Specs PROVE RunsKept(s)'
  BY <1>1, <1>2 DEF TimedInv, RunsKept
<1> QED
  BY <1>1, <1>3, <1>4, <1>5, <1>6 DEF TimedInv

(* The runner starts on time.                                              *)
LEMMA InitTimed ==
  ASSUME NEW L, Timely(L), Init
  PROVE  TimedInv(L)
<1>1. \A s \in Specs : Get(s) = FreshState /\ ~Uncounted(s)
  BY DEF Init, Get, Uncounted
<1> QED
  BY <1>1 DEF Init, TimedInv, LoopTimed, EntryTimed, RunsKept, FreshState

(* Every step keeps TimedInv.                                              *)
LEMMA NextTimed ==
  ASSUME NEW L, Timely(L), IInv, TimedInv(L), [Next]_vars
  PROVE  TimedInv(L)'
<1>1. CASE FirstCycle \/ TickerCycle
  BY <1>1, RunCycleTimed
<1>2. CASE EndCycle
  BY <1>2, EndCycleTimed
<1>3. CASE Tick
  BY <1>3, TickTimed
<1>4. CASE SelectDone \/ Cancel \/ UNCHANGED vars
  BY <1>4, DoneTimed
<1>5. ASSUME NEW w \in workers, WorkerStep(w) PROVE TimedInv(L)'
  BY <1>5, WorkerTimed, HandleTimed
<1> QED
  BY <1>1, <1>2, <1>3, <1>4, <1>5 DEF Next

(* When cycles are on time, a run of failed checks as long as its threshold*)
(* has always flipped the status, and a run of successful ones has flipped *)
(* it back: resetStaleConsecutiveState never forgets a run, whatever the   *)
(* thresholds and in whichever order goroutines and mails interleave.      *)
THEOREM ThresholdsForceTransitions ==
  ASSUME NEW L, Timely(L)
  PROVE  Safety => []ThresholdForcesTransition
<1>1. Init => TimedInv(L)
  BY InitTimed
<1>2. IInv /\ TimedInv(L) /\ [Next]_vars => TimedInv(L)'
  BY NextTimed
<1>3. IInv /\ TimedInv(L) => ThresholdForcesTransition
  <2> SUFFICES ASSUME IInv, TimedInv(L), NEW s \in Specs
               PROVE  /\ failures[s] >= FailureThreshold(s) => Get(s).Status = "failing"
                      /\ successes[s] >= SuccessThreshold(s) => Get(s).Status = "healthy"
    BY DEF ThresholdForcesTransition
  <2>1. RunsKept(s) /\ Get(s) \in SpecStates
    BY GetType DEF TimedInv, IInv
  <2>2. /\ Get(s).Status = "healthy" => Get(s).ConsecutiveFailures < FailureThreshold(s)
        /\ Get(s).Status = "failing" => Get(s).ConsecutiveSuccesses < SuccessThreshold(s)
    BY DEF IInv, CountersHonest
  <2>3. Get(s).Status \in {"healthy", "failing"}
    BY <2>1 DEF SpecStates, Statuses
  <2>4. /\ FailureThreshold(s) \in Nat /\ SuccessThreshold(s) \in Nat
        /\ Get(s).ConsecutiveFailures \in Nat /\ Get(s).ConsecutiveSuccesses \in Nat
    BY <2>1, ThresholdType DEF SpecStates
  <2> QED
    BY <2>1, <2>2, <2>3, <2>4 DEF RunsKept
<1> QED
  BY <1>1, <1>2, <1>3, Invariance, PTL DEF Safety
===============================================================================
