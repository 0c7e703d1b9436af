-------------------------------- MODULE Runner --------------------------------
(***************************************************************************)
(* internal/monitor/runner.go: the loop that runs all active specs in      *)
(* cycles, the goroutine it starts for every spec of a cycle, and the      *)
(* state store (internal/state/store.go) they read and write.              *)
(*                                                                         *)
(* Every Get and Set of the store is a step of its own, so a goroutine     *)
(* works on a copy that could be stale when it writes it back. Goroutines  *)
(* are a set of records; runCycle's WaitGroup is the test workers = {}.    *)
(* A check (validateSpec) is a step that returns any result its context    *)
(* allows; a mail phase is a step that ends by its deadline.               *)
(***************************************************************************)
EXTENDS CycleState, FiniteSets

CONSTANTS
  Specs,          \* the parsed specs; spec.Parse guarantees distinct IDs, so a spec is its ID
  Conf,           \* the fields of each spec the runner reads
  CycleInterval,  \* --cycle-interval; not validated, so any integer
  StartupJitter,  \* --startup-jitter; negative values are refused by config.Load
  MailTimeout,    \* deadline shared by the mails of one notice (30s)
  Prompt,         \* TRUE: steps that wait for nothing take no time
  MaxCycles,      \* bound: cycles started
  MaxTime         \* bound: clock

SpecConf == [active: BOOLEAN,      \* Spec.IsActive
             everyCycles: Nat,     \* negative values are refused by validateEveryCycles
             failure: Int,         \* cycles.failure
             success: Int,         \* cycles.success
             timeout: Nat,         \* longest duration of one check
             hash: Nat,            \* FNV-1a of the ID
             mail: BOOLEAN]        \* a mail service and at least one recipient

ASSUME RunnerAssumption ==
  /\ Conf \in [Specs -> SpecConf]
  /\ CycleInterval \in Int
  /\ StartupJitter \in Nat
  /\ MailTimeout \in Nat
  /\ Prompt \in BOOLEAN
  /\ MaxCycles \in Nat
  /\ MaxTime \in Nat

VARIABLES
  rpc,          \* where Run is
  cycleNumber,  \* Runner.cycleNumber
  workers,      \* the goroutines of the current cycle that have not returned
  store,        \* InMemoryStore.states
  ctxDone,      \* the context of Run has been cancelled
  now,          \* the clock
  nextTick,     \* when the ticker fires next; ZeroTime before NewTicker
  tickPending,  \* the ticker's channel (capacity one) holds a tick
  failures,     \* history: current run of failed checks of each spec
  successes,    \* history: current run of successful checks of each spec
  told          \* history: last transition whose actions were triggered

loopVars    == <<rpc, cycleNumber>>
clockVars   == <<now, nextTick, tickPending>>
historyVars == <<failures, successes, told>>
vars == <<rpc, cycleNumber, workers, store, ctxDone, now, nextTick, tickPending,
          failures, successes, told>>

RunPCs    == {"start", "waiting", "select", "stopped", "panicked"}
WorkerPCs == {"sleep", "ready", "mark", "check", "doomed", "handle", "notify", "mail"}

Worker == [spec: Specs,
           pc: WorkerPCs,
           due: Nat,                 \* when the timer or deadline of this phase expires
           startedAt: Times,         \* cycleStartedAt
           completedAt: Times,       \* cycleCompletedAt
           loaded: SpecStates,       \* the copy Get returned
           ok: BOOLEAN,              \* checkErr == nil
           transition: Transitions]

Init ==
  /\ rpc = "start"
  /\ cycleNumber = 0
  /\ workers = {}
  /\ store = [s \in {} |-> FreshState]
  /\ ctxDone = FALSE
  /\ now = 0
  /\ nextTick = ZeroTime
  /\ tickPending = FALSE
  /\ failures = [s \in Specs |-> 0]
  /\ successes = [s \in Specs |-> 0]
  /\ told = [s \in Specs |-> "none"]

-------------------------------------------------------------------------------
(* The store: a map guarded by a mutex.                                    *)

Get(s) == IF s \in DOMAIN store THEN store[s] ELSE FreshState

Set(s, st) == store' = [t \in DOMAIN store \cup {s} |-> IF t = s THEN st ELSE store[t]]

-------------------------------------------------------------------------------
(* What the runner reads of a spec.                                        *)

FailureThreshold(s) == ThresholdOrDefault(Conf[s].failure, 1)
SuccessThreshold(s) == ThresholdOrDefault(Conf[s].success, 1)

RunsIn(s, n) == Conf[s].active /\ ShouldRunInCycle(Conf[s].everyCycles, n)

(* The jitter of a spec is its hash modulo the maximum, first cycle only.  *)
SpecStartDelay(s, n) ==
  IF StartupJitter = 0 \/ n # 1 THEN 0 ELSE Conf[s].hash % StartupJitter

NewWorker(s, n) ==
  [spec |-> s,
   pc |-> IF SpecStartDelay(s, n) > 0 THEN "sleep" ELSE "ready",
   due |-> now + SpecStartDelay(s, n),
   startedAt |-> ZeroTime,
   completedAt |-> ZeroTime,
   loaded |-> FreshState,
   ok |-> FALSE,
   transition |-> "none"]

-------------------------------------------------------------------------------
(* Run and runCycle.                                                       *)

RunCycle ==
  /\ cycleNumber < MaxCycles
  /\ cycleNumber' = cycleNumber + 1
  /\ workers' = workers \cup {NewWorker(s, cycleNumber + 1) :
                                s \in {t \in Specs : RunsIn(t, cycleNumber + 1)}}
  /\ rpc' = "waiting"

FirstCycle ==
  /\ rpc = "start"
  /\ RunCycle
  /\ UNCHANGED <<store, ctxDone, clockVars, historyVars>>

TickerCycle ==
  /\ rpc = "select"
  /\ tickPending
  /\ tickPending' = FALSE
  /\ RunCycle
  /\ UNCHANGED <<store, ctxDone, now, nextTick, historyVars>>

MutantEndCycleNoWait ==
  /\ rpc = "waiting"
  /\ IF nextTick # ZeroTime
     THEN rpc' = "select" /\ UNCHANGED nextTick
     ELSE IF CycleInterval > 0
          THEN rpc' = "select" /\ nextTick' = now + CycleInterval
          ELSE rpc' = "panicked" /\ UNCHANGED nextTick
  /\ UNCHANGED <<cycleNumber, workers, store, ctxDone, now, tickPending, historyVars>>

(* wg.Wait returns. The ticker is created after the first cycle, and       *)
(* time.NewTicker panics when the interval is not positive.                *)
EndCycle ==
  /\ rpc = "waiting"
  /\ workers = {}
  /\ IF nextTick # ZeroTime
     THEN rpc' = "select" /\ UNCHANGED nextTick
     ELSE IF CycleInterval > 0
          THEN rpc' = "select" /\ nextTick' = now + CycleInterval
          ELSE rpc' = "panicked" /\ UNCHANGED nextTick
  /\ UNCHANGED <<cycleNumber, workers, store, ctxDone, now, tickPending, historyVars>>

MutantSelectDone ==
  /\ rpc = "select"
  /\ ctxDone \/ ~tickPending
  /\ rpc' = "stopped"
  /\ UNCHANGED <<cycleNumber, workers, store, ctxDone, clockVars, historyVars>>

SelectDone ==
  /\ rpc = "select"
  /\ ctxDone
  /\ rpc' = "stopped"
  /\ UNCHANGED <<cycleNumber, workers, store, ctxDone, clockVars, historyVars>>

-------------------------------------------------------------------------------
(* One goroutine of a cycle.                                               *)

Become(w, v) == workers' = (workers \ {w}) \cup {v}
Return(w)    == workers' = workers \ {w}

(* sleepWithContext: the timer fires.                                      *)
Wake(w) ==
  /\ w.pc = "sleep"
  /\ now >= w.due
  /\ Become(w, [w EXCEPT !.pc = "ready"])
  /\ UNCHANGED <<loopVars, store, ctxDone, clockVars, historyVars>>

(* sleepWithContext: the context is cancelled. Only a worker with a delay  *)
(* looks at the context here.                                              *)
Abandon(w) ==
  /\ w.pc = "sleep"
  /\ ctxDone
  /\ Return(w)
  /\ UNCHANGED <<loopVars, store, ctxDone, clockVars, historyVars>>

(* cycleStartedAt := time.Now(), then markCycleStarted's Get ...           *)
MarkLoad(w) ==
  /\ w.pc = "ready"
  /\ Become(w, [w EXCEPT !.pc = "mark", !.startedAt = now, !.loaded = Get(w.spec)])
  /\ UNCHANGED <<loopVars, store, ctxDone, clockVars, historyVars>>

(* Without the Get: everything but the stamp is forgotten.                 *)
MutantMarkStore(w) ==
  /\ w.pc = "mark"
  /\ Set(w.spec, [FreshState EXCEPT !.LastCycleStartedAt = w.startedAt])
  /\ Become(w, [w EXCEPT !.pc = IF ctxDone THEN "doomed" ELSE "check",
                         !.due = now + Conf[w.spec].timeout])
  /\ UNCHANGED <<loopVars, ctxDone, clockVars, historyVars>>

(* ... and its Set. A check begun under a cancelled context cannot succeed.*)
MarkStore(w) ==
  /\ w.pc = "mark"
  /\ Set(w.spec, [w.loaded EXCEPT !.LastCycleStartedAt = w.startedAt])
  /\ Become(w, [w EXCEPT !.pc = IF ctxDone THEN "doomed" ELSE "check",
                         !.due = now + Conf[w.spec].timeout])
  /\ UNCHANGED <<loopVars, ctxDone, clockVars, historyVars>>

MutantFinishCheck(w, ok) ==
  /\ w.pc = "check"
  /\ Become(w, [w EXCEPT !.pc = "handle", !.ok = ok, !.completedAt = now,
                         !.loaded = Get(w.spec)])
  /\ UNCHANGED <<loopVars, store, ctxDone, clockVars, historyVars>>

(* validateSpec returns; handleCycleResult takes the time and Gets.        *)
FinishCheck(w, ok) ==
  /\ w.pc \in {"check", "doomed"}
  /\ ok => w.pc = "check"
  /\ Become(w, [w EXCEPT !.pc = "handle", !.ok = ok, !.completedAt = now,
                         !.loaded = Get(w.spec)])
  /\ UNCHANGED <<loopVars, store, ctxDone, clockVars, historyVars>>

MutantOutcome(w) ==
  LET fresh == ResetStaleConsecutiveState(w.loaded, w.completedAt, CycleInterval)
      ft    == FailureThreshold(w.spec)
      st    == SuccessThreshold(w.spec)
  IN  [transition |-> TransitionOf(w.loaded, w.ok, ft, st),
       state |-> [ApplyCycleResult(fresh, w.ok, ft, st) EXCEPT
                    !.LastCycleStartedAt = w.startedAt,
                    !.LastCycleAt = w.completedAt]]

(* The rest of handleCycleResult up to and including its Set.              *)
Outcome(w) ==
  LET fresh == ResetStaleConsecutiveState(w.loaded, w.completedAt, CycleInterval)
      ft    == FailureThreshold(w.spec)
      st    == SuccessThreshold(w.spec)
  IN  [transition |-> TransitionOf(fresh, w.ok, ft, st),
       state |-> [ApplyCycleResult(fresh, w.ok, ft, st) EXCEPT
                    !.LastCycleStartedAt = w.startedAt,
                    !.LastCycleAt = w.completedAt]]

MutantHandleStoreKeepsMark(w) ==
  /\ w.pc = "handle"
  /\ Set(w.spec, [Outcome(w).state EXCEPT !.LastCycleAt = w.loaded.LastCycleAt])
  /\ IF Outcome(w).transition = "none"
     THEN Return(w)
     ELSE Become(w, [w EXCEPT !.pc = "notify", !.transition = Outcome(w).transition])
  /\ failures'  = [failures EXCEPT ![w.spec] = IF w.ok THEN 0 ELSE @ + 1]
  /\ successes' = [successes EXCEPT ![w.spec] = IF w.ok THEN @ + 1 ELSE 0]
  /\ UNCHANGED <<loopVars, ctxDone, clockVars, told>>

HandleStore(w) ==
  /\ w.pc = "handle"
  /\ Set(w.spec, Outcome(w).state)
  /\ IF Outcome(w).transition = "none"
     THEN Return(w)
     ELSE Become(w, [w EXCEPT !.pc = "notify", !.transition = Outcome(w).transition])
  /\ failures'  = [failures EXCEPT ![w.spec] = IF w.ok THEN 0 ELSE @ + 1]
  /\ successes' = [successes EXCEPT ![w.spec] = IF w.ok THEN @ + 1 ELSE 0]
  /\ UNCHANGED <<loopVars, ctxDone, clockVars, told>>

MutantNotify(w) ==
  /\ w.pc = "notify"
  /\ ~ctxDone
  /\ told' = [told EXCEPT ![w.spec] = w.transition]
  /\ IF Conf[w.spec].mail
     THEN Become(w, [w EXCEPT !.pc = "mail", !.due = now + MailTimeout])
     ELSE Return(w)
  /\ UNCHANGED <<loopVars, store, ctxDone, clockVars, failures, successes>>

(* triggerFailureActions and triggerRecoveryActions: start the script, and *)
(* enter the mail phase if somebody is to be mailed.                       *)
Notify(w) ==
  /\ w.pc = "notify"
  /\ told' = [told EXCEPT ![w.spec] = w.transition]
  /\ IF Conf[w.spec].mail
     THEN Become(w, [w EXCEPT !.pc = "mail", !.due = now + MailTimeout])
     ELSE Return(w)
  /\ UNCHANGED <<loopVars, store, ctxDone, clockVars, failures, successes>>

(* sendEmailToRecipients returns, by its deadline at the latest.           *)
FinishMail(w) ==
  /\ w.pc = "mail"
  /\ Return(w)
  /\ UNCHANGED <<loopVars, store, ctxDone, clockVars, historyVars>>

-------------------------------------------------------------------------------
(* The environment: the signal that cancels the context, and time.         *)

Cancel ==
  /\ ~ctxDone
  /\ ctxDone' = TRUE
  /\ UNCHANGED <<loopVars, workers, store, clockVars, historyVars>>

(* Something can happen without waiting.                                   *)
Urgent ==
  \/ rpc = "start"
  \/ rpc = "waiting" /\ workers = {}
  \/ rpc = "select" /\ (ctxDone \/ tickPending)
  \/ \E w \in workers :
       \/ w.pc \in {"ready", "mark", "doomed", "handle", "notify"}
       \/ now >= w.due
       \/ ctxDone /\ w.pc \in {"sleep", "check"}

(* The ticker drops a tick when its channel is full. The clock is bounded  *)
(* by MaxTime, and passes it only to let a sleeping worker wake up.        *)
Tick ==
  /\ now < MaxTime \/ \E w \in workers : w.pc = "sleep" /\ now < w.due
  /\ Prompt => ~Urgent
  /\ now' = now + 1
  /\ IF nextTick # ZeroTime /\ now + 1 >= nextTick
     THEN tickPending' = TRUE /\ nextTick' = nextTick + CycleInterval
     ELSE UNCHANGED <<tickPending, nextTick>>
  /\ UNCHANGED <<loopVars, workers, store, ctxDone, historyVars>>

-------------------------------------------------------------------------------
WorkerStep(w) ==
  \/ Wake(w) \/ Abandon(w)
  \/ MarkLoad(w) \/ MarkStore(w)
  \/ \E ok \in BOOLEAN : FinishCheck(w, ok)
  \/ HandleStore(w)
  \/ Notify(w) \/ FinishMail(w)

Next ==
  \/ FirstCycle \/ TickerCycle \/ EndCycle \/ SelectDone
  \/ \E w \in workers : WorkerStep(w)
  \/ Cancel \/ Tick

Safety == Init /\ [][Next]_vars

(* Go schedules every runnable goroutine, time passes, a check returns by  *)
(* its context's timeout and a mail phase by its deadline. The select of   *)
(* Run picks uniformly among ready cases: a cancelled context that is      *)
(* ready again and again is eventually picked.                             *)
Fairness ==
  /\ WF_vars(FirstCycle) /\ WF_vars(TickerCycle) /\ WF_vars(EndCycle)
  /\ SF_vars(SelectDone)
  /\ WF_vars(Tick)
  /\ \A s \in Specs : WF_vars(\E w \in workers : w.spec = s /\ WorkerStep(w))

Spec == Safety /\ Fairness
-------------------------------------------------------------------------------
(* Properties.                                                             *)

(* Every variable and every goroutine's locals stay in their types; the    *)
(* store never holds an entry for something that is not a spec.            *)
TypeOK ==
  /\ rpc \in RunPCs
  /\ cycleNumber \in 0 .. MaxCycles
  /\ workers \subseteq Worker
  /\ DOMAIN store \subseteq Specs
  /\ store \in [DOMAIN store -> SpecStates]
  /\ ctxDone \in BOOLEAN
  /\ now \in Nat
  /\ nextTick \in Int
  /\ tickPending \in BOOLEAN
  /\ failures \in [Specs -> Nat]
  /\ successes \in [Specs -> Nat]
  /\ told \in [Specs -> Transitions]

(* The goroutines of s that are between markCycleStarted's Set and          *)
(* handleCycleResult's.                                                    *)
Checking(s) == \E w \in workers : w.spec = s /\ w.pc \in {"check", "doomed", "handle"}

(* wg.Wait makes the checks of one spec serial: two goroutines never work  *)
(* on the same spec, however late one of them is, and Run is never between *)
(* cycles, or returned, while a check or a mail phase is still going.      *)
SerialChecks ==
  /\ \A v, w \in workers : v.spec = w.spec => v = w
  /\ rpc \in {"select", "stopped", "panicked"} => workers = {}

(* Get and Set are two critical sections: nothing may change the entry a   *)
(* goroutine has copied before it writes the copy back.                    *)
NoLostUpdate ==
  \A w \in workers : w.pc \in {"mark", "handle"} => w.loaded = Get(w.spec)

(* The stored counters never claim more consecutive results than there     *)
(* were, and no counter rests at its threshold without the transition it   *)
(* calls for.                                                              *)
CountersHonest ==
  \A s \in Specs :
    /\ Get(s).ConsecutiveFailures <= failures[s]
    /\ Get(s).ConsecutiveSuccesses <= successes[s]
    /\ Get(s).Status = "healthy" => /\ Get(s).ConsecutiveFailures < FailureThreshold(s)
                                    /\ Get(s).ConsecutiveSuccesses = 0
    /\ Get(s).Status = "failing" => Get(s).ConsecutiveSuccesses < SuccessThreshold(s)

(* The last notice that went out agrees with the stored status, except     *)
(* while the goroutine that changed the status is about to send it: no     *)
(* notice is lost, repeated or overtaken by the next one.                  *)
ToldMatchesStatus ==
  \A s \in Specs :
    \/ \E w \in workers : w.spec = s /\ w.pc = "notify"
    \/ told[s] = "failure" <=> Get(s).Status = "failing"

(* What the status page shows of a spec: a start later than the last       *)
(* completion means that a check is running, no completion is older than   *)
(* the start of its own check, and no stamp lies in the future.            *)
StampsOrdered ==
  \A s \in Specs :
    /\ Get(s).LastCycleStartedAt > Get(s).LastCycleAt => Checking(s)
    /\ Get(s).LastCycleStartedAt <= now
    /\ Get(s).LastCycleAt <= now

(* The status of a spec flips to failing only at the end of a run of       *)
(* FailureThreshold failed checks and back only at the end of a run of     *)
(* SuccessThreshold successful ones (README.md, Monitoring Semantics).     *)
TransitionsJustified ==
  [][\A s \in Specs :
       Get(s)'.Status # Get(s).Status =>
         IF Get(s)'.Status = "failing"
         THEN failures'[s] >= FailureThreshold(s)
         ELSE successes'[s] >= SuccessThreshold(s)]_vars

(* A run of failed checks as long as the threshold leaves the spec failing,*)
(* and a run of successful ones leaves it healthy. It holds when checks,   *)
(* mails and the cycle interval keep completed checks within two           *)
(* intervals; resetStaleConsecutiveState forgets the run when they do not. *)
ThresholdForcesTransition ==
  \A s \in Specs :
    /\ failures[s] >= FailureThreshold(s) => Get(s).Status = "failing"
    /\ successes[s] >= SuccessThreshold(s) => Get(s).Status = "healthy"

(* The notice a transition still owes.                                     *)
Notifying(s) == {w \in workers : w.spec = s /\ w.pc = "notify"}

Member(S) == CHOOSE x \in S : TRUE

Owed(s) == IF Notifying(s) = {} THEN "none" ELSE Member(Notifying(s)).transition

(* The runner, its goroutines and its store implement Alerting.            *)
A == INSTANCE Alerting
       WITH FailAfter    <- [s \in Specs |-> FailureThreshold(s)],
            RecoverAfter <- [s \in Specs |-> SuccessThreshold(s)],
            status       <- [s \in Specs |-> Get(s).Status],
            owed         <- [s \in Specs |-> Owed(s)]

(* Every step of the runner is a step of Alerting or changes nothing of    *)
(* it: transitions are earned, owe one notice each, and no result of the   *)
(* spec is counted before that notice is out.                              *)
ImplementsAlerting == A!Safety

(* Every notice a transition owes is sent: its goroutine reaches the       *)
(* actions whatever the other goroutines and the clock do.                 *)
NoticesGoOut == A!Spec

(* Every cycle ends: no goroutine keeps wg.Wait from returning for ever.   *)
CyclesEnd == rpc = "waiting" ~> rpc # "waiting"

(* A cancelled context ends Run, even if the ticker is always ready too.   *)
StopsAfterCancel == ctxDone ~> rpc \in {"stopped", "panicked"}
===============================================================================
