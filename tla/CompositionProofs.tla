--------------------------- MODULE CompositionProofs ---------------------------
(***************************************************************************)
(* What becomes of the runner among the parts it is composed with, for any *)
(* number of specs, clients and scripts.                                   *)
(*                                                                         *)
(* The process (Eddie): the monitor in it is a Runner, so what RunnerProofs*)
(* shows of a monitor of its own holds of it wherever an exit stops it;    *)
(* and the process with its monitor is a Service, so what is shown of the  *)
(* exit status holds of it. The shells of scripts, which no cycle waits    *)
(* for, are counted against the ticks of the cycles that started them      *)
(* (ScriptInv).                                                            *)
(*                                                                         *)
(* The status page (StatusPage): its reads interleave with the runner's    *)
(* goroutines, and still snapshots are as recent as they claim and streams *)
(* only go forward. The runner's invariant IInv is strengthened by Recent: *)
(* a goroutine has started its check after everything that the entry of    *)
(* its spec records, so whatever it writes is newer than what it replaces. *)
(***************************************************************************)
EXTENDS Eddie, StatusPage, RunnerProofs, FiniteSetTheorems

(* What a step of the process changes of the monitor: nothing, or what one *)
(* step of the monitor by itself would change.                             *)
LEMMA EddieStepRunner ==
  ASSUME [EddieNext]_eddieVars PROVE [Next]_vars
<1>1. CASE StartUp
  BY <1>1 DEF StartUp, StartMonitor, ProcessStep
<1>2. CASE ServerStep \/ ProcessStep(P!Ending) \/ ProcessStep(P!Deadline)
  BY <1>2 DEF ServerStep, ProcessStep
<1>3. CASE \E c \in Clients : ClientStep(c) \/ ProcessStep(P!Answer(c))
  BY <1>3 DEF ClientStep, ProcessStep
<1>4. CASE Signal
  BY <1>4 DEF Signal, Next
<1>5. CASE BeginCycle \/ FinishCycle \/ ReturnFromRun
  BY <1>5 DEF BeginCycle, FinishCycle, ReturnFromRun, Next
<1>6. CASE \E s \in Specs : CheckStep(s)
  BY <1>6 DEF CheckStep, Next
<1>7. CASE (\E script \in shells : ShellEnds(script)) \/ OutputCloses
  BY <1>7 DEF ShellEnds, OutputCloses
<1>8. CASE Elapse
  BY <1>8 DEF Elapse, Next
<1>9. CASE UNCHANGED eddieVars
  BY <1>9 DEF eddieVars
<1> QED
  BY <1>1, <1>2, <1>3, <1>4, <1>5, <1>6, <1>7, <1>8, <1>9 DEF EddieNext

(* Started late, stopped anywhere: what main and the server do never takes *)
(* the monitor out of the behaviours of a monitor of its own (runner.go).  *)
THEOREM EddieRunsRunner == EddieSpec => Safety
<1>1. EddieInit => Init
  BY DEF EddieInit
<1> QED
  BY <1>1, EddieStepRunner, PTL DEF EddieSpec, Safety

-------------------------------------------------------------------------------
(* Service by itself, which P is: why status zero is clean (P!ExitInv).    *)

(* Every step of the process keeps the invariant behind a clean exit.      *)
LEMMA ExitInvStep == P!ExitInv /\ [P!Next]_(P!vars) => P!ExitInv'
<1> SUFFICES ASSUME P!ExitInv, [P!Next]_(P!vars) PROVE P!ExitInv'
  OBVIOUS
<1> USE DEF P!ExitInv, P!ExitZeroIsClean, P!Exited, P!Busy
<1>1. CASE P!StartUp
  BY <1>1 DEF P!StartUp, P!LoadConfiguration, P!ConfigurationFails, P!ParseSpecs, P!ParseFails,
              P!ParseFailureMailed, P!NewServer, P!NewServerFails, P!Exit
<1>2. CASE P!SelectSignal
  BY <1>2 DEF P!SelectSignal
<1>3. CASE P!SelectServerErr
  BY <1>3 DEF P!SelectServerErr, P!Exit
<1>4. CASE P!ShutdownReturns
  BY <1>4 DEF P!ShutdownReturns, P!Exit
<1>5. CASE P!ShutdownExpires
  BY <1>5 DEF P!ShutdownExpires, P!Exit
<1>6. CASE P!Deadline
  BY <1>6 DEF P!Deadline
<1>7. CASE P!Listen \/ P!ListenAfterShutdown \/ P!ServerFails
  BY <1>7 DEF P!Listen, P!ListenAfterShutdown, P!ServerFails, P!Alive
<1>8. CASE \E c \in Clients : P!Request(c) \/ P!Answer(c) \/ P!Leave(c) \/ P!CloseIdle(c)
  BY <1>8 DEF P!Request, P!Answer, P!Leave, P!CloseIdle, P!Alive
<1>9. CASE P!Signal \/ P!RunnerReturns
  BY <1>9 DEF P!Signal, P!RunnerReturns, P!Alive
<1>10. CASE P!RunnerPanics
  BY <1>10 DEF P!RunnerPanics, P!Exit
<1>11. CASE UNCHANGED P!vars
  BY <1>11 DEF P!vars
<1> QED
  BY <1>1, <1>2, <1>3, <1>4, <1>5, <1>6, <1>7, <1>8, <1>9, <1>10, <1>11 DEF P!Next, P!Ending

(* Whatever the number of clients: status 0 means that eddie was asked to  *)
(* stop and broke off no response (the end of main, Shutdown).             *)
LEMMA ExitInvariance == P!Safety => []P!ExitInv
<1>1. P!Init => P!ExitInv
  BY DEF P!Init, P!ExitInv, P!ExitZeroIsClean, P!Exited
<1> QED
  BY <1>1, ExitInvStep, PTL DEF P!Safety

(* Of main with any number of clients: status 0 is clean (end of main).    *)
THEOREM ExitZeroMeansClean == P!Safety => []P!ExitZeroIsClean
<1>1. P!ExitInv => P!ExitZeroIsClean
  BY DEF P!ExitInv
<1> QED
  BY <1>1, ExitInvariance, PTL

-------------------------------------------------------------------------------
(* The process with its monitor is a Service.                              *)

(* The process with its monitor starts as a Service does.                  *)
LEMMA EddieInitService == EddieInit => P!Init
  BY DEF EddieInit, Init, Monitor, P!Init

(* Every step of it is one of a Service, or changes nothing that a Service *)
(* has.                                                                    *)
LEMMA EddieStepService ==
  ASSUME [EddieNext]_eddieVars PROVE [P!Next]_(P!vars)
<1> USE DEF P!vars, processVars
<1>1. CASE StartMonitor
  BY <1>1 DEF StartMonitor, P!Next, P!StartUp
<1>2. CASE ProcessStep(P!StartUp)
  BY <1>2 DEF ProcessStep, P!Next
<1>3. CASE ServerStep \/ ProcessStep(P!Ending) \/ ProcessStep(P!Deadline)
  BY <1>3 DEF ServerStep, ProcessStep, P!Next
<1>4. CASE \E c \in Clients : ClientStep(c) \/ ProcessStep(P!Answer(c))
  BY <1>4 DEF ClientStep, ProcessStep, P!Next
<1>5. CASE Signal
  <2>1. P!Signal
    BY <1>5 DEF Signal, Cancel, Monitor, P!Signal, loopVars
  <2> QED
    BY <2>1 DEF P!Next
<1>6. CASE BeginCycle
  BY <1>6 DEF BeginCycle, Running, FirstCycle, TickerCycle, RunCycle, Monitor, clockVars
<1>7. CASE ReturnFromRun
  <2>1. P!RunnerReturns
    BY <1>7 DEF ReturnFromRun, Running, SelectDone, Monitor, P!RunnerReturns
  <2> QED
    BY <2>1 DEF P!Next
<1>8. CASE FinishCycle
  <2>1. CASE rpc' = "panicked"
    <3>1. ~(CycleInterval > 0)
      BY <1>8, <2>1 DEF FinishCycle, EndCycle
    <3>2. P!RunnerPanics
      BY <1>8, <2>1, <3>1 DEF FinishCycle, Running, EndCycle, Monitor, P!RunnerPanics
    <3> QED
      BY <3>2 DEF P!Next
  <2>2. CASE rpc' # "panicked"
    BY <1>8, <2>2 DEF FinishCycle, Running, EndCycle, Monitor
  <2> QED
    BY <2>1, <2>2
<1>9. CASE \E s \in Specs : CheckStep(s)
  <2>1. PICK w \in workers : WorkerStep(w)
    BY <1>9 DEF CheckStep
  <2>2. rpc' = rpc /\ ctxDone' = ctxDone
    BY <2>1 DEF WorkerStep, Wake, Abandon, MarkLoad, MarkStore, FinishCheck, HandleStore,
                Notify, FinishMail, loopVars
  <2>3. UNCHANGED processVars
    BY <1>9 DEF CheckStep
  <2> QED
    BY <2>2, <2>3 DEF Monitor
<1>10. CASE (\E script \in shells : ShellEnds(script)) \/ OutputCloses
  BY <1>10 DEF ShellEnds, OutputCloses, Monitor, vars
<1>11. CASE Elapse
  BY <1>11 DEF Elapse, Tick, loopVars, Monitor
<1>12. CASE UNCHANGED eddieVars
  BY <1>12 DEF eddieVars, vars, Monitor
<1> QED
  BY <1>1, <1>2, <1>3, <1>4, <1>5, <1>6, <1>7, <1>8, <1>9, <1>10, <1>11, <1>12
     DEF EddieNext, StartUp

(* Run returns only after a signal, and it ends the process only where     *)
(* NewTicker panics (main.go, runner.go).                                  *)
THEOREM EddieImplementsService == EddieSpec => ImplementsService
<1> QED
  BY EddieInitService, EddieStepService, PTL DEF EddieSpec, ImplementsService, P!Safety

(* Status 0 means that eddie was asked to stop and broke off no response,  *)
(* whatever the monitor, its mails and its scripts were doing (main.go).   *)
THEOREM EddieExitsZeroOnlyClean == EddieSpec => []ExitZeroIsClean
<1>1. P!Safety => []P!ExitZeroIsClean
  BY ExitZeroMeansClean
<1> QED
  BY <1>1, EddieImplementsService, PTL DEF ImplementsService, ExitZeroIsClean

-------------------------------------------------------------------------------
(* What an exit cuts off. While the server is being built the clock stands *)
(* still (Prompt), so the ticker cannot start a second cycle.              *)
BuildInv ==
  /\ main \in {"http", "select", "shutdown"} => monitoring
  /\ main \in {"config", "specs", "mailing"} => ~monitoring
  /\ main \in {"select", "shutdown"} => server # "off"
  /\ rpc = "start" => cycleNumber = 0
  /\ server = "off" => ~tickPending /\ cycleNumber <= 1
  /\ main \in {"config", "specs", "mailing", "http", "select", "shutdown", "exited"}

(* Every step keeps what ties the monitor to the stages of main.           *)
LEMMA BuildInvStep ==
  ASSUME Prompt, BuildInv, [EddieNext]_eddieVars PROVE BuildInv'
<1> USE DEF BuildInv, processVars, loopVars, clockVars, vars
<1>1. CASE StartMonitor
  BY <1>1 DEF StartMonitor, P!ParseSpecs
<1>2. CASE ProcessStep(P!StartUp)
  BY <1>2 DEF ProcessStep, P!StartUp, P!LoadConfiguration, P!ConfigurationFails, P!ParseSpecs,
              P!ParseFails, P!ParseFailureMailed, P!NewServer, P!NewServerFails, P!Exit, Monitor
<1>3. CASE ServerStep
  BY <1>3 DEF ServerStep, ProcessStep, P!Listen, P!ListenAfterShutdown, P!ServerFails
<1>4. CASE ProcessStep(P!Ending) \/ ProcessStep(P!Deadline)
  BY <1>4 DEF ProcessStep, P!Ending, P!SelectSignal, P!SelectServerErr, P!ShutdownReturns,
              P!ShutdownExpires, P!Deadline, P!Exit
<1>5. CASE \E c \in Clients : ClientStep(c) \/ ProcessStep(P!Answer(c))
  BY <1>5 DEF ClientStep, ProcessStep, P!Request, P!Leave, P!CloseIdle, P!Answer
<1>6. CASE Signal
  BY <1>6 DEF Signal, Cancel
<1>7. CASE BeginCycle
  BY <1>7 DEF BeginCycle, FirstCycle, TickerCycle, RunCycle
<1>8. CASE ReturnFromRun
  BY <1>8 DEF ReturnFromRun, SelectDone
<1>9. CASE FinishCycle
  BY <1>9 DEF FinishCycle, EndCycle, P!Exit
<1>10. CASE \E s \in Specs : CheckStep(s)
  <2>1. PICK w \in workers : WorkerStep(w)
    BY <1>10 DEF CheckStep
  <2>2. UNCHANGED <<loopVars, tickPending>>
    BY <2>1 DEF WorkerStep, Wake, Abandon, MarkLoad, MarkStore, FinishCheck, HandleStore,
                Notify, FinishMail
  <2>3. UNCHANGED processVars
    BY <1>10 DEF CheckStep
  <2> QED
    BY <2>2, <2>3
<1>11. CASE (\E script \in shells : ShellEnds(script)) \/ OutputCloses
  BY <1>11 DEF ShellEnds, OutputCloses
<1>12. CASE Elapse
  <2>1. main # "http" /\ main # "exited" /\ monitoring
    BY <1>12 DEF Elapse, Running, P!Alive
  <2>2. server # "off"
    BY <2>1
  <2> QED
    BY <1>12, <2>2 DEF Elapse, Tick
<1>13. CASE UNCHANGED eddieVars
  BY <1>13 DEF eddieVars
<1> QED
  BY <1>1, <1>2, <1>3, <1>4, <1>5, <1>6, <1>7, <1>8, <1>9, <1>10, <1>11, <1>12, <1>13
     DEF EddieNext, StartUp

(* An exit cuts off nothing between cycles, of each spec at most the notice*)
(* of the check it was at, and a failure to build the server comes in the  *)
(* first cycle (main.go: the monitor is started first and not waited for). *)
THEOREM ExitLosesOneCycle ==
  ASSUME Prompt PROVE EddieSpec => []ExitCutsOffOneCycle
<1>1. EddieInit => BuildInv
  BY DEF EddieInit, Init, BuildInv
<1>2. BuildInv /\ [EddieNext]_eddieVars => BuildInv'
  BY BuildInvStep
<1>3. IInv /\ ToldMatchesStatus /\ BuildInv => ExitCutsOffOneCycle
  BY DEF IInv, Idle, ToldMatchesStatus, BuildInv, ExitCutsOffOneCycle, Notifying
<1>4. EddieSpec => []BuildInv
  BY <1>1, <1>2, PTL DEF EddieSpec
<1> QED
  BY <1>3, <1>4, EddieRunsRunner, Invariance, NoticesMatch, PTL

-------------------------------------------------------------------------------
(* Scripts beside the cycles. The scripts of a spec begun since t, and the *)
(* one its goroutine may yet start, each need a cycle of their own; one    *)
(* cycle was running at t, and each of the others took a tick of its own   *)
(* after t, which came an interval apart.                                  *)

StartOf(a)   == a.due - ScriptTimeout
Since(s, t)  == {a \in shells : a.spec = s /\ StartOf(a) >= t}
MayStart(s)  == \E w \in workers : w.spec = s /\ w.pc # "mail"
Starts(s, t) == Cardinality(Since(s, t)) + (IF MayStart(s) THEN 1 ELSE 0)

(* n cycles can have begun since t, or earlier and still be running at t.  *)
CyclesFit(n, t) ==
  IF nextTick = ZeroTime THEN n <= 1
  ELSE (n + (IF tickPending THEN 1 ELSE 0) - 2) * CycleInterval <= nextTick - t - 1

ScriptClock ==
  /\ rpc = "start" => shells = {} /\ nextTick = ZeroTime
  /\ IF nextTick = ZeroTime THEN ~tickPending
     ELSE now < nextTick /\ nextTick <= now + CycleInterval

ScriptInv ==
  /\ IsFiniteSet(shells)
  /\ \A a \in shells : a.due \in Nat /\ StartOf(a) <= now /\ now <= a.due
  /\ ScriptClock
  /\ \A s \in Specs : \A t \in Int : t <= now => CyclesFit(Starts(s, t), t)

(* There are finitely many scripts to count.                               *)
LEMMA SinceFinite ==
  ASSUME ScriptInv, NEW s, NEW t
  PROVE  /\ IsFiniteSet(Since(s, t))
         /\ Cardinality(Since(s, t)) \in Nat
         /\ Starts(s, t) \in Nat
<1>1. IsFiniteSet(Since(s, t))
  BY FS_Subset DEF ScriptInv, Since
<1>2. Cardinality(Since(s, t)) \in Nat
  BY <1>1, FS_CardinalityType
<1> QED
  BY <1>1, <1>2 DEF Starts

(* Fewer cycles fit too.                                                   *)
LEMMA FewerFit ==
  ASSUME NEW i \in Nat, NEW c \in Int, NEW m \in Int, NEW n \in Int, m <= n
  PROVE  (m + c) * i <= (n + c) * i
OBVIOUS

(* A goroutine that moves on does not get back to where it could start a   *)
(* script, and once it has sent its notice it cannot start another one.    *)
LEMMA WorkerMoves ==
  ASSUME IInv, NEW w \in workers, WorkerStep(w)
  PROVE  /\ \A s : MayStart(s)' => MayStart(s)
         /\ w.pc = "notify" => ~MayStart(w.spec)' /\ MayStart(w.spec)
         /\ \E x \in workers : x.spec = w.spec
<1>1. w \in Worker /\ OneEach
  BY WorkerType DEF IInv
<1>2. \/ Return(w)
      \/ /\ w.pc # "mail"
         /\ \E v : Become(w, v) /\ v.spec = w.spec /\ (w.pc = "notify" => v.pc = "mail")
  <2>1. CASE Wake(w)
    <3>1. w.pc = "sleep" /\ [w EXCEPT !.pc = "ready"].spec = w.spec
      BY <1>1, <2>1 DEF Wake, Worker
    <3> QED
      BY <2>1, <3>1 DEF Wake
  <2>2. CASE MarkLoad(w)
    <3> DEFINE v == [w EXCEPT !.pc = "mark", !.startedAt = now, !.loaded = Get(w.spec)]
    <3>1. w.pc = "ready" /\ v.spec = w.spec /\ Become(w, v)
      BY <1>1, <2>2 DEF MarkLoad, Worker
    <3> HIDE DEF v
    <3> QED
      BY <3>1
  <2>3. CASE MarkStore(w)
    <3> DEFINE v == [w EXCEPT !.pc = IF ctxDone THEN "doomed" ELSE "check",
                              !.due = now + Conf[w.spec].timeout]
    <3>1. w.pc = "mark" /\ v.spec = w.spec /\ Become(w, v)
      BY <1>1, <2>3 DEF MarkStore, Worker
    <3> HIDE DEF v
    <3> QED
      BY <3>1
  <2>4. ASSUME NEW ok \in BOOLEAN, FinishCheck(w, ok)
        PROVE  /\ w.pc # "mail" /\ w.pc # "notify"
               /\ \E v : Become(w, v) /\ v.spec = w.spec
    <3> DEFINE v == [w EXCEPT !.pc = "handle", !.ok = ok, !.completedAt = now,
                              !.loaded = Get(w.spec)]
    <3>1. w.pc \in {"check", "doomed"} /\ v.spec = w.spec /\ Become(w, v)
      BY <1>1, <2>4 DEF FinishCheck, Worker
    <3> HIDE DEF v
    <3> QED
      BY <3>1
  <2>5. CASE HandleStore(w)
    <3> DEFINE v == [w EXCEPT !.pc = "notify", !.transition = Outcome(w).transition]
    <3>1. w.pc = "handle" /\ v.spec = w.spec /\ (Return(w) \/ Become(w, v))
      BY <1>1, <2>5 DEF HandleStore, Worker
    <3> HIDE DEF v
    <3> QED
      BY <3>1
  <2>6. CASE Notify(w)
    <3> DEFINE v == [w EXCEPT !.pc = "mail", !.due = now + MailTimeout]
    <3>1. w.pc = "notify" /\ v.spec = w.spec /\ v.pc = "mail" /\ (Return(w) \/ Become(w, v))
      BY <1>1, <2>6 DEF Notify, Worker
    <3> HIDE DEF v
    <3> QED
      BY <3>1
  <2>7. CASE Abandon(w) \/ FinishMail(w)
    BY <2>7 DEF Abandon, FinishMail
  <2> QED
    BY <2>1, <2>2, <2>3, <2>4, <2>5, <2>6, <2>7 DEF WorkerStep
<1>3. CASE Return(w)
  <2>1. \A x \in workers' : x \in workers /\ x # w /\ x.spec # w.spec
    BY <1>1, <1>3, ReturnFacts
  <2> QED
    BY <2>1 DEF MayStart
<1>4. CASE /\ w.pc # "mail"
           /\ \E v : Become(w, v) /\ v.spec = w.spec /\ (w.pc = "notify" => v.pc = "mail")
  <2>1. PICK v : Become(w, v) /\ v.spec = w.spec /\ (w.pc = "notify" => v.pc = "mail")
    BY <1>4
  <2>2. \A x \in workers' : x = v \/ (x \in workers /\ x # w /\ x.spec # w.spec)
    BY <1>1, <2>1, BecomeFacts
  <2> QED
    BY <1>4, <2>1, <2>2 DEF MayStart
<1> QED
  BY <1>2, <1>3, <1>4

(* A step in which the clock stands still and no more scripts of a spec    *)
(* have been, or may be, started.                                          *)
LEMMA ScriptsQuiet ==
  ASSUME CycleInterval > 0, IInv, ScriptInv,
         UNCHANGED <<now, nextTick, tickPending>>,
         rpc' = "start" => rpc = "start" /\ shells' = shells,
         IsFiniteSet(shells'),
         \A a \in shells' : a.due \in Nat /\ StartOf(a) <= now /\ now <= a.due,
         \A s \in Specs : \A t \in Int : t <= now =>
           Starts(s, t)' \in Nat /\ Starts(s, t)' <= Starts(s, t)
  PROVE  ScriptInv'
<1>1. /\ now \in Nat /\ nextTick \in Int /\ tickPending \in BOOLEAN
      /\ CycleInterval \in Nat \ {0}
  BY RunnerAssumption DEF IInv, TypeOK
<1>2. ScriptClock'
  BY DEF ScriptInv, ScriptClock
<1>3. ASSUME NEW s \in Specs, NEW t \in Int, t <= now PROVE CyclesFit(Starts(s, t), t)'
  <2>1. PICK m : m = Starts(s, t)'
    OBVIOUS
  <2>2. PICK n : n = Starts(s, t)
    OBVIOUS
  <2>3. m \in Nat /\ n \in Nat /\ m <= n
    BY <1>3, <2>1, <2>2, SinceFinite
  <2>4. CyclesFit(n, t)
    BY <1>3, <2>2 DEF ScriptInv
  <2>5. CyclesFit(m, t)
    <3>1. CASE nextTick = ZeroTime
      BY <2>3, <2>4, <3>1 DEF CyclesFit
    <3>2. CASE nextTick # ZeroTime
      <4> DEFINE c == (IF tickPending THEN 1 ELSE 0) - 2
      <4>1. c \in Int /\ (n + c) * CycleInterval <= nextTick - t - 1
        BY <1>1, <2>3, <2>4, <3>2 DEF CyclesFit
      <4> HIDE DEF c
      <4>2. (m + c) * CycleInterval <= (n + c) * CycleInterval
        BY <1>1, <2>3, <4>1, FewerFit
      <4>3. (m + c) * CycleInterval \in Int /\ (n + c) * CycleInterval \in Int
        BY <1>1, <2>3, <4>1
      <4>4. (m + c) * CycleInterval <= nextTick - t - 1
        BY <1>1, <4>1, <4>2, <4>3
      <4> QED
        BY <1>1, <2>3, <3>2, <4>4 DEF CyclesFit, c
    <3> QED
      BY <3>1, <3>2
  <2>6. CyclesFit(m, t)'
    BY <2>5 DEF CyclesFit
  <2> QED
    BY <2>1, <2>6 DEF CyclesFit
<1>4. \A a \in shells' : (a.due \in Nat /\ StartOf(a) <= now /\ now <= a.due)'
  BY DEF StartOf
<1> QED
  BY <1>2, <1>3, <1>4 DEF ScriptInv

(* A goroutine moves on: the script it starts takes the place it had.      *)
LEMMA CheckStepScripts ==
  ASSUME CycleInterval > 0, IInv, ScriptInv, NEW s0 \in Specs, CheckStep(s0)
  PROVE  ScriptInv'
<1>1. PICK w \in workers : /\ w.spec = s0
                           /\ WorkerStep(w)
                           /\ shells' = shells \cup StartedScripts(w)
  BY DEF CheckStep
<1>2. /\ \A s : MayStart(s)' => MayStart(s)
      /\ w.pc = "notify" => ~MayStart(s0)' /\ MayStart(s0)
  BY <1>1, WorkerMoves
<1>3. now \in Nat /\ rpc = "waiting" /\ ScriptTimeout \in Nat
  BY EddieAssumption DEF IInv, TypeOK, Idle
<1>4. UNCHANGED <<rpc, now, nextTick, tickPending>>
  BY <1>1 DEF WorkerStep, Wake, Abandon, MarkLoad, MarkStore, FinishCheck, HandleStore, Notify,
              FinishMail, loopVars, clockVars
<1>5. CASE StartedScripts(w) = {}
  <2>1. shells' = shells
    BY <1>1, <1>5
  <2>2. ASSUME NEW s \in Specs, NEW t \in Int
        PROVE  Starts(s, t)' \in Nat /\ Starts(s, t)' <= Starts(s, t)
    <3>1. Since(s, t)' = Since(s, t)
      BY <2>1 DEF Since, StartOf
    <3> QED
      BY <1>2, <3>1, SinceFinite DEF Starts
  <2> QED
    BY <1>3, <1>4, <2>1, <2>2, ScriptsQuiet DEF ScriptInv
<1>6. CASE StartedScripts(w) # {}
  <2> DEFINE new == [spec |-> s0, transition |-> w.transition, due |-> now + ScriptTimeout]
  <2>1. w.pc = "notify" /\ StartedScripts(w) = {new}
    BY <1>1, <1>6 DEF StartedScripts
  <2>2. new.spec = s0 /\ new.due \in Nat /\ StartOf(new) = now /\ now <= new.due
    BY <1>3 DEF StartOf
  <2> HIDE DEF new
  <2>3. shells' = shells \cup {new}
    BY <1>1, <2>1
  <2>4. IsFiniteSet(shells')
    BY <2>3, FS_AddElement DEF ScriptInv
  <2>5. \A a \in shells' : a.due \in Nat /\ StartOf(a) <= now /\ now <= a.due
    BY <1>3, <2>2, <2>3 DEF ScriptInv
  <2>6. ASSUME NEW s \in Specs, NEW t \in Int
        PROVE  Starts(s, t)' \in Nat /\ Starts(s, t)' <= Starts(s, t)
    <3>1. CASE s # s0
      <4>1. Since(s, t)' = Since(s, t)
        BY <2>2, <2>3, <3>1 DEF Since, StartOf
      <4> QED
        BY <1>2, <4>1, SinceFinite DEF Starts
    <3>2. CASE s = s0
      <4>1. IsFiniteSet(Since(s, t)) /\ Cardinality(Since(s, t)) \in Nat
        BY SinceFinite
      <4>2. Since(s, t)' \subseteq Since(s, t) \cup {new}
        BY <2>3 DEF Since, StartOf
      <4>3. /\ IsFiniteSet(Since(s, t) \cup {new})
            /\ Cardinality(Since(s, t) \cup {new}) <= Cardinality(Since(s, t)) + 1
            /\ Cardinality(Since(s, t) \cup {new}) \in Nat
        <5>1. /\ IsFiniteSet(Since(s, t) \cup {new})
              /\ Cardinality(Since(s, t) \cup {new}) =
                   IF new \in Since(s, t) THEN Cardinality(Since(s, t))
                   ELSE Cardinality(Since(s, t)) + 1
          BY <4>1, FS_AddElement
        <5> QED
          BY <4>1, <5>1
      <4>4. /\ IsFiniteSet(Since(s, t)')
            /\ Cardinality(Since(s, t)') <= Cardinality(Since(s, t) \cup {new})
        BY <4>2, <4>3, FS_Subset
      <4>5. Cardinality(Since(s, t)') \in Nat
        BY <4>4, FS_CardinalityType
      <4>6. Starts(s, t)' = Cardinality(Since(s, t)') /\ Starts(s, t) = Cardinality(Since(s, t)) + 1
        <5>1. ~MayStart(s)' /\ MayStart(s)
          BY <1>2, <2>1, <3>2
        <5> QED
          BY <4>1, <4>5, <5>1 DEF Starts
      <4> QED
        BY <4>1, <4>3, <4>4, <4>5, <4>6
    <3> QED
      BY <3>1, <3>2
  <2> QED
    BY <1>3, <1>4, <2>4, <2>5, <2>6, ScriptsQuiet
<1> QED
  BY <1>5, <1>6

(* The shell of a script ends.                                             *)
LEMMA ShellEndsScripts ==
  ASSUME CycleInterval > 0, IInv, ScriptInv, NEW script \in shells, ShellEnds(script)
  PROVE  ScriptInv'
<1>1. /\ UNCHANGED <<rpc, now, nextTick, tickPending, workers>>
      /\ shells' = shells \ {script}
  BY DEF ShellEnds, vars
<1>2. IsFiniteSet(shells') /\ \A a \in shells' : a \in shells
  BY <1>1, FS_RemoveElement DEF ScriptInv
<1>3. ASSUME NEW s \in Specs, NEW t \in Int
      PROVE  Starts(s, t)' \in Nat /\ Starts(s, t)' <= Starts(s, t)
  <2>1. IsFiniteSet(Since(s, t)) /\ Cardinality(Since(s, t)) \in Nat
    BY SinceFinite
  <2>2. Since(s, t)' \subseteq Since(s, t)
    BY <1>2 DEF Since, StartOf
  <2>3. Cardinality(Since(s, t)') \in Nat /\ Cardinality(Since(s, t)') <= Cardinality(Since(s, t))
    BY <2>1, <2>2, FS_Subset, FS_CardinalityType
  <2>4. MayStart(s)' <=> MayStart(s)
    BY <1>1 DEF MayStart
  <2> QED
    BY <2>1, <2>3, <2>4 DEF Starts
<1>4. rpc' = "start" => shells' = shells
  BY <1>1 DEF ScriptInv, ScriptClock
<1> QED
  BY <1>1, <1>2, <1>3, <1>4, ScriptsQuiet DEF ScriptInv

(* What main, the server and its clients do, the signal, and the end of    *)
(* Run.                                                                    *)
LEMMA OtherStepScripts ==
  ASSUME CycleInterval > 0, IInv, ScriptInv,
         UNCHANGED <<now, nextTick, tickPending, workers, shells>>,
         rpc' = rpc \/ rpc' = "stopped"
  PROVE  ScriptInv'
<1>1. ASSUME NEW s \in Specs, NEW t \in Int
      PROVE  Starts(s, t)' \in Nat /\ Starts(s, t)' <= Starts(s, t)
  <2>1. Starts(s, t)' = Starts(s, t)
    BY DEF Starts, Since, StartOf, MayStart
  <2> QED
    BY <2>1, SinceFinite
<1> QED
  BY <1>1, ScriptsQuiet DEF ScriptInv

(* A cycle begins: the tick it takes made room for it.                     *)
LEMMA BeginCycleScripts ==
  ASSUME CycleInterval > 0, IInv, ScriptInv, BeginCycle
  PROVE  ScriptInv'
<1>1. /\ now \in Nat /\ nextTick \in Int /\ workers = {} /\ CycleInterval \in Nat \ {0}
  BY RunnerAssumption DEF IInv, TypeOK, Idle, BeginCycle, FirstCycle, TickerCycle
<1>2. UNCHANGED <<shells, now, nextTick>> /\ rpc' = "waiting"
  BY DEF BeginCycle, FirstCycle, TickerCycle, RunCycle, clockVars, scriptVars
<1>3. \/ rpc = "start" /\ shells = {} /\ nextTick = ZeroTime /\ tickPending' = tickPending
      \/ nextTick # ZeroTime /\ tickPending /\ ~tickPending'
  BY DEF BeginCycle, FirstCycle, TickerCycle, clockVars, ScriptInv, ScriptClock
<1>4. ScriptClock'
  BY <1>2, <1>3 DEF ScriptInv, ScriptClock
<1>5. ASSUME NEW s \in Specs, NEW t \in Int, t <= now PROVE CyclesFit(Starts(s, t), t)'
  <2>1. Since(s, t)' = Since(s, t) /\ Cardinality(Since(s, t)) \in Nat
    BY <1>2, SinceFinite DEF Since, StartOf
  <2>2. ~MayStart(s)
    BY <1>1 DEF MayStart
  <2>3. Starts(s, t) = Cardinality(Since(s, t))
    BY <2>1, <2>2 DEF Starts
  <2>4. Starts(s, t)' \in Nat /\ Starts(s, t)' <= Starts(s, t) + 1
    BY <2>1, <2>3 DEF Starts
  <2>5. CASE nextTick = ZeroTime
    <3>1. Since(s, t) = {}
      BY <1>3, <2>5 DEF Since
    <3>2. Starts(s, t) = 0
      BY <2>3, <3>1, FS_EmptySet
    <3> QED
      BY <1>2, <2>4, <2>5, <3>2 DEF CyclesFit
  <2>6. CASE nextTick # ZeroTime
    <3>1. PICK m : m = Starts(s, t)'
      OBVIOUS
    <3>2. PICK n : n = Starts(s, t)
      OBVIOUS
    <3>3. m \in Nat /\ n \in Nat /\ m <= n + 1
      BY <2>1, <2>3, <2>4, <3>1, <3>2
    <3>4. (n + 1 - 2) * CycleInterval <= nextTick - t - 1
      <4>1. CyclesFit(n, t)
        BY <1>5, <3>2 DEF ScriptInv
      <4> QED
        BY <1>3, <2>6, <4>1 DEF CyclesFit
    <3>5. (m - 2) * CycleInterval <= (n + 1 - 2) * CycleInterval
      BY <1>1, <3>3
    <3>6. (m - 2) * CycleInterval \in Int /\ (n + 1 - 2) * CycleInterval \in Int
      BY <1>1, <3>3
    <3>7. (m - 2) * CycleInterval <= nextTick - t - 1
      BY <1>1, <3>4, <3>5, <3>6
    <3>8. m + 0 - 2 = m - 2
      BY <3>3
    <3>9. nextTick' = nextTick /\ ~tickPending'
      BY <1>2, <1>3, <2>6
    <3> QED
      BY <2>6, <3>1, <3>7, <3>8, <3>9 DEF CyclesFit
  <2> QED
    BY <2>5, <2>6
<1> QED
  BY <1>2, <1>4, <1>5 DEF ScriptInv, StartOf

(* wg.Wait returns; the first time the ticker starts.                      *)
LEMMA FinishCycleScripts ==
  ASSUME CycleInterval > 0, IInv, ScriptInv, FinishCycle
  PROVE  ScriptInv'
<1>1. /\ now \in Nat /\ nextTick \in Int /\ CycleInterval \in Nat \ {0}
  BY RunnerAssumption DEF IInv, TypeOK
<1>2. /\ UNCHANGED <<shells, now, tickPending, workers>> /\ rpc' = "select"
      /\ nextTick' = IF nextTick = ZeroTime THEN now + CycleInterval ELSE nextTick
  BY DEF FinishCycle, EndCycle, scriptVars
<1>3. ScriptClock'
  BY <1>1, <1>2 DEF ScriptInv, ScriptClock, ZeroTime
<1>4. ASSUME NEW s \in Specs, NEW t \in Int, t <= now PROVE CyclesFit(Starts(s, t), t)'
  <2>1. PICK n : n = Starts(s, t)
    OBVIOUS
  <2>2. n \in Nat /\ Starts(s, t)' = n
    BY <1>2, <2>1, SinceFinite DEF Starts, Since, StartOf, MayStart
  <2>3. CyclesFit(n, t)
    BY <1>4, <2>1 DEF ScriptInv
  <2>4. CASE nextTick # ZeroTime
    BY <1>2, <2>2, <2>3, <2>4 DEF CyclesFit
  <2>5. CASE nextTick = ZeroTime
    <3>1. n <= 1 /\ ~tickPending
      BY <2>3, <2>5 DEF CyclesFit, ScriptInv, ScriptClock
    <3>2. (n + 0 - 2) * CycleInterval <= now + CycleInterval - t - 1
      <4>1. CASE n = 0
        BY <1>1, <1>4, <4>1
      <4>2. CASE n = 1
        BY <1>1, <1>4, <4>2
      <4> QED
        BY <2>2, <3>1, <4>1, <4>2
    <3>3. nextTick' = now + CycleInterval /\ nextTick' # ZeroTime /\ ~tickPending'
      BY <1>1, <1>2, <2>5, <3>1 DEF ZeroTime
    <3>4. nextTick' - t - 1 = now + CycleInterval - t - 1 /\ n + 0 - 2 = n - 2
      BY <1>1, <2>2, <3>3
    <3> QED
      BY <2>2, <3>2, <3>3, <3>4 DEF CyclesFit
  <2> QED
    BY <2>4, <2>5
<1> QED
  BY <1>2, <1>3, <1>4 DEF ScriptInv, StartOf

(* Time passes, once every shell that is due is killed. A tick makes room  *)
(* for the cycle that it will start; a dropped tick makes room for nothing.*)
LEMMA ElapseScripts ==
  ASSUME Prompt, CycleInterval > 0, IInv, ScriptInv, Elapse
  PROVE  ScriptInv'
<1>1. /\ now \in Nat /\ nextTick \in Int /\ CycleInterval \in Nat \ {0}
      /\ tickPending \in BOOLEAN
  BY RunnerAssumption DEF IInv, TypeOK
<1>2. /\ UNCHANGED <<rpc, workers, shells>>
      /\ now' = now + 1
      /\ IF nextTick # ZeroTime /\ now + 1 >= nextTick
         THEN tickPending' = TRUE /\ nextTick' = nextTick + CycleInterval
         ELSE UNCHANGED <<tickPending, nextTick>>
      /\ Prompt => ~Urgent
  BY DEF Elapse, Tick, loopVars, scriptVars
<1>3. \A a \in shells : a.due \in Nat /\ StartOf(a) <= now /\ now + 1 <= a.due
  BY <1>1 DEF Elapse, OverdueShells, ScriptInv
<1>4. \A a \in shells : StartOf(a) \in Int
  BY <1>3, EddieAssumption DEF StartOf
<1>5. rpc # "start"
  BY <1>2 DEF Urgent
<1>6. ScriptClock'
  BY <1>1, <1>2, <1>5 DEF ScriptInv, ScriptClock, ZeroTime
<1>7. \A s \in Specs, t \in Int : Starts(s, t)' = Starts(s, t)
  BY <1>2 DEF Starts, Since, StartOf, MayStart
<1>8. ASSUME NEW s \in Specs, NEW t \in Int, t <= now + 1 PROVE CyclesFit(Starts(s, t), t)'
  <2>1. PICK n : n = Starts(s, t)
    OBVIOUS
  <2>2. n \in Nat /\ Starts(s, t)' = n
    BY <1>7, <2>1, SinceFinite
  <2>3. CASE t = now + 1
    <3>1. Since(s, t) = {}
      BY <1>1, <1>3, <1>4, <2>3 DEF Since
    <3>2. n <= 1
      BY <2>1, <3>1, FS_EmptySet DEF Starts
    <3>3. CASE nextTick' = ZeroTime
      BY <2>2, <3>2, <3>3 DEF CyclesFit
    <3>4. CASE nextTick' # ZeroTime
      <4>1. nextTick' - t - 1 >= 0 /\ nextTick' \in Int
        BY <1>1, <1>2, <1>6, <2>3, <3>4 DEF ScriptClock
      <4>2. PICK c \in {-2, -1} : c = (IF tickPending' THEN 1 ELSE 0) - 2
        OBVIOUS
      <4>3. (n + c) * CycleInterval <= 0
        BY <1>1, <2>2, <3>2, <4>2
      <4>4. (n + c) * CycleInterval \in Int
        BY <1>1, <2>2, <4>2
      <4>5. (n + c) * CycleInterval <= nextTick' - t - 1
        <5>1. nextTick' - t - 1 \in Int
          BY <1>1, <2>3, <4>1
        <5>2. \A x, y \in Int : x <= 0 /\ y >= 0 => x <= y
          OBVIOUS
        <5> QED
          BY <4>1, <4>3, <4>4, <5>1, <5>2
      <4>6. n + (IF tickPending' THEN 1 ELSE 0) - 2 = n + c
        BY <2>2, <4>2
      <4> QED
        BY <2>2, <3>4, <4>5, <4>6 DEF CyclesFit
    <3> QED
      BY <3>3, <3>4
  <2>4. CASE t <= now
    <3>1. CyclesFit(n, t)
      BY <2>1, <2>4 DEF ScriptInv
    <3>2. CASE UNCHANGED <<tickPending, nextTick>>
      BY <2>2, <3>1, <3>2 DEF CyclesFit
    <3>3. CASE nextTick # ZeroTime /\ tickPending' = TRUE /\ nextTick' = nextTick + CycleInterval
      <4>1. nextTick' # ZeroTime
        BY <1>1, <3>3 DEF ScriptInv, ScriptClock, ZeroTime
      <4>2. (n - 1) * CycleInterval <= nextTick + CycleInterval - t - 1
        <5>1. CASE tickPending
          <6>1. (n - 1) * CycleInterval <= nextTick - t - 1 /\ (n - 1) * CycleInterval \in Int
            <7>1. (n + 1 - 2) * CycleInterval <= nextTick - t - 1
              BY <3>1, <3>3, <5>1 DEF CyclesFit
            <7>2. n + 1 - 2 = n - 1
              BY <2>2
            <7> QED
              BY <1>1, <2>2, <7>1, <7>2
          <6> QED
            BY <1>1, <6>1
        <5>2. CASE ~tickPending
          <6>1. (n - 2) * CycleInterval <= nextTick - t - 1 /\ (n - 2) * CycleInterval \in Int
            <7>1. (n + 0 - 2) * CycleInterval <= nextTick - t - 1
              BY <3>1, <3>3, <5>2 DEF CyclesFit
            <7>2. n + 0 - 2 = n - 2
              BY <2>2
            <7> QED
              BY <1>1, <2>2, <7>1, <7>2
          <6>2. (n - 1) * CycleInterval = (n - 2) * CycleInterval + CycleInterval
            BY <1>1, <2>2
          <6> QED
            BY <1>1, <6>1, <6>2
        <5> QED
          BY <1>1, <5>1, <5>2
      <4>3. n + 1 - 2 = n - 1 /\ nextTick' - t - 1 = nextTick + CycleInterval - t - 1
        BY <1>1, <2>2, <3>3
      <4> QED
        BY <2>2, <3>3, <4>1, <4>2, <4>3 DEF CyclesFit
    <3> QED
      BY <1>2, <3>2, <3>3
  <2> QED
    BY <1>1, <1>8, <2>3, <2>4
<1>9. \A a \in shells' : (a.due \in Nat /\ StartOf(a) <= now /\ now <= a.due)'
  <2> SUFFICES ASSUME NEW a \in shells
               PROVE  a.due \in Nat /\ StartOf(a)' <= now + 1 /\ now + 1 <= a.due
    BY <1>2
  <2>1. StartOf(a)' = StartOf(a) /\ StartOf(a) \in Int /\ StartOf(a) <= now
    BY <1>3, <1>4 DEF StartOf
  <2> QED
    BY <1>1, <1>3, <2>1
<1>10. \A s \in Specs : \A t \in Int : t <= now' => CyclesFit(Starts(s, t), t)'
  BY <1>2, <1>8
<1> QED
  BY <1>2, <1>6, <1>9, <1>10 DEF ScriptInv

(* Every step keeps ScriptInv.                                             *)
LEMMA NextScripts ==
  ASSUME Prompt, CycleInterval > 0, IInv, ScriptInv, [EddieNext]_eddieVars
  PROVE  ScriptInv'
<1>1. CASE \/ StartUp \/ ServerStep \/ ProcessStep(P!Ending) \/ ProcessStep(P!Deadline)
           \/ \E c \in Clients : ClientStep(c) \/ ProcessStep(P!Answer(c))
           \/ UNCHANGED eddieVars
  BY <1>1, OtherStepScripts
     DEF StartUp, StartMonitor, ServerStep, ClientStep, ProcessStep, eddieVars, vars, scriptVars
<1>2. CASE Signal \/ ReturnFromRun
  BY <1>2, OtherStepScripts
     DEF Signal, Cancel, ReturnFromRun, SelectDone, loopVars, clockVars, scriptVars
<1>3. CASE BeginCycle
  BY <1>3, BeginCycleScripts
<1>4. CASE FinishCycle
  BY <1>4, FinishCycleScripts
<1>5. CASE \E s \in Specs : CheckStep(s)
  BY <1>5, CheckStepScripts
<1>6. CASE \E script \in shells : ShellEnds(script)
  BY <1>6, ShellEndsScripts
<1>7. CASE Elapse
  BY <1>7, ElapseScripts
<1>8. CASE OutputCloses
  BY <1>8, OtherStepScripts DEF OutputCloses, vars
<1> QED
  BY <1>1, <1>2, <1>3, <1>4, <1>5, <1>6, <1>7, <1>8 DEF EddieNext

(* No shell has been started when the process starts.                      *)
LEMMA InitScripts == ASSUME EddieInit PROVE ScriptInv
<1>1. shells = {} /\ workers = {} /\ nextTick = ZeroTime /\ ~tickPending /\ now = 0
  BY DEF EddieInit, Init
<1>2. \A s, t : Starts(s, t) = 0
  BY <1>1, FS_EmptySet DEF Starts, Since, MayStart
<1> QED
  BY <1>1, <1>2, FS_EmptySet DEF ScriptInv, ScriptClock, CyclesFit

(* Integer division as the largest factor.                                 *)
LEMMA DivBound ==
  ASSUME NEW i \in Nat \ {0}, NEW x \in Int, NEW y \in Int, x * i <= y
  PROVE  x <= y \div i
<1>1. PICK q \in Int : q = y \div i
  OBVIOUS
<1>2. y < (q + 1) * i
  BY <1>1
<1>3. CASE x >= q + 1
  <2>1. x * i >= (q + 1) * i
    BY <1>3
  <2>2. x * i \in Int /\ (q + 1) * i \in Int
    OBVIOUS
  <2> QED
    BY <1>2, <2>1, <2>2
<1> QED
  BY <1>1, <1>3

(* However the cycles, checks, mails and scripts of a process interleave,  *)
(* no spec has the shells of more scripts running at once than the cycle   *)
(* intervals in a script's timeout and the ticker's one kept tick allow.   *)
(* What a shell leaves behind, and the goroutine with it, has no bound     *)
(* (runScript).                                                            *)
THEOREM ShellsAreBounded ==
  ASSUME Prompt, CycleInterval > 0
  PROVE  EddieSpec => []ShellsBounded
<1>1. EddieInit => ScriptInv
  BY InitScripts
<1>2. IInv /\ ScriptInv /\ [EddieNext]_eddieVars => ScriptInv'
  BY NextScripts
<1>3. IInv /\ ScriptInv => ShellsBounded
  <2> SUFFICES ASSUME IInv, ScriptInv, NEW s \in Specs
               PROVE  Cardinality({a \in shells : a.spec = s})
                        <= (ScriptTimeout - 1) \div CycleInterval + 3
    BY DEF ShellsBounded
  <2>1. /\ now \in Nat /\ nextTick \in Int /\ CycleInterval \in Nat \ {0} /\ ScriptTimeout \in Nat
    BY RunnerAssumption, EddieAssumption DEF IInv, TypeOK
  <2>2. PICK t \in Int : t = now - ScriptTimeout
    BY <2>1
  <2>3. {a \in shells : a.spec = s} = Since(s, t)
    BY <2>1, <2>2 DEF ScriptInv, Since, StartOf
  <2>4. PICK n : n = Cardinality(Since(s, t))
    OBVIOUS
  <2>5. n \in Nat /\ Starts(s, t) \in Nat /\ n <= Starts(s, t)
    BY <2>4, SinceFinite DEF Starts
  <2>6. CyclesFit(Starts(s, t), t)
    BY <2>1, <2>2 DEF ScriptInv
  <2>7. PICK q \in Int : q = (ScriptTimeout - 1) \div CycleInterval
    BY <2>1
  <2>8. q >= -1
    <3>1. (-1) * CycleInterval <= ScriptTimeout - 1
      BY <2>1
    <3> QED
      BY <2>1, <2>7, <3>1, DivBound
  <2>9. CASE nextTick = ZeroTime
    <3>1. Starts(s, t) <= 1
      BY <2>6, <2>9 DEF CyclesFit
    <3>2. n <= q + 3
      BY <2>5, <2>7, <2>8, <3>1
    <3> QED
      BY <2>3, <2>4, <2>7, <3>2
  <2>10. CASE nextTick # ZeroTime
    <3>1. PICK m \in Nat : m = Starts(s, t) + (IF tickPending THEN 1 ELSE 0)
      BY <2>5
    <3>2. n <= m /\ (m - 2) * CycleInterval <= nextTick - t - 1
      BY <2>5, <2>6, <2>10, <3>1 DEF CyclesFit
    <3>3. nextTick <= now + CycleInterval
      BY <2>10 DEF ScriptInv, ScriptClock
    <3>4. (m - 2) * CycleInterval = (m - 3) * CycleInterval + CycleInterval
      BY <2>1
    <3>5. (m - 2) * CycleInterval \in Int /\ (m - 3) * CycleInterval \in Int
      BY <2>1
    <3>6. (m - 3) * CycleInterval <= ScriptTimeout - 1
      BY <2>1, <2>2, <3>2, <3>3, <3>4, <3>5
    <3>7. m - 3 <= q
      BY <2>1, <2>7, <3>6, DivBound
    <3>8. n <= q + 3
      BY <2>5, <2>7, <3>1, <3>2, <3>7
    <3> QED
      BY <2>3, <2>4, <2>7, <3>8
  <2> QED
    BY <2>9, <2>10
<1>4. EddieSpec => []IInv
  BY EddieRunsRunner, Invariance, PTL
<1> QED
  BY <1>1, <1>2, <1>3, <1>4, PTL DEF EddieSpec

(* When cycles are on time, the monitor of the process misses no threshold *)
(* either: a run of results that reaches it has flipped the status.        *)
THEOREM EddieForcesTransitions ==
  ASSUME NEW L, Timely(L)
  PROVE  EddieSpec => []ThresholdForcesTransition
<1>1. Safety => []ThresholdForcesTransition
  BY ThresholdsForceTransitions
<1> QED
  BY <1>1, EddieRunsRunner, PTL

-------------------------------------------------------------------------------
(* The status page.                                                        *)

(* A goroutine's start is not before the stamps of its entry.              *)
Recent(w) ==
  w.pc \in {"mark", "check", "doomed", "handle"} =>
    /\ Get(w.spec).LastCycleStartedAt <= w.startedAt
    /\ Get(w.spec).LastCycleAt <= w.startedAt

RInv == IInv /\ \A w \in workers : Recent(w)

(* A row shows the stamps of its entry.                                    *)
LEMMA RowFacts ==
  ASSUME TypeOK, NEW s \in Specs
  PROVE  /\ Row(s) \in Rows
         /\ Row(s).HasState <=> s \in DOMAIN store
         /\ Row(s).LastCycleStartedAt = Get(s).LastCycleStartedAt
         /\ Row(s).LastCycleAt = Get(s).LastCycleAt
<1>1. CASE s \notin DOMAIN store
  <2>1. Row(s) = NoRow /\ Get(s) = FreshState
    BY <1>1 DEF Row, Get
  <2>2. NoRow \in Rows /\ NoRow.HasState = FALSE
    BY DEF NoRow, Rows, Times
  <2>3. /\ NoRow.LastCycleStartedAt = FreshState.LastCycleStartedAt
        /\ NoRow.LastCycleAt = FreshState.LastCycleAt
    BY DEF NoRow, FreshState
  <2>4. Row(s).HasState <=> s \in DOMAIN store
    BY <1>1, <2>1, <2>2, Zenon
  <2> QED
    BY <2>1, <2>2, <2>3, <2>4
<1>2. CASE s \in DOMAIN store
  <2>1. store[s] \in SpecStates
    BY <1>2 DEF TypeOK
  <2>2. /\ store[s].Status \in Statuses
        /\ store[s].LastCycleStartedAt \in Times /\ store[s].LastCycleAt \in Times
    BY <2>1 DEF SpecStates
  <2>3. Get(s) = store[s]
    BY <1>2 DEF Get
  <2>4. Row(s) \in Rows
    BY <1>2, <2>2 DEF Row, Rows
  <2>5. Row(s).HasState = TRUE
    BY <1>2 DEF Row
  <2>6. /\ Row(s).LastCycleStartedAt = store[s].LastCycleStartedAt
        /\ Row(s).LastCycleAt = store[s].LastCycleAt
    BY <1>2 DEF Row
  <2>7. Row(s).HasState <=> s \in DOMAIN store
    BY <1>2, <2>5, Zenon
  <2> QED
    BY <2>3, <2>4, <2>6, <2>7
<1> QED
  BY <1>1, <1>2

(* What MarkStore writes: a start that is not older than the one before.   *)
LEMMA MarkStoreGrows ==
  ASSUME RInv, NEW w \in workers, MarkStore(w)
  PROVE  /\ \A s \in Specs : s # w.spec => Get(s)' = Get(s)
         /\ Get(w.spec)'.LastCycleStartedAt = w.startedAt
         /\ Get(w.spec)'.LastCycleAt = Get(w.spec).LastCycleAt
         /\ Get(w.spec).LastCycleStartedAt <= w.startedAt
         /\ Get(w.spec).LastCycleAt <= w.startedAt
<1> DEFINE st == [w.loaded EXCEPT !.LastCycleStartedAt = w.startedAt]
<1>1. w \in Worker /\ w.spec \in Specs /\ TypeOK /\ w.pc = "mark"
  BY WorkerType DEF RInv, IInv, MarkStore
<1>2. w.loaded = Get(w.spec) /\ w.loaded \in SpecStates /\ w.startedAt \in Times
  BY <1>1 DEF RInv, IInv, NoLostUpdate, Worker
<1>3. /\ st \in SpecStates /\ st.LastCycleStartedAt = w.startedAt
      /\ st.LastCycleAt = w.loaded.LastCycleAt
  BY <1>2 DEF SpecStates
<1>4. \A s \in Specs : Get(s)' = IF s = w.spec THEN st ELSE Get(s)
  BY <1>1, <1>3, SetEntry DEF MarkStore
<1> QED
  BY <1>1, <1>2, <1>3, <1>4 DEF RInv, Recent

(* What HandleStore writes: both stamps of a check that began after those  *)
(* of the entry.                                                           *)
LEMMA HandleStoreGrows ==
  ASSUME RInv, NEW w \in workers, HandleStore(w)
  PROVE  /\ \A s \in Specs : s # w.spec => Get(s)' = Get(s)
         /\ Get(w.spec)'.LastCycleStartedAt >= Get(w.spec).LastCycleStartedAt
         /\ Get(w.spec)'.LastCycleAt >= Get(w.spec).LastCycleAt
<1> DEFINE r == Outcome(w).state
<1>1. w \in Worker /\ w.spec \in Specs /\ TypeOK /\ w.pc = "handle"
  BY WorkerType DEF RInv, IInv, HandleStore
<1>2. /\ w.loaded = Get(w.spec) /\ w.loaded \in SpecStates /\ w.ok \in BOOLEAN
      /\ w.completedAt \in Nat /\ w.startedAt \in Nat /\ w.startedAt <= w.completedAt
  BY <1>1 DEF RInv, IInv, NoLostUpdate, WorkerOK, Worker
<1>3. r \in SpecStates
  BY <1>1, <1>2, OutcomeType
<1>4. \A s \in Specs : Get(s)' = IF s = w.spec THEN r ELSE Get(s)
  BY <1>1, <1>3, SetEntry DEF HandleStore
<1>5. r.LastCycleStartedAt = w.startedAt /\ r.LastCycleAt = w.completedAt
  <2> DEFINE fresh == ResetStaleConsecutiveState(w.loaded, w.completedAt, CycleInterval)
             a == ApplyCycleResult(fresh, w.ok, FailureThreshold(w.spec), SuccessThreshold(w.spec))
  <2>1. fresh \in SpecStates
    BY <1>2, ResetType
  <2>2. a \in SpecStates
    BY <1>1, <1>2, <2>1, ThresholdType, ApplyType
  <2>3. r = [a EXCEPT !.LastCycleStartedAt = w.startedAt, !.LastCycleAt = w.completedAt]
    BY DEF Outcome
  <2> HIDE DEF a
  <2> QED
    BY <2>2, <2>3 DEF SpecStates
<1>6. /\ Get(w.spec).LastCycleStartedAt <= w.startedAt
      /\ Get(w.spec).LastCycleAt <= w.startedAt
      /\ Get(w.spec).LastCycleStartedAt \in Int /\ Get(w.spec).LastCycleAt \in Int
  BY <1>1, <1>2 DEF RInv, Recent, SpecStates, Times, ZeroTime
<1> HIDE DEF r
<1> QED
  BY <1>1, <1>2, <1>4, <1>5, <1>6

(* Every step of the runner keeps Recent.                                  *)
LEMMA RecentKept ==
  ASSUME RInv, [Next]_vars
  PROVE  \A x \in workers' : Recent(x)'
<1>1. /\ TypeOK /\ OneEach /\ StampsOrdered
      /\ \A x \in workers : Recent(x) /\ x \in Worker /\ x.spec \in Specs
  BY WorkerType DEF RInv, IInv
<1>2. CASE UNCHANGED <<workers, store>>
  <2>1. \A s : Get(s)' = Get(s)
    BY <1>2, SameStore
  <2> QED
    BY <1>1, <1>2, <2>1 DEF Recent
<1>3. CASE FirstCycle \/ TickerCycle
  <2>1. \A s : Get(s)' = Get(s)
    BY <1>3, SameStore DEF FirstCycle, TickerCycle
  <2>2. \A x \in workers' : x \in workers \/ x.pc \in {"sleep", "ready"}
    BY <1>3 DEF FirstCycle, TickerCycle, RunCycle, NewWorker
  <2> QED
    BY <1>1, <2>1, <2>2 DEF Recent
<1>4. ASSUME NEW w \in workers, Wake(w) \/ Abandon(w) \/ Notify(w) \/ FinishMail(w)
      PROVE  \A x \in workers' : Recent(x)'
  <2>1. \A s : Get(s)' = Get(s)
    BY <1>4, SameStore DEF Wake, Abandon, Notify, FinishMail
  <2>2. \A x \in workers' : x \in workers \/ x.pc \in {"ready", "mail"}
    <3> DEFINE v == [w EXCEPT !.pc = "ready"]
               u == [w EXCEPT !.pc = "mail", !.due = now + MailTimeout]
    <3>1. v.pc = "ready" /\ u.pc = "mail"
      BY <1>1 DEF Worker
    <3> HIDE DEF v, u
    <3>2. Become(w, v) \/ Become(w, u) \/ Return(w)
      BY <1>4 DEF Wake, Abandon, Notify, FinishMail, v, u
    <3> QED
      BY <3>1, <3>2 DEF Become, Return
  <2> QED
    BY <1>1, <2>1, <2>2 DEF Recent
<1>5. ASSUME NEW w \in workers, MarkLoad(w)
      PROVE  \A x \in workers' : Recent(x)'
  <2> DEFINE v == [w EXCEPT !.pc = "mark", !.startedAt = now, !.loaded = Get(w.spec)]
  <2>1. \A s : Get(s)' = Get(s)
    BY <1>5, SameStore DEF MarkLoad
  <2>2. v.spec = w.spec /\ v.startedAt = now
    BY <1>1 DEF Worker
  <2>3. \A x \in workers' : x \in workers \/ x = v
    BY <1>5 DEF MarkLoad, Become
  <2> HIDE DEF v
  <2> QED
    BY <1>1, <2>1, <2>2, <2>3 DEF Recent, StampsOrdered
<1>6. ASSUME NEW w \in workers, NEW ok \in BOOLEAN, FinishCheck(w, ok)
      PROVE  \A x \in workers' : Recent(x)'
  <2> DEFINE v == [w EXCEPT !.pc = "handle", !.ok = ok, !.completedAt = now,
                            !.loaded = Get(w.spec)]
  <2>1. \A s : Get(s)' = Get(s)
    BY <1>6, SameStore DEF FinishCheck
  <2>2. v.spec = w.spec /\ v.startedAt = w.startedAt /\ w.pc \in {"check", "doomed"}
    BY <1>1, <1>6 DEF Worker, FinishCheck
  <2>3. \A x \in workers' : x \in workers \/ x = v
    BY <1>6 DEF FinishCheck, Become
  <2> HIDE DEF v
  <2> QED
    BY <1>1, <2>1, <2>2, <2>3 DEF Recent
<1>7. ASSUME NEW w \in workers, MarkStore(w)
      PROVE  \A x \in workers' : Recent(x)'
  <2> DEFINE v == [w EXCEPT !.pc = IF ctxDone THEN "doomed" ELSE "check",
                            !.due = now + Conf[w.spec].timeout]
  <2>1. v.spec = w.spec /\ v.startedAt = w.startedAt
    BY <1>1 DEF Worker
  <2>2. Become(w, v)
    BY <1>7 DEF MarkStore
  <2> HIDE DEF v
  <2>3. \A x \in workers' : x = v \/ (x \in workers /\ x.spec # w.spec)
    BY <1>1, <2>2 DEF OneEach, Become
  <2>4. /\ \A s \in Specs : s # w.spec => Get(s)' = Get(s)
        /\ Get(w.spec)'.LastCycleStartedAt = w.startedAt
        /\ Get(w.spec)'.LastCycleAt = Get(w.spec).LastCycleAt
        /\ Get(w.spec).LastCycleAt <= w.startedAt
    BY <1>7, MarkStoreGrows
  <2>5. w.startedAt \in Int
    BY <1>1 DEF Worker, Times, ZeroTime
  <2>6. ASSUME NEW x, x = v PROVE Recent(x)'
    BY <2>1, <2>4, <2>5, <2>6 DEF Recent
  <2>7. \A x \in workers : x.spec # w.spec => Recent(x)'
    BY <1>1, <2>4 DEF Recent
  <2> QED
    BY <2>3, <2>6, <2>7
<1>8. ASSUME NEW w \in workers, HandleStore(w)
      PROVE  \A x \in workers' : Recent(x)'
  <2>1. \A x \in workers' : x.pc = "notify" \/ (x \in workers /\ x.spec # w.spec)
    BY <1>1, <1>8 DEF HandleStore, OneEach, Become, Return, Worker
  <2>2. \A s \in Specs : s # w.spec => Get(s)' = Get(s)
    BY <1>8, HandleStoreGrows
  <2> QED
    BY <1>1, <2>1, <2>2 DEF Recent
<1>9. CASE EndCycle \/ SelectDone \/ Cancel \/ Tick \/ UNCHANGED vars
  BY <1>2, <1>9 DEF EndCycle, SelectDone, Cancel, Tick, vars
<1> QED
  BY <1>3, <1>4, <1>5, <1>6, <1>7, <1>8, <1>9 DEF Next, WorkerStep

(* Every step of the runner leaves each row as new as it was.              *)
LEMMA RowsGrow ==
  ASSUME RInv, [Next]_vars
  PROVE  \A s \in Specs : NotOlder(Row(s)', Row(s))
<1>1. TypeOK /\ TypeOK'
  BY NextIInv DEF RInv, IInv
<1>2. \A s \in Specs :
        /\ Get(s).LastCycleStartedAt \in Int /\ Get(s).LastCycleAt \in Int
        /\ Get(s)'.LastCycleStartedAt >= Get(s).LastCycleStartedAt
        /\ Get(s)'.LastCycleAt >= Get(s).LastCycleAt
  <2>1. \A s \in Specs : Get(s).LastCycleStartedAt \in Int /\ Get(s).LastCycleAt \in Int
    BY <1>1, GetType DEF SpecStates, Times, ZeroTime
  <2>2. CASE store' = store
    BY <2>1, <2>2, SameStore
  <2>3. ASSUME NEW w \in workers, MarkStore(w)
        PROVE  \A s \in Specs : /\ Get(s)'.LastCycleStartedAt >= Get(s).LastCycleStartedAt
                                /\ Get(s)'.LastCycleAt >= Get(s).LastCycleAt
    <3>1. w.startedAt \in Int
      BY <1>1, WorkerType DEF Worker, Times, ZeroTime
    <3> QED
      BY <2>1, <2>3, <3>1, MarkStoreGrows
  <2>4. ASSUME NEW w \in workers, HandleStore(w)
        PROVE  \A s \in Specs : /\ Get(s)'.LastCycleStartedAt >= Get(s).LastCycleStartedAt
                                /\ Get(s)'.LastCycleAt >= Get(s).LastCycleAt
    BY <2>1, <2>4, HandleStoreGrows
  <2> QED
    BY <2>1, <2>2, <2>3, <2>4, StoreWrites
<1>3. \A s \in Specs : s \in DOMAIN store => s \in DOMAIN store'
  BY StoreWrites DEF MarkStore, HandleStore, Set
<1>4. \A s \in Specs : /\ Row(s).HasState <=> s \in DOMAIN store
                       /\ Row(s).LastCycleStartedAt = Get(s).LastCycleStartedAt
                       /\ Row(s).LastCycleAt = Get(s).LastCycleAt
  BY <1>1, RowFacts
<1>5. ASSUME NEW s \in Specs
      PROVE  /\ Row(s)'.HasState <=> s \in DOMAIN store'
             /\ Row(s)'.LastCycleStartedAt = Get(s)'.LastCycleStartedAt
             /\ Row(s)'.LastCycleAt = Get(s)'.LastCycleAt
  <2>1. CASE s \notin DOMAIN store'
    <3>1. Row(s)' = NoRow /\ Get(s)' = FreshState
      BY <2>1 DEF Row, Get
    <3>2. NoRow.HasState = FALSE
      BY DEF NoRow
    <3>3. /\ NoRow.LastCycleStartedAt = FreshState.LastCycleStartedAt
          /\ NoRow.LastCycleAt = FreshState.LastCycleAt
      BY DEF NoRow, FreshState
    <3>4. Row(s)'.HasState <=> s \in DOMAIN store'
      BY <2>1, <3>1, <3>2, Zenon
    <3> QED
      BY <3>1, <3>3, <3>4
  <2>2. CASE s \in DOMAIN store'
    <3>1. Row(s)'.HasState = TRUE
      BY <2>2 DEF Row
    <3>2. Row(s)'.HasState <=> s \in DOMAIN store'
      BY <2>2, <3>1, Zenon
    <3> QED
      BY <2>2, <3>2 DEF Row, Get
  <2> QED
    BY <2>1, <2>2
<1>6. \A s \in Specs : Row(s).HasState => Row(s)'.HasState
  BY <1>3, <1>4, <1>5, Zenon
<1> QED
  BY <1>2, <1>4, <1>5, <1>6 DEF NotOlder

-------------------------------------------------------------------------------
(* The handlers. A chain of ages runs from what the client has through the *)
(* rows at generated_at and the rows read to what the store holds now.     *)

PageInv ==
  /\ handler \in {"away", "reading", "waiting"}
  /\ next \in Nat \ {0}
  /\ DOMAIN received \subseteq Specs
  /\ \A s \in DOMAIN received : received[s] \in Rows
  /\ handler = "reading" =>
       /\ \A s \in Specs : base[s] \in Rows /\ NotOlder(Row(s), base[s])
       /\ \A s \in DOMAIN received : NotOlder(base[s], received[s])
       /\ DOMAIN rows \subseteq Specs
       /\ \A s \in DOMAIN rows : /\ rows[s] \in Rows
                               /\ NotOlder(rows[s], base[s])
                               /\ NotOlder(Row(s), rows[s])
  /\ handler = "waiting" => \A s \in DOMAIN received : NotOlder(Row(s), received[s])

SystemInv == RInv /\ PageInv

(* Being not older is reflexive and transitive on rows.                    *)
LEMMA NotOlderOrder ==
  /\ \A r \in Rows : NotOlder(r, r)
  /\ \A r, q, p \in Rows : NotOlder(r, q) /\ NotOlder(q, p) => NotOlder(r, p)
<1>1. \A r \in Rows : /\ r.LastCycleStartedAt \in Int /\ r.LastCycleAt \in Int
  BY DEF Rows, Times, ZeroTime
<1> QED
  BY <1>1 DEF NotOlder

(* The rows of the current store are rows.                                 *)
LEMMA RowType ==
  ASSUME RInv
  PROVE  \A s \in Specs : Row(s) \in Rows
BY RowFacts DEF RInv, IInv

(* The composed system starts in its invariant.                            *)
LEMMA InitSystemInv == Init /\ PageInit => SystemInv
<1> SUFFICES ASSUME Init, PageInit PROVE SystemInv
  OBVIOUS
<1>1. RInv
  BY InitIInv DEF RInv, Init
<1>2. PageInv
  BY DEF PageInit, PageInv, Nothing
<1> QED
  BY <1>1, <1>2 DEF SystemInv

(* A step of the runner only makes the rows of the store newer.            *)
LEMMA RunnerKeepsSystemInv ==
  ASSUME SystemInv, [Next]_vars, UNCHANGED pageVars
  PROVE  SystemInv'
<1>1. RInv /\ PageInv
  BY DEF SystemInv
<1>2. RInv'
  BY <1>1, RecentKept, NextIInv DEF RInv
<1>3. \A s \in Specs : Row(s) \in Rows /\ Row(s)' \in Rows /\ NotOlder(Row(s)', Row(s))
  <2>1. \A s \in Specs : Row(s)' \in Rows
    <3>1. TypeOK'
      BY <1>2 DEF RInv, IInv
    <3> QED
      BY <3>1 DEF TypeOK, Row, NoRow, Rows, SpecStates, Times, Statuses
  <2> QED
    BY <1>1, <2>1, RowType, RowsGrow
<1>4. PageInv'
  <2>1. /\ handler' = handler /\ next' = next /\ rows' = rows
        /\ received' = received /\ base' = base
    BY DEF pageVars
  <2>2. handler = "reading" =>
          /\ \A s \in Specs : NotOlder(Row(s)', base[s])
          /\ \A s \in DOMAIN rows : NotOlder(Row(s)', rows[s])
    BY <1>1, <1>3, NotOlderOrder DEF PageInv
  <2>3. handler = "waiting" => \A s \in DOMAIN received : NotOlder(Row(s)', received[s])
    BY <1>1, <1>3, NotOlderOrder DEF PageInv
  <2> QED
    BY <1>1, <2>1, <2>2, <2>3 DEF PageInv
<1> QED
  BY <1>2, <1>4 DEF SystemInv

(* A snapshot begins: everything is compared with the store of this moment.*)
LEMMA BeginKeepsPageInv ==
  ASSUME SystemInv, BeginSnapshot, UNCHANGED vars,
         \/ received' = Nothing
         \/ received' = received /\ handler = "waiting"
  PROVE  PageInv'
<1>1. RInv /\ PageInv
  BY DEF SystemInv
<1>2. \A s : Row(s)' = Row(s)
  BY DEF Row, vars
<1>3. /\ \A s \in Specs : base'[s] = Row(s) /\ Row(s) \in Rows /\ NotOlder(Row(s), Row(s))
      /\ handler' = "reading" /\ next' = 1 /\ DOMAIN rows' = {}
  BY <1>1, RowType, NotOlderOrder DEF BeginSnapshot, Nothing
<1>4. /\ DOMAIN received' \subseteq Specs
      /\ \A s \in DOMAIN received' : received'[s] \in Rows /\ NotOlder(Row(s), received'[s])
  BY <1>1 DEF PageInv, Nothing
<1>5. \A s \in DOMAIN received' : NotOlder(base'[s], received'[s])
  BY <1>3, <1>4
<1> QED
  BY <1>2, <1>3, <1>4, <1>5 DEF PageInv

(* The next row is read.                                                   *)
LEMMA ReadKeepsPageInv ==
  ASSUME SystemInv, ReadRow, UNCHANGED vars
  PROVE  PageInv'
<1> DEFINE spec == Order[next]
<1>1. RInv /\ PageInv /\ handler = "reading" /\ next <= Len(Order)
  BY DEF SystemInv, ReadRow
<1>2. spec \in Specs /\ next + 1 \in Nat \ {0}
  BY <1>1, PageAssumption DEF PageInv
<1>3. \A s : Row(s)' = Row(s)
  BY DEF Row, vars
<1>4. Row(spec) \in Rows /\ NotOlder(Row(spec), Row(spec)) /\ NotOlder(Row(spec), base[spec])
  BY <1>1, <1>2, RowType, NotOlderOrder DEF PageInv
<1>5. /\ rows' = [s \in DOMAIN rows \cup {spec} |-> IF s = spec THEN Row(s) ELSE rows[s]]
      /\ handler' = handler /\ received' = received /\ base' = base /\ next' = next + 1
  BY DEF ReadRow
<1> HIDE DEF spec
<1>6. /\ DOMAIN rows' \subseteq Specs
      /\ \A s \in DOMAIN rows' : /\ rows'[s] \in Rows
                               /\ NotOlder(rows'[s], base[s])
                               /\ NotOlder(Row(s), rows'[s])
  BY <1>1, <1>2, <1>4, <1>5 DEF PageInv
<1> QED
  BY <1>1, <1>2, <1>3, <1>5, <1>6 DEF PageInv

(* A snapshot arrives: its rows are what the client has from now on.       *)
LEMMA DeliverKeepsPageInv ==
  ASSUME SystemInv, Deliver, UNCHANGED vars
  PROVE  PageInv'
<1>1. PageInv /\ handler = "reading" /\ received' = rows /\ next' = 1
  BY DEF SystemInv, Deliver, SnapshotDone
<1>2. \A s : Row(s)' = Row(s)
  BY DEF Row, vars
<1>3. handler' \in {"waiting", "away"}
  BY DEF Deliver, EndRequest
<1> QED
  BY <1>1, <1>2, <1>3 DEF PageInv

(* Every step of the composed system keeps its invariant.                  *)
LEMMA NextSystemInv == SystemInv /\ [SystemNext]_systemVars => SystemInv'
<1> SUFFICES ASSUME SystemInv, [SystemNext]_systemVars PROVE SystemInv'
  OBVIOUS
<1>1. CASE Next /\ UNCHANGED pageVars
  BY <1>1, RunnerKeepsSystemInv
<1>2. CASE UNCHANGED systemVars
  BY <1>2, RunnerKeepsSystemInv DEF systemVars
<1>3. CASE PageStep /\ UNCHANGED vars
  <2>1. RInv'
    BY <1>3, RecentKept, NextIInv DEF SystemInv, RInv
  <2>2. PageInv'
    <3>1. CASE Open
      BY <1>3, <3>1, BeginKeepsPageInv DEF Open
    <3>2. CASE ReadRow
      BY <1>3, <3>2, ReadKeepsPageInv
    <3>3. CASE Deliver
      BY <1>3, <3>3, DeliverKeepsPageInv
    <3>4. CASE Refresh
      BY <1>3, <3>4, BeginKeepsPageInv DEF Refresh
    <3>5. CASE Leave
      BY <3>5 DEF Leave, EndRequest, SystemInv, PageInv
    <3> QED
      BY <1>3, <3>1, <3>2, <3>3, <3>4, <3>5 DEF PageStep
  <2> QED
    BY <2>1, <2>2 DEF SystemInv
<1> QED
  BY <1>1, <1>2, <1>3 DEF SystemNext

(* The invariant of the composed system, for any specs and any timing.     *)
THEOREM SystemInvariance == SystemSpec => []SystemInv
<1> QED
  BY InitSystemInv, NextSystemInv, PTL DEF SystemSpec

(* A row is at least as recent as the snapshot's generated_at claims.      *)
THEOREM RowsAreFresh == SystemSpec => []RowsAreAsOfGeneratedAt
<1>1. SystemInv => RowsAreAsOfGeneratedAt
  BY DEF SystemInv, PageInv, RowsAreAsOfGeneratedAt
<1> QED
  BY <1>1, SystemInvariance, PTL

(* A client that follows a stream never sees a spec go back in time or     *)
(* become unknown again.                                                   *)
THEOREM StreamsOnlyGoForward == SystemSpec => StreamsGoForward
<1> DEFINE Forward == \A s \in DOMAIN received \cap DOMAIN received' :
                        NotOlder(received'[s], received[s])
<1>1. SystemInv /\ [SystemNext]_systemVars => Forward
  <2> SUFFICES ASSUME SystemInv, [SystemNext]_systemVars PROVE Forward
    OBVIOUS
  <2>1. PageInv
    BY DEF SystemInv
  <2>2. CASE received' = received
    BY <2>1, <2>2, NotOlderOrder DEF PageInv
  <2>3. CASE received' = Nothing
    BY <2>3 DEF Nothing
  <2>4. CASE handler = "reading" /\ received' = rows
    BY <2>1, <2>4, NotOlderOrder DEF PageInv
  <2>5. \/ received' = received
        \/ received' = Nothing
        \/ handler = "reading" /\ received' = rows
    BY DEF SystemNext, PageStep, Open, ReadRow, Deliver, Refresh, Leave, SnapshotDone,
           pageVars, systemVars
  <2> QED
    BY <2>2, <2>3, <2>4, <2>5
<1>2. SystemInv /\ [SystemNext]_systemVars => [Forward]_systemVars
  BY <1>1
<1> QED
  BY <1>2, SystemInvariance, PTL DEF SystemSpec, StreamsGoForward
================================================================================
