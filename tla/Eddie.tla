--------------------------------- MODULE Eddie ---------------------------------
(***************************************************************************)
(* The whole process: main and its server (Service) together with the      *)
(* monitor that main starts and never waits for (Runner), and the scripts  *)
(* the monitor starts and never waits for (runScript). A script's timeout  *)
(* ends its shell only: the goroutine goes on waiting as long as anything  *)
(* the shell has started holds on to the output, which may be for ever.    *)
(*                                                                         *)
(* Every exit of the process stops the monitor wherever it is: in a check, *)
(* between a flipped status and its notice, or in the middle of a mail.    *)
(***************************************************************************)
EXTENDS Runner

CONSTANTS Clients, QuickRequests,  \* see Service
          Scripts,                 \* the <<spec, transition>> that have a script
          ScriptTimeout            \* of runScript's context (60s)

ASSUME EddieAssumption == /\ QuickRequests \in BOOLEAN
                          /\ Scripts \subseteq Specs \X {"failure", "recovery"}
                          /\ ScriptTimeout \in Nat

VARIABLES
  main, exitCode, server, serverErr, expired, clients,  \* see Service
  monitoring,  \* main has executed go runner.Run(ctx)
  shells,      \* the scripts whose shell is running
  lingering    \* how many goroutines of runScript outlive their shell

processVars == <<main, exitCode, server, serverErr, expired, clients, monitoring>>
scriptVars  == <<shells, lingering>>
eddieVars   == <<vars, processVars, scriptVars>>

(* The monitor as main knows it.                                           *)
Monitor == IF ~monitoring THEN "off" ELSE IF rpc = "stopped" THEN "stopped" ELSE "running"

P == INSTANCE Service
       WITH signalled <- ctxDone, runner <- Monitor, IntervalPositive <- CycleInterval > 0

Script == [spec: Specs, transition: Transitions, due: Nat]

EddieInit ==
  /\ Init
  /\ main = "config" /\ exitCode = 0
  /\ server = "off" /\ serverErr = "none"
  /\ expired = FALSE
  /\ clients = [c \in Clients |-> "away"]
  /\ monitoring = FALSE
  /\ shells = {} /\ lingering = 0

-------------------------------------------------------------------------------
(* main, the server and its clients                                        *)

StartMonitor == monitoring' = TRUE /\ UNCHANGED <<vars, scriptVars>> /\ P!ParseSpecs

ProcessStep(step) == UNCHANGED <<vars, monitoring, scriptVars>> /\ step

StartUp == StartMonitor \/ ProcessStep(P!StartUp)

ServerStep == ProcessStep(P!Listen \/ P!ListenAfterShutdown \/ P!ServerFails)

ClientStep(c) == ProcessStep(P!Request(c) \/ P!Leave(c) \/ P!CloseIdle(c))

Signal == P!Alive /\ Cancel /\ UNCHANGED <<processVars, scriptVars>>

-------------------------------------------------------------------------------
(* The monitor, as long as the process lives                               *)

Running == P!Alive /\ monitoring

BeginCycle == Running /\ (FirstCycle \/ TickerCycle) /\ UNCHANGED <<processVars, scriptVars>>

ReturnFromRun == Running /\ SelectDone /\ UNCHANGED <<processVars, scriptVars>>

(* The panic of a goroutine ends the process.                              *)
FinishCycle ==
  /\ Running
  /\ EndCycle
  /\ IF rpc' = "panicked" THEN P!Exit(2) /\ UNCHANGED monitoring ELSE UNCHANGED processVars
  /\ UNCHANGED scriptVars

(* go runScript(...), before the mails and without waiting.                *)
StartedScripts(w) ==
  IF w.pc = "notify" /\ <<w.spec, w.transition>> \in Scripts
  THEN {[spec |-> w.spec, transition |-> w.transition, due |-> now + ScriptTimeout]}
  ELSE {}

(* A script that the next one of its spec waits for, output included.      *)
MutantCheckStep(s) ==
  /\ Running
  /\ \E w \in workers :
       /\ w.spec = s
       /\ StartedScripts(w) # {} => lingering = 0 /\ \A script \in shells : script.spec # s
       /\ WorkerStep(w)
       /\ shells' = shells \cup StartedScripts(w)
  /\ UNCHANGED <<processVars, lingering>>

CheckStep(s) ==
  /\ Running
  /\ \E w \in workers :
       /\ w.spec = s
       /\ WorkerStep(w)
       /\ shells' = shells \cup StartedScripts(w)
  /\ UNCHANGED <<processVars, lingering>>

-------------------------------------------------------------------------------
(* Scripts and time                                                        *)

(* The shell ends, by itself or killed when the context is over, and the   *)
(* goroutine returns, unless something else still has the output open.     *)
ShellEnds(script) ==
  /\ P!Alive
  /\ shells' = shells \ {script}
  /\ lingering' \in {lingering, lingering + 1}
  /\ UNCHANGED <<vars, processVars>>

(* Nothing makes the last holder of the output close it: no WaitDelay.     *)
OutputCloses ==
  /\ P!Alive
  /\ lingering > 0
  /\ lingering' = lingering - 1
  /\ UNCHANGED <<vars, processVars, shells>>

MutantOverdueShells == {}

(* The shells that the end of their context kills.                         *)
OverdueShells == {script \in shells : now >= script.due}

(* With Prompt, a kill and building the server take no time either.        *)
Elapse ==
  /\ Running
  /\ Tick
  /\ Prompt => OverdueShells = {} /\ main # "http"
  /\ UNCHANGED <<processVars, scriptVars>>

EddieNext ==
  \/ StartUp \/ ServerStep \/ ProcessStep(P!Ending) \/ ProcessStep(P!Deadline)
  \/ \E c \in Clients : ClientStep(c) \/ ProcessStep(P!Answer(c))
  \/ Signal
  \/ BeginCycle \/ FinishCycle \/ ReturnFromRun
  \/ \E s \in Specs : CheckStep(s)
  \/ \E script \in shells : ShellEnds(script)
  \/ OutputCloses
  \/ Elapse

(* As in Service; and goroutines are scheduled. Scripts promise nothing.   *)
EddieFairness ==
  /\ WF_eddieVars(StartUp)
  /\ WF_eddieVars(ProcessStep(P!Ending)) /\ WF_eddieVars(ProcessStep(P!Deadline))
  /\ \A c \in Clients : WF_eddieVars(ProcessStep(P!Answer(c)))
  /\ \A s \in Specs : WF_eddieVars(CheckStep(s))

EddieSpec == EddieInit /\ [][EddieNext]_eddieVars /\ EddieFairness

-------------------------------------------------------------------------------
(* Properties                                                              *)

(* The process with its monitor implements Service: Run returns only after *)
(* a signal, and it ends the process only where NewTicker panics.          *)
ImplementsService == P!Safety

(* What a status of zero means, and that a signal and a failure of the     *)
(* server both end the process, the failure never with status zero unless  *)
(* a signal was there too: as in Service, whatever the monitor, its mails  *)
(* and its scripts are doing at the time (main of cmd/eddie/main.go).      *)
ExitZeroIsClean == P!ExitZeroIsClean
ProcessEnds     == P!SignalEnds /\ P!ServerFailureIsFatal

(* What an exit cuts off, since main waits for the server only: nothing if *)
(* Run was between cycles; otherwise of each spec no more than the notice  *)
(* of the one check it was at, with everything before it told; and if the  *)
(* server could not be built, only the first cycle.                        *)
ExitCutsOffOneCycle ==
  main = "exited" =>
    /\ rpc # "waiting" => workers = {}
    /\ \A s \in Specs : Notifying(s) = {} => (told[s] = "failure" <=> Get(s).Status = "failing")
    /\ server = "off" => cycleNumber <= 1

(* Every notice a flipped status owes goes out, unless the process ends.   *)
NoticesGoOutUnlessExit ==
  \A s \in Specs : Notifying(s) # {} ~> Notifying(s) = {} \/ ~P!Alive

(* Scripts run beside the cycles that follow, so an on_failure script and  *)
(* the next on_resolved and on_failure scripts of a spec overlap, but never*)
(* more of their shells than a script's timeout has cycle intervals, the   *)
(* last one begun counts, and two: a cycle that is late is followed by the *)
(* next one at once, but the ticker keeps one tick only. (The goroutines   *)
(* and what a shell leaves running have no bound at all: runScript.)       *)
ShellsBounded ==
  \A s \in Specs :
    Cardinality({script \in shells : script.spec = s})
      <= (ScriptTimeout - 1) \div CycleInterval + 3
===============================================================================
