-------------------------------- MODULE Service --------------------------------
(***************************************************************************)
(* The process: main (cmd/eddie/main.go) starts the monitor and the status *)
(* server (internal/http/server.go), waits for a signal or for the server  *)
(* to fail, shuts the server down and exits. Nobody waits for the monitor. *)
(*                                                                         *)
(* net/http is external: what Shutdown, ListenAndServe and a connection do *)
(* is modelled as main and the handlers use them.                          *)
(***************************************************************************)
EXTENDS Naturals

CONSTANTS Clients,           \* the connections that may be made
          IntervalPositive,  \* FALSE: the monitor's NewTicker panics after its first cycle
          QuickRequests      \* TRUE: a page is served well within the shutdown timeout

VARIABLES
  main,       \* where main is
  exitCode,   \* the status of the process, meaningful once it has exited
  signalled,  \* the context of signal.NotifyContext is done
  runner,     \* the goroutine of Runner.Run
  server,     \* the goroutine of ListenAndServe
  serverErr,  \* what serverErrCh (capacity one) holds
  expired,    \* the deadline of shutdownCtx has passed
  clients     \* the connection of each client

vars == <<main, exitCode, signalled, runner, server, serverErr, expired, clients>>

Init ==
  /\ main = "config"
  /\ exitCode = 0
  /\ signalled = FALSE
  /\ runner = "off"
  /\ server = "off"
  /\ serverErr = "none"
  /\ expired = FALSE
  /\ clients = [c \in Clients |-> "away"]

Alive == main # "exited"

(* os.Exit, the return of main, or a panic: everything else stops too.     *)
Exit(code) ==
  /\ main' = "exited"
  /\ exitCode' = code
  /\ UNCHANGED <<signalled, runner, server, serverErr, expired, clients>>

-------------------------------------------------------------------------------
(* Start-up. A signal is only noted here: main looks at it in its select.  *)

LoadConfiguration ==
  /\ main = "config"
  /\ main' = "specs"
  /\ UNCHANGED <<exitCode, signalled, runner, server, serverErr, expired, clients>>

ConfigurationFails == main = "config" /\ Exit(1)

(* Specs are parsed and the monitor is started.                            *)
ParseSpecs ==
  /\ main = "specs"
  /\ main' = "http"
  /\ runner' = "running"
  /\ UNCHANGED <<exitCode, signalled, server, serverErr, expired, clients>>

(* notifySpecParseFailure mails for at most 30 seconds before the exit.    *)
ParseFails ==
  /\ main = "specs"
  /\ main' = "mailing"
  /\ UNCHANGED <<exitCode, signalled, runner, server, serverErr, expired, clients>>

ParseFailureMailed == main = "mailing" /\ Exit(1)

NewServer ==
  /\ main = "http"
  /\ main' = "select"
  /\ server' = "starting"
  /\ UNCHANGED <<exitCode, signalled, runner, serverErr, expired, clients>>

(* A bad address, port or half a basic-auth pair, found with the monitor   *)
(* already running.                                                        *)
NewServerFails == main = "http" /\ Exit(1)

-------------------------------------------------------------------------------
(* The server goroutine.                                                   *)

(* ListenAndServe binds its port, unless Shutdown was called before.       *)
Listen ==
  /\ Alive /\ server = "starting" /\ main = "select"
  /\ server' = "serving"
  /\ UNCHANGED <<main, exitCode, signalled, runner, serverErr, expired, clients>>

ListenAfterShutdown ==
  /\ server = "starting" /\ main = "shutdown"
  /\ server' = "closed" /\ serverErr' = "closed"
  /\ UNCHANGED <<main, exitCode, signalled, runner, expired, clients>>

(* It cannot bind, or can no longer accept.                                *)
ServerFails ==
  /\ Alive /\ main = "select" /\ server \in {"starting", "serving"}
  /\ server' = "failed" /\ serverErr' = "error"
  /\ UNCHANGED <<main, exitCode, signalled, runner, expired, clients>>

-------------------------------------------------------------------------------
(* The select of main and Shutdown.                                        *)

(* Shutdown closes the listener, so Serve returns ErrServerClosed. If the  *)
(* server has failed as well, select picks either case.                    *)
SelectSignal ==
  /\ main = "select" /\ signalled
  /\ main' = "shutdown"
  /\ IF server = "serving"
     THEN server' = "closed" /\ serverErr' = "closed"
     ELSE UNCHANGED <<server, serverErr>>
  /\ UNCHANGED <<exitCode, signalled, runner, expired, clients>>

MutantSelectServerErr == main = "select" /\ serverErr # "none" /\ Exit(0)

SelectServerErr ==
  /\ main = "select" /\ serverErr # "none"
  /\ Exit(IF serverErr = "error" THEN 1 ELSE 0)

Busy(c) == clients[c] \in {"page", "stream"}

MutantShutdownReturns ==
  /\ main = "shutdown"
  /\ \A c \in Clients : clients[c] # "page"
  /\ Exit(0)

(* Shutdown polls: idle connections are closed, and it returns nil when no *)
(* connection is busy.                                                     *)
ShutdownReturns ==
  /\ main = "shutdown"
  /\ \A c \in Clients : ~Busy(c)
  /\ Exit(0)

MutantShutdownExpires ==
  /\ main = "shutdown" /\ expired
  /\ \A c \in Clients : ~Busy(c)
  /\ Exit(1)

ShutdownExpires == main = "shutdown" /\ expired /\ Exit(1)

Deadline ==
  /\ main = "shutdown" /\ ~expired
  /\ QuickRequests => \A c \in Clients : clients[c] # "page"
  /\ expired' = TRUE
  /\ UNCHANGED <<main, exitCode, signalled, runner, server, serverErr, clients>>

-------------------------------------------------------------------------------
(* Clients and handlers. "page" is a request for / or /healthz, which the  *)
(* handler answers; "stream" is one for /events, which the handler serves  *)
(* until the client has gone: the request's context does not end with      *)
(* Shutdown.                                                               *)

(* A request on a new connection, or on one that is being kept alive.      *)
Request(c) ==
  /\ \/ clients[c] = "away" /\ server = "serving"
     \/ clients[c] = "idle"
  /\ Alive
  /\ \E kind \in {"page", "stream"} : clients' = [clients EXCEPT ![c] = kind]
  /\ UNCHANGED <<main, exitCode, signalled, runner, server, serverErr, expired>>

Answer(c) ==
  /\ Alive /\ clients[c] = "page"
  /\ clients' = [clients EXCEPT ![c] = IF main = "shutdown" THEN "away" ELSE "idle"]
  /\ UNCHANGED <<main, exitCode, signalled, runner, server, serverErr, expired>>

Leave(c) ==
  /\ Alive /\ clients[c] # "away"
  /\ clients' = [clients EXCEPT ![c] = "away"]
  /\ UNCHANGED <<main, exitCode, signalled, runner, server, serverErr, expired>>

CloseIdle(c) ==
  /\ main = "shutdown" /\ clients[c] = "idle"
  /\ clients' = [clients EXCEPT ![c] = "away"]
  /\ UNCHANGED <<main, exitCode, signalled, runner, server, serverErr, expired>>

-------------------------------------------------------------------------------
(* The signal and the monitor's goroutine.                                 *)

Signal ==
  /\ Alive /\ ~signalled
  /\ signalled' = TRUE
  /\ UNCHANGED <<main, exitCode, runner, server, serverErr, expired, clients>>

RunnerReturns ==
  /\ Alive /\ runner = "running" /\ signalled
  /\ runner' = "stopped"
  /\ UNCHANGED <<main, exitCode, signalled, server, serverErr, expired, clients>>

RunnerPanics == Alive /\ runner = "running" /\ ~IntervalPositive /\ Exit(2)

-------------------------------------------------------------------------------
StartUp == \/ LoadConfiguration \/ ConfigurationFails
           \/ ParseSpecs \/ ParseFails \/ ParseFailureMailed
           \/ NewServer \/ NewServerFails

Ending == SelectSignal \/ SelectServerErr \/ ShutdownReturns \/ ShutdownExpires

Next ==
  \/ StartUp \/ Ending \/ Deadline
  \/ Listen \/ ListenAfterShutdown \/ ServerFails
  \/ \E c \in Clients : Request(c) \/ Answer(c) \/ Leave(c) \/ CloseIdle(c)
  \/ Signal \/ RunnerReturns \/ RunnerPanics

Safety == Init /\ [][Next]_vars

(* main runs, and the shutdown timeout passes. Handlers answer; clients    *)
(* promise nothing.                                                        *)
Fairness ==
  /\ WF_vars(StartUp) /\ WF_vars(Ending) /\ WF_vars(Deadline)
  /\ \A c \in Clients : WF_vars(Answer(c))

Spec == Safety /\ Fairness

-------------------------------------------------------------------------------
(* Properties.                                                             *)

Exited(code) == main = "exited" /\ exitCode = code

(* Status 0 tells a supervisor that eddie was asked to stop and has not    *)
(* broken off any response.                                                *)
ExitZeroIsClean ==
  Exited(0) => signalled /\ \A c \in Clients : ~Busy(c)

(* A server that fails while nobody has asked eddie to stop is never       *)
(* reported as a clean exit, and the monitor does not go on without it.    *)
ServerFailureIsFatal ==
  server = "failed" ~> main = "exited" /\ (signalled \/ exitCode # 0)

(* A signal ends the process whatever the clients do, at the latest when   *)
(* the shutdown timeout has passed.                                        *)
SignalEnds == signalled ~> main = "exited"

(* Shutdown "gracefully stops the HTTP server": a process asked to stop    *)
(* leaves no response broken off.                                          *)
ShutdownIsGraceful ==
  main = "exited" /\ server = "closed" /\ exitCode # 2 => \A c \in Clients : ~Busy(c)

-------------------------------------------------------------------------------
(* Why status zero is clean. By itself ExitZeroIsClean is not inductive:   *)
(* that main is in Shutdown only after a signal, and that the server does  *)
(* not report ErrServerClosed before, is needed too.                       *)
ExitInv ==
  /\ main \in {"config", "specs", "mailing", "http"} => serverErr = "none"
  /\ main = "select" => serverErr \in {"none", "error"}
  /\ main = "shutdown" => signalled
  /\ ExitZeroIsClean
===============================================================================
