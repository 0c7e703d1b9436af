------------------------------- MODULE Startup -------------------------------
(***************************************************************************)
(* From main's first line to a process that serves, or one that has given  *)
(* up with status 1: the configuration is loaded, the mail service built,  *)
(* the spec files parsed, a failure to parse them mailed, and the HTTP     *)
(* server built.                                                           *)
(***************************************************************************)
EXTENDS SpecFiles, ConfigLoad

CONSTANT Launches(_)  \* the <<environment, args>> that files are started with

IsSequence(items) == items \in Seq({items[i] : i \in DOMAIN items})

(* Variables are of the type of their setting, unless they are no number   *)
(* where one is asked for, or no absolute path; so are the values of flags.*)
ASSUME LaunchesAssumption ==
  \A dir \in Directories : \A launch \in Launches(dir) :
    LET variables == launch[1]
        words     == launch[2]
    IN  /\ \A v \in DOMAIN variables :
             /\ v \in Numbers => variables[v] \in Int \cup {Empty, Unparsable}
             /\ v \notin Numbers \cup Switches \cup {XDGConfigHome} => variables[v] # Unparsable
             /\ v = "mail-receiver" => variables[v] = Empty \/ IsSequence(variables[v])
        /\ IsSequence(words)
        /\ \A i \in DOMAIN words :
             words[i][1] \in Numbers => words[i][2] \in Int \cup {Empty, Unparsable}

VARIABLES
  main,         \* "load", "parse", "notify", "server", "serving" or "exited"
  mailOn,       \* whether initializeMailService has returned a service
  told,         \* what became of each Send of a parse failure, in order
  sendExpired,  \* the deadline (30s) that these Sends share is over
  protected     \* whether the HTTP server asks for a password

noticeVars == <<told, sendExpired>>
mainVars == <<main, mailOn, noticeVars, protected>>
startupVars == <<vars, configVars, mainVars>>

StartupInit ==
  /\ Init
  /\ \E launch \in Launches(files) : environment = launch[1] /\ args = launch[2]
  /\ LoadInit
  /\ main = "load"
  /\ mailOn = FALSE /\ protected = FALSE
  /\ told = <<>> /\ sendExpired = FALSE

LoadConfiguration ==
  /\ main = "load"
  /\ LoadNext
  /\ UNCHANGED <<vars, mainVars>>

LoadFails ==
  /\ main = "load" /\ loading = "refused"
  /\ main' = "exited"
  /\ UNCHANGED <<vars, configVars, mailOn, noticeVars, protected>>

(* mail.New with WithPort and a WithReceiver for each receiver. *)
MailNew ==
  /\ \A s \in {"mail-endpoint", "mail-username", "mail-password", "mail-sender"} : cfg[s] # Empty
  /\ cfg["mail-port"] > 0
  /\ \A i \in DOMAIN receivers : receivers[i] # Raw(NoName, FALSE)

InitializeMailService ==
  /\ main = "load" /\ loading = "loaded"
  /\ mailOn' = MailNew
  /\ main' = "parse"
  /\ UNCHANGED <<vars, configVars, noticeVars, protected>>

ParseSpecs ==
  /\ main = "parse"
  /\ Next
  /\ UNCHANGED <<configVars, mainVars>>

ParseReturns ==
  /\ main = "parse" /\ phase \in {"accepted", "rejected"}
  /\ main' = IF phase = "accepted" THEN "server" ELSE "notify"
  /\ UNCHANGED <<vars, configVars, mailOn, noticeVars, protected>>

(* The receivers that notifySpecParseFailure goes through.                 *)
RecipientsToTell == IF mailOn THEN receivers ELSE <<>>

(* Send gives up before it dials once the deadline is over.                *)
SendResults == IF sendExpired THEN {"untried"} ELSE {"sent", "failed"}

(* One Send after the other, whatever it returns.                          *)
NotifySpecParseFailure ==
  /\ main = "notify"
  /\ Len(told) < Len(RecipientsToTell)
  /\ \E result \in SendResults :
       told' = Append(told, [to |-> RecipientsToTell[Len(told) + 1], result |-> result])
  /\ UNCHANGED <<vars, configVars, main, mailOn, sendExpired, protected>>

(* It is over while some Send waits for the mail server, or between two.   *)
NoticeDeadline ==
  /\ main = "notify"
  /\ Len(told) < Len(RecipientsToTell) /\ ~sendExpired
  /\ sendExpired' = TRUE
  /\ UNCHANGED <<vars, configVars, main, mailOn, told, protected>>

(* Gives up after the first Send that fails.                               *)
MutantExitAfterNotice ==
  /\ main = "notify"
  /\ \/ Len(told) = Len(RecipientsToTell)
     \/ told # <<>> /\ Last(told).result = "failed"
  /\ main' = "exited"
  /\ UNCHANGED <<vars, configVars, mailOn, noticeVars, protected>>

ExitAfterNotice ==
  /\ main = "notify"
  /\ Len(told) = Len(RecipientsToTell)
  /\ main' = "exited"
  /\ UNCHANGED <<vars, configVars, mailOn, noticeVars, protected>>

WantsAuth == cfg["http-basic-auth-username"] # Empty \/ cfg["http-basic-auth-password"] # Empty

MutantSoundServer == cfg["http-address"] # Empty /\ cfg["http-port"] > 0

(* New, WithBasicAuth: both parts or an error. *)
SoundServer ==
  /\ cfg["http-address"] # Empty
  /\ cfg["http-port"] > 0
  /\ WantsAuth => cfg["http-basic-auth-username"] # Empty /\ cfg["http-basic-auth-password"] # Empty

(* requireBasicAuth lets everyone in when there is no username. *)
NewServer ==
  /\ main = "server"
  /\ IF SoundServer
     THEN main' = "serving" /\ protected' = (cfg["http-basic-auth-username"] # Empty)
     ELSE main' = "exited" /\ UNCHANGED protected
  /\ UNCHANGED <<vars, configVars, mailOn, noticeVars>>

StartupNext ==
  \/ LoadConfiguration \/ LoadFails \/ InitializeMailService
  \/ ParseSpecs \/ ParseReturns
  \/ NotifySpecParseFailure \/ NoticeDeadline \/ ExitAfterNotice
  \/ NewServer

StartupSpec == StartupInit /\ [][StartupNext]_startupVars

-----------------------------------------------------------------------------
(* The flags that count: those before the first word that is none. *)
Flags ==
  LET ends == {i \in DOMAIN args : args[i] = Operand}
  IN  IF ends = {} THEN args ELSE SubSeq(args, 1, Min(ends) - 1)

Collect(values, flag) ==
  [name \in DOMAIN values |->
     IF name = flag[1] THEN Append(values[name], flag[2]) ELSE values[name]]

NoValues == [name \in Scalars \cup {"mail-receiver"} |-> <<>>]

(* The values of each flag, in their order.                                *)
Values == FoldLeft(Collect, NoValues, Flags)

Variable(v) == IF Given(v) THEN <<environment[v]>> ELSE <<>>

(* What there is to say of a setting, from the weakest to the strongest.   *)
Said(s) ==
  <<Defaults[s]>> \o (IF s = "log-level" THEN Variable(LogLevelAlt) ELSE <<>>)
                 \o Variable(s) \o Values[s]

(* What README.md says of the configuration, "CLI > ENV > defaults", name  *)
(* by name: the last flag of a setting decides, else its variable unless   *)
(* that is empty, else the default; and the receivers are all those of the *)
(* command line or, if there is none, all those of the environment, never  *)
(* a mixture (Load).                                                       *)
PrecedenceHolds ==
  loading = "loaded" =>
    /\ \A s \in Scalars \ {"log-level"} : cfg[s] = Last(Said(s))
    /\ cfg["log-level"].name = Level(Last(Said("log-level")))
    /\ LET given == IF Values["mail-receiver"] # <<>> THEN Values["mail-receiver"]
                    ELSE IF Given("mail-receiver") THEN environment["mail-receiver"] ELSE <<>>
       IN  /\ {receivers[i].name : i \in DOMAIN receivers}
                = {given[i].name : i \in DOMAIN given} \ {NoName}
           /\ Len(receivers) = Cardinality({i \in DOMAIN given : given[i].name # NoName})

(* Load refuses only a value that some source gives and that is wrong, and *)
(* the program runs with none that is: no jitter below zero, no level that *)
(* slog does not have, and a configuration directory. What does not parse  *)
(* counts wherever it is said, a jitter or a level only where it wins      *)
(* (Load).                                                                 *)
LoadErrorIsEarned ==
  LET all == Flags
      badVariable == \/ ~Given(Home) /\ ~Given(XDGConfigHome)
                     \/ \E v \in DOMAIN environment : environment[v] = Unparsable
      badFlag  == \E i \in DOMAIN all : ~Acceptable(all[i][1], all[i][2])
      badJitter == Last(Said("startup-jitter")) < 0
      badLevel  == Level(Last(Said("log-level"))) \notin Levels
  IN  /\ loading = "refused" => badVariable \/ badFlag \/ badJitter \/ badLevel
      /\ loading = "loaded" => /\ ~badVariable /\ ~badFlag
                               /\ cfg["startup-jitter"] >= 0
                               /\ cfg["log-level"].name \in Levels

(* Whether it is the configuration or the spec files that are refused, the *)
(* refusal has a reason in them, and a configuration that has one is not   *)
(* loaded. (What has one among the files: AcceptedSuitsRunner.)            *)
RefusalIsEarned == LoadErrorIsEarned /\ RejectionIsEarned

(* What there is of README.md's contract for spec files that do not parse: *)
(* if mail is configured, every configured receiver has its turn before the*)
(* process is gone, once each and in order, and goes without a mail being  *)
(* tried only once the one deadline is over that all of them share: a mail *)
(* that fails, and how it fails, keeps nobody from theirs; and a process   *)
(* that serves has parsed all its files (notifySpecParseFailure, Send).    *)
MailIsConfigured ==
  /\ {"mail-endpoint", "mail-username", "mail-password", "mail-sender"}
       \subseteq {s \in Texts : cfg[s] # Empty}
  /\ cfg["mail-port"] > 0

ParseFailureIsTold ==
  /\ main = "exited" /\ phase = "rejected" =>
       /\ Len(told) = IF MailIsConfigured THEN Len(receivers) ELSE 0
       /\ \A i \in 1 .. Len(told) :
            /\ told[i].to = receivers[i]
            /\ told[i].result = "untried" =>
                 sendExpired /\ \A j \in i .. Len(told) : told[j].result = "untried"
  /\ main \in {"server", "serving"} => phase = "accepted" /\ told = <<>>

(* Whoever configures a part of basic authentication never gets an open    *)
(* status page: the process asks for the password or does not serve        *)
(* (main, WithBasicAuth, requireBasicAuth).                                *)
NeverOpenByMistake ==
  main = "serving" =>
    protected = \E s \in {"http-basic-auth-username", "http-basic-auth-password"} :
                  IF Values[s] # <<>> THEN Last(Values[s]) # Empty ELSE Given(s)

=============================================================================
