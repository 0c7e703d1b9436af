------------------------------ MODULE ConfigLoad ------------------------------
(***************************************************************************)
(* config.Load: the defaults, over them the environment variables, over    *)
(* these the command line, flag by flag.  A setting goes by the name of    *)
(* its flag.  A text that is no number where one is asked for is           *)
(* Unparsable; log levels and mail addresses are texts that may be padded. *)
(***************************************************************************)
EXTENDS ProbeSpec, Integers, SequencesExt

CONSTANTS Empty, Unparsable

VARIABLES
  environment,  \* the variables that are set, LogLevelAlt being EDDIE_LOGLEVEL
  args,         \* the command line: <<name, raw>>, or Operand for any other word
  loading,      \* "environment", "arguments", "loaded" or "refused"
  arg,          \* the argument that is parsed next
  cfg,          \* Configuration without the receivers
  receivers,    \* Configuration.Mailserver.Receivers
  changed       \* stringSliceFlag.changed

configVars == <<environment, args, loading, arg, cfg, receivers, changed>>

Numbers == {"cycle-interval", "startup-jitter", "shutdown-timeout", "http-port", "mail-port"}
Switches == {"mail-no-tls"}
Texts == {"spec-path", "http-address", "http-basic-auth-username",
          "http-basic-auth-password", "mail-endpoint", "mail-username",
          "mail-password", "mail-sender"}
Scalars == Numbers \union Switches \union Texts \union {"log-level"}
LogLevelAlt == "EDDIE_LOGLEVEL"
Home == "HOME"
XDGConfigHome == "XDG_CONFIG_HOME"
Operand == <<"operand", Empty>>

(* Durations in seconds. *)
Defaults ==
  [s \in Scalars |->
     CASE s = "spec-path" -> "config.d"
       [] s = "cycle-interval" -> 60
       [] s = "startup-jitter" -> 0
       [] s = "shutdown-timeout" -> 5
       [] s = "log-level" -> Raw("INFO", FALSE)
       [] s = "http-address" -> "0.0.0.0"
       [] s = "http-port" -> 8080
       [] s = "mail-port" -> 587
       [] s = "mail-no-tls" -> FALSE
       [] OTHER -> Empty]

Upper(word) ==
  CASE word = "debug" -> "DEBUG" [] word = "info" -> "INFO"
    [] word = "warn" -> "WARN" [] word = "error" -> "ERROR" [] OTHER -> word

(* No default is the text that is no number. *)
ASSUME DefaultsAssumption == Unparsable # Empty /\ \A s \in Scalars : Defaults[s] # Unparsable

Level(raw) == Upper(TrimSpace(raw).name)
Levels == {"DEBUG", "INFO", "WARN", "ERROR"}

AppendPart(values, part) == IF Blank(part) THEN values ELSE Append(values, TrimSpace(part))

(* The parts between the commas. *)
ParseCSVList(parts) == FoldLeft(AppendPart, <<>>, parts)

-----------------------------------------------------------------------------
LoadInit ==
  /\ loading = "environment"
  /\ arg = 1
  /\ cfg = Defaults /\ receivers = <<>> /\ changed = FALSE

(* A variable that is set to nothing is as good as not set. *)
Given(variable) == variable \in DOMAIN environment /\ environment[variable] # Empty

FromEnvironment(s) ==
  CASE Given(s) -> environment[s]
    [] s = "log-level" /\ ~Given(s) /\ Given(LogLevelAlt) -> environment[LogLevelAlt]
    [] OTHER -> Defaults[s]

(* os.UserConfigDir (on Unix): a relative path is Unparsable.              *)
HasConfigDir ==
  IF Given(XDGConfigHome) THEN environment[XDGConfigHome] # Unparsable ELSE Given(Home)

(* Without a configuration directory the spec path has no default.         *)
ReadEnvironment ==
  /\ loading = "environment"
  /\ IF ~HasConfigDir \/ \E s \in Scalars : FromEnvironment(s) = Unparsable
     THEN loading' = "refused" /\ UNCHANGED <<cfg, receivers>>
     ELSE /\ loading' = "arguments"
          /\ cfg' = [s \in Scalars |-> FromEnvironment(s)]
          /\ receivers' = IF Given("mail-receiver")
                          THEN ParseCSVList(environment["mail-receiver"]) ELSE <<>>
  /\ UNCHANGED <<environment, args, arg, changed>>

(* What flag refuses: a flag it does not know, or a value of another type. *)
Acceptable(name, raw) ==
  \/ name \in Texts \union {"log-level"}
  \/ name \in Numbers \union Switches /\ raw \notin {Empty, Unparsable}
  \/ name = "mail-receiver" /\ ~Blank(raw)

MutantReceiversAfter(raw) == Append(receivers, TrimSpace(raw))

(* stringSliceFlag.Set: the first one replaces those of the environment. *)
ReceiversAfter(raw) == Append(IF changed THEN receivers ELSE <<>>, TrimSpace(raw))

ParseFlag ==
  /\ loading = "arguments"
  /\ arg =< Len(args) /\ args[arg] # Operand
  /\ LET name == args[arg][1]
         raw == args[arg][2]
     IN  IF ~Acceptable(name, raw)
         THEN loading' = "refused" /\ UNCHANGED <<arg, cfg, receivers, changed>>
         ELSE /\ arg' = arg + 1
              /\ IF name = "mail-receiver"
                 THEN receivers' = ReceiversAfter(raw) /\ changed' = TRUE /\ UNCHANGED cfg
                 ELSE cfg' = [cfg EXCEPT ![name] = raw] /\ UNCHANGED <<receivers, changed>>
              /\ UNCHANGED loading
  /\ UNCHANGED <<environment, args>>

MutantFinishLoad ==
  /\ loading = "arguments"
  /\ arg =< Len(args) => args[arg] = Operand
  /\ IF Level(cfg["log-level"]) \notin Levels
     THEN loading' = "refused" /\ UNCHANGED cfg
     ELSE /\ loading' = "loaded"
          /\ cfg' = [cfg EXCEPT !["log-level"] = Raw(Level(@), FALSE)]
  /\ UNCHANGED <<environment, args, arg, receivers, changed>>

(* flag stops at the first word that is not a flag, then Load checks two   *)
(* of the settings.                                                        *)
FinishLoad ==
  /\ loading = "arguments"
  /\ arg =< Len(args) => args[arg] = Operand
  /\ IF cfg["startup-jitter"] < 0 \/ Level(cfg["log-level"]) \notin Levels
     THEN loading' = "refused" /\ UNCHANGED cfg
     ELSE /\ loading' = "loaded"
          /\ cfg' = [cfg EXCEPT !["log-level"] = Raw(Level(@), FALSE)]
  /\ UNCHANGED <<environment, args, arg, receivers, changed>>

LoadNext == ReadEnvironment \/ ParseFlag \/ FinishLoad
=============================================================================
