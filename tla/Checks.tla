------------------------------- MODULE Checks -------------------------------
(***************************************************************************)
(* One check of a spec of any type, from validateSpec to its verdict.  A   *)
(* probe runs through the steps of ProbeCheck; the other types ask their   *)
(* service under one deadline, http perhaps more than once as it follows   *)
(* redirects, and judge the last answer.                                   *)
(***************************************************************************)
EXTENDS ProbeCheck, CheckVerdicts

CONSTANTS
  Confs,        \* the specs: [kind, conf], conf a section of the file
  Replies,      \* Replies[kind]: what a service of this type may show
  MaxRedirects, \* net/http follows nine redirects and refuses the tenth answer
  Now           \* the time at which a certificate is judged

(* Durations are integers; validateSpecs lets no negative number of days   *)
(* and validateS3Spec exactly one of three conditions pass.                *)
ASSUME ChecksAssumption ==
  /\ DefaultTimeout \in Nat /\ PageLimit \in Nat /\ Day \in Nat
  /\ DurationRange \in Nat /\ Now \in Int
  /\ Unset \notin BOOLEAN
  /\ \A s \in Confs :
       /\ s.kind \in {"http", "tls", "s3"}
       /\ s.conf.timeout \in Int
       /\ s.kind = "tls" => /\ s.conf.verify \in BOOLEAN \union {Unset}
                            /\ s.conf.rejectSelfSigned \in BOOLEAN \union {Unset}
                            /\ s.conf.minDays # Unset => s.conf.minDays \in Nat
       /\ s.kind = "s3" => /\ s.conf.maxKeys \in Int
                           /\ s.conf.expect.op \in {"gt", "gte", "eq"}
                           /\ s.conf.expect.bound \in Int
  /\ \A peer \in Replies["tls"] :
       /\ peer.version \in Versions /\ peer.notAfter \in Int /\ peer.certificates \in Nat
       /\ peer.trusted \in BOOLEAN /\ peer.selfSigned \in BOOLEAN
  /\ \A bucket \in Replies["s3"] : bucket.objects \in Nat

VARIABLES
  spec,      \* the spec that is checked
  phase,     \* "start", "waiting", "reading", "passed" or "failed"
  reason,    \* what the check failed for
  shown,     \* what the service has answered so far, in order (history)
  elapsed,   \* how long the check has taken (history)
  deadline   \* when its context ends

checkVars == <<spec, phase, reason, shown, elapsed, deadline>>

Kinds == {"http", "tls", "probe", "s3"}

AnyProbe == CHOOSE p \in Probes : TRUE

ChecksInit ==
  /\ \/ probe \in Probes /\ spec = [kind |-> "probe", conf |-> probe]
     \/ probe = AnyProbe /\ spec \in Confs
  /\ Unchecked
  /\ phase = "start" /\ reason = "none"
  /\ shown = <<>>
  /\ elapsed = 0 /\ deadline = 0

Conclude(why) ==
  /\ phase' = IF why = "none" THEN "passed" ELSE "failed"
  /\ reason' = why

(* What is wrong with the spec itself, which Parse has let through. *)
Defect ==
  CASE spec.kind = "http" -> IF spec.conf.url = "absolute" THEN "none" ELSE "url"
    [] spec.kind = "tls" -> IF spec.conf.host = Empty THEN "host"
                            ELSE IF spec.conf.minVersion \notin Versions \union {Empty}
                                 THEN "min_version" ELSE "none"
    [] spec.kind = "s3" -> "none"

(* validateSpec: the type's function, its defaults and its deadline. *)
StartCheck ==
  /\ phase = "start" /\ spec.kind # "probe"
  /\ IF Defect = "none"
     THEN phase' = "waiting" /\ deadline' = elapsed + Timeout(spec.conf) /\ UNCHANGED reason
     ELSE Conclude(Defect) /\ UNCHANGED deadline
  /\ UNCHANGED <<spec, shown, elapsed>>

MutantHTTPAnswers(answer) ==
  /\ phase = "waiting" /\ spec.kind = "http"
  /\ elapsed < deadline
  /\ shown' = Append(shown, answer)
  /\ IF answer.redirect /\ spec.conf.followRedirects
     THEN IF Len(shown') >= MaxRedirects
          THEN Conclude("redirects") /\ UNCHANGED deadline
          ELSE UNCHANGED <<phase, reason>> /\ deadline' = elapsed + Timeout(spec.conf)
     ELSE phase' = "reading" /\ UNCHANGED <<reason, deadline>>
  /\ UNCHANGED <<spec, elapsed>>

(* client.Do returns with the first answer that is no redirect, or with    *)
(* the first one if redirects are not to be followed.                      *)
HTTPAnswers(answer) ==
  /\ phase = "waiting" /\ spec.kind = "http"
  /\ elapsed < deadline
  /\ shown' = Append(shown, answer)
  /\ IF answer.redirect /\ spec.conf.followRedirects
     THEN IF Len(shown') >= MaxRedirects THEN Conclude("redirects")
                                         ELSE UNCHANGED <<phase, reason>>
     ELSE phase' = "reading" /\ UNCHANGED reason
  /\ UNCHANGED <<spec, elapsed, deadline>>

(* io.ReadAll has the whole body of the last answer. *)
HTTPBodyEnds ==
  /\ phase = "reading"
  /\ elapsed < deadline
  /\ Conclude(HTTPVerdict(spec.conf.expect, Last(shown)))
  /\ UNCHANGED <<spec, shown, elapsed, deadline>>

TLSConnects(peer) ==
  /\ phase = "waiting" /\ spec.kind = "tls"
  /\ elapsed < deadline
  /\ shown' = Append(shown, peer)
  /\ Conclude(TLSVerdict(spec.conf, peer, Now))
  /\ UNCHANGED <<spec, elapsed, deadline>>

S3Lists(bucket) ==
  /\ phase = "waiting" /\ spec.kind = "s3"
  /\ elapsed < deadline
  /\ shown' = Append(shown, bucket)
  /\ Conclude(S3Verdict(spec.conf, bucket))
  /\ UNCHANGED <<spec, elapsed, deadline>>

(* The connection breaks, or the context ends with a signal. *)
BreaksOff ==
  /\ phase \in {"waiting", "reading"}
  /\ \E why \in {"transport", "cancelled"} : Conclude(why)
  /\ UNCHANGED <<spec, shown, elapsed, deadline>>

MutantDeadlineEnds ==
  /\ phase = "waiting"
  /\ elapsed >= deadline
  /\ Conclude("deadline")
  /\ UNCHANGED <<spec, shown, elapsed, deadline>>

DeadlineEnds ==
  /\ phase \in {"waiting", "reading"}
  /\ elapsed >= deadline
  /\ Conclude("deadline")
  /\ UNCHANGED <<spec, shown, elapsed, deadline>>

(* Time passes, but not past a context's end. *)
Wait ==
  /\ phase \in {"waiting", "reading"}
  /\ elapsed < deadline
  /\ elapsed' = elapsed + 1
  /\ UNCHANGED <<spec, phase, reason, shown, deadline>>

Asked(kind) == IF spec.kind = kind THEN Replies[kind] ELSE {}

ServiceCheck ==
  \/ StartCheck
  \/ \E answer \in Asked("http") : HTTPAnswers(answer)
  \/ HTTPBodyEnds
  \/ \E peer \in Asked("tls") : TLSConnects(peer)
  \/ \E bucket \in Asked("s3") : S3Lists(bucket)
  \/ BreaksOff
  \/ DeadlineEnds
  \/ Wait

ProbeStep == spec.kind = "probe" /\ Next

ChecksNext ==
  \/ ServiceCheck /\ UNCHANGED vars
  \/ ProbeStep /\ UNCHANGED checkVars

allVars == <<vars, checkVars>>

(* Timers fire and goroutines run on; no service has to answer. *)
ChecksFairness ==
  /\ WF_allVars((StartCheck \/ Wait \/ DeadlineEnds) /\ UNCHANGED vars)
  /\ WF_allVars(ProbeStep /\ UNCHANGED checkVars)

ChecksSpec == ChecksInit /\ [][ChecksNext]_allVars /\ ChecksFairness

-----------------------------------------------------------------------------
Verdict == phase = "passed" \/ reason \in {"code", "header", "body", "connect",
                                           "no certificate", "self-signed", "expires", "count"}

(* The README's field reference, field by field and in any order: what an  *)
(* answer has to be for the check to pass.                                 *)
HTTPMeets(expect, answer) ==
  /\ expect.code > 0 => answer.code = expect.code
  /\ expect.codeAnyOf # {} => answer.code \in expect.codeAnyOf
  /\ \A name \in DOMAIN expect.header : Get(answer.headers, name) = expect.header[name]
  /\ \A name \in DOMAIN expect.headerContains :
       IsWithin(expect.headerContains[name], Get(answer.headers, name))
  /\ expect.exact \in {Empty, answer.body}
  /\ IsWithin(expect.contains, answer.body)

(* An http check passes or fails by the answer at the end of the redirects *)
(* it follows, by the first one if it follows none, never by one between,  *)
(* and passes exactly if that answer meets every expectation of the file   *)
(* (validateHTTPSpec).                                                     *)
HTTPVerdictIsEarned ==
  spec.kind = "http" /\ Verdict =>
    LET judged == CHOOSE i \in DOMAIN shown :
                    /\ ~(shown[i].redirect /\ spec.conf.followRedirects)
                    /\ \A j \in 1..(i - 1) : shown[j].redirect /\ spec.conf.followRedirects
    IN  phase = "passed" <=> HTTPMeets(spec.conf.expect, shown[judged])

(* One deadline holds for the whole check, however many redirects it       *)
(* follows and wherever the service stalls: a check takes no longer than   *)
(* its timeout, and the cycle that waits for it neither (reqCtx of         *)
(* validateHTTPSpec, listCtx of validateS3Spec, the dialer's timeout).     *)
ChecksEndInTime ==
  spec.kind # "probe" => elapsed =< Timeout(spec.conf)

(* Every check comes to a verdict or an error, also if a service accepts   *)
(* the connection and then says nothing, or stalls within its answer: the  *)
(* goroutine that runs it, and with it the cycle, is never stuck.          *)
Finished ==
  IF spec.kind = "probe" THEN stage \in {"passed", "failed", "rejected"}
                         ELSE phase \in {"passed", "failed"}

ChecksFinish == <>Finished

(* A tls check passes exactly for a peer it should trust: a version as     *)
(* asked for, a chain and an issuer as asked for - both if the file says   *)
(* nothing - and a certificate that is still valid that many days from     *)
(* now.  The last only for days whose product with a day is a duration:    *)
(* beyond, the cutoff wraps around and the certificate may be accepted.    *)
StillValid(conf, peer) ==
  conf.minDays # Unset => peer.notAfter - Now > conf.minDays * Day

TLSVerdictIsEarned ==
  spec.kind = "tls" /\ Verdict =>
    LET peer == shown[1]
        conf == spec.conf
        acceptable ==
          /\ peer.trusted \/ conf.verify = FALSE
          /\ ~peer.selfSigned \/ conf.rejectSelfSigned = FALSE
          /\ peer.certificates > 0
          /\ StillValid(conf, peer)
          /\ conf.minVersion = Empty => peer.version \in {"1.2", "1.3"}
          /\ conf.minVersion # Empty => Rank(peer.version) >= Rank(conf.minVersion)
    IN  conf.minDays = Unset \/ conf.minDays * Day < DurationRange
          => (phase = "passed" <=> acceptable)

(* An s3 check sees one page of the listing.  That at least, or more than, *)
(* so many objects are there is true whenever it passes; and as long as    *)
(* the bound is below the page every verdict is that of the whole listing  *)
(* (validateS3Spec reads KeyCount and never asks for the next page).       *)
S3VerdictIsEarned ==
  spec.kind = "s3" /\ Verdict =>
    LET expect == spec.conf.expect
        true == Meets(expect, shown[1].objects)
    IN  /\ phase = "passed" /\ expect.op # "eq" => true
        /\ expect.bound < Page(spec.conf) => (phase = "passed" <=> true)

(* A check of any type passes and fails by what its file says and what its *)
(* service has answered, and by nothing else.                              *)
VerdictIsEarned ==
  /\ PassIsEarned /\ FailureIsEarned
  /\ HTTPVerdictIsEarned /\ TLSVerdictIsEarned /\ S3VerdictIsEarned
=============================================================================
