---------------------------- MODULE CheckVerdicts ----------------------------
(***************************************************************************)
(* How the checks of type http, tls and s3 judge what a service has shown: *)
(* each verdict is the reason the check fails for, or "none".              *)
(*                                                                         *)
(*   an http answer   [code, redirect, headers, body]                      *)
(*   a tls peer       [version, trusted, certificates, selfSigned,         *)
(*                     notAfter], trusted for the name that is asked for   *)
(*   an s3 bucket     [objects], those under the prefix                    *)
(***************************************************************************)
EXTENDS Integers, FiniteSetsExt

CONSTANTS
  Empty,          \* the empty text
  Unset,          \* an optional field that the file leaves out
  Within,         \* the <<part, text>> for which strings.Contains holds
  DurationRange,  \* 2^63: durations run from -DurationRange to DurationRange - 1
  Day,            \* the duration of a day
  PageLimit,      \* how many keys S3 lists at most per answer (1000)
  DefaultTimeout  \* 15 s

Go == INSTANCE CycleState

IsWithin(part, text) == part = Empty \/ part = text \/ <<part, text>> \in Within

Timeout(conf) == IF conf.timeout =< 0 THEN DefaultTimeout ELSE conf.timeout

-----------------------------------------------------------------------------
(* http.Header.Get: a header that is not there reads as the empty text. *)
Get(headers, name) == IF name \in DOMAIN headers THEN headers[name] ELSE Empty

MutantHTTPVerdict(expect, answer) ==
  IF /\ expect.code > 0 \/ expect.codeAnyOf # {}
     /\ answer.code \notin expect.codeAnyOf \union {expect.code} THEN "code"
  ELSE IF \/ \E name \in DOMAIN expect.header :
               Get(answer.headers, name) # expect.header[name]
          \/ \E name \in DOMAIN expect.headerContains :
               ~IsWithin(expect.headerContains[name], Get(answer.headers, name)) THEN "header"
  ELSE IF \/ expect.exact # Empty /\ answer.body # expect.exact
          \/ expect.contains # Empty /\ ~IsWithin(expect.contains, answer.body) THEN "body"
  ELSE "none"

HTTPVerdict(expect, answer) ==
  IF \/ expect.code > 0 /\ answer.code # expect.code
     \/ expect.codeAnyOf # {} /\ answer.code \notin expect.codeAnyOf THEN "code"
  ELSE IF \/ \E name \in DOMAIN expect.header :
               Get(answer.headers, name) # expect.header[name]
          \/ \E name \in DOMAIN expect.headerContains :
               ~IsWithin(expect.headerContains[name], Get(answer.headers, name)) THEN "header"
  ELSE IF \/ expect.exact # Empty /\ answer.body # expect.exact
          \/ expect.contains # Empty /\ ~IsWithin(expect.contains, answer.body) THEN "body"
  ELSE "none"

-----------------------------------------------------------------------------
Versions == {"1.0", "1.1", "1.2", "1.3"}
Rank(version) == CASE version = "1.0" -> 0 [] version = "1.1" -> 1
                   [] version = "1.2" -> 2 [] version = "1.3" -> 3

Default(field, value) == IF field = Unset THEN value ELSE field

(* Without a min_version crypto/tls asks for 1.2. *)
ParseTLSVersion(text) == IF text = Empty THEN "1.2" ELSE text

(* The connection, which crypto/tls refuses below the version or, unless   *)
(* verification is off, for an untrusted chain.                            *)
Handshakes(conf, peer) ==
  /\ Rank(peer.version) >= Rank(ParseTLSVersion(conf.minVersion))
  /\ Default(conf.verify, TRUE) => peer.trusted

MutantCutoff(days, now) == now + Go!Wrap(days * Day) - 1

Cutoff(days, now) == now + Go!Wrap(days * Day)

TLSVerdict(conf, peer, now) ==
  IF ~Handshakes(conf, peer) THEN "connect"
  ELSE IF peer.certificates = 0 THEN "no certificate"
  ELSE IF Default(conf.rejectSelfSigned, TRUE) /\ peer.selfSigned THEN "self-signed"
  ELSE IF conf.minDays # Unset /\ ~(peer.notAfter > Cutoff(conf.minDays, now)) THEN "expires"
  ELSE "none"

-----------------------------------------------------------------------------
(* One answer of S3 lists at most this many keys; the code asks for no     *)
(* second one.                                                             *)
Page(conf) == IF conf.maxKeys > 0 THEN Min({conf.maxKeys, PageLimit}) ELSE PageLimit

KeyCount(conf, bucket) == Min({bucket.objects, Page(conf)})

Meets(expect, count) ==
  CASE expect.op = "gt" -> count > expect.bound
    [] expect.op = "gte" -> count >= expect.bound
    [] expect.op = "eq" -> count = expect.bound

MutantS3Verdict(conf, bucket) ==
  LET more == bucket.objects > Page(conf)
      count == KeyCount(conf, bucket)
  IN  IF more \/ Meets(conf.expect, count) THEN "none" ELSE "count"

S3Verdict(conf, bucket) ==
  IF Meets(conf.expect, KeyCount(conf, bucket)) THEN "none" ELSE "count"
=============================================================================
