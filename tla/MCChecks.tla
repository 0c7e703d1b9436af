------------------------------ MODULE MCChecks ------------------------------
EXTENDS Checks, MCProbeCheck

Expectations ==
  [code : {0, 200}, codeAnyOf : {{}, {200, 204}},
   header : {<<>>, "etag" :> Empty, "etag" :> "a"}, headerContains : {<<>>, "etag" :> "a"},
   exact : {Empty, "ab"}, contains : {Empty, "a"}]
HTTPConf(url, followRedirects, timeout, expect) ==
  [kind |-> "http", conf |-> [url |-> url, followRedirects |-> followRedirects,
                              timeout |-> timeout, expect |-> expect]]
AnyExpect == CHOOSE e \in Expectations : TRUE
HTTPConfs ==
  {HTTPConf("absolute", follow, 1, e) : follow \in BOOLEAN, e \in Expectations}
    \union {HTTPConf("absolute", TRUE, timeout, AnyExpect) : timeout \in {-1, 0, 3}}
    \union {HTTPConf(url, FALSE, 0, AnyExpect) : url \in {"relative", "malformed"}}

Answer(code, headers, body) ==
  [code |-> code, redirect |-> code = 302, headers |-> headers, body |-> body]
Answers == {Answer(302, <<>>, Empty), Answer(302, "etag" :> "a", "ab"),
            Answer(200, "etag" :> "ab", "ab"), Answer(200, "etag" :> "a", "a"),
            Answer(200, <<>>, Empty), Answer(204, <<>>, Empty), Answer(500, <<>>, "ab")}

(* Durations from -32 to 31 with days of 4: seven days fit, eight wrap. *)
TLSConfs ==
  {[kind |-> "tls", conf |-> conf] : conf \in
     [host : {"h"}, timeout : {0}, verify : {Unset, TRUE, FALSE},
      rejectSelfSigned : {Unset, FALSE}, minVersion : {Empty, "1.0", "1.3"},
      minDays : {Unset, 0, 1, 7, 8}]
     \union [host : {Empty, "h"}, timeout : {2}, verify : {Unset}, rejectSelfSigned : {TRUE},
             minVersion : {"1.4"}, minDays : {Unset}]}
Peers == [version : {"1.1", "1.2", "1.3"}, trusted : BOOLEAN, certificates : {1},
          selfSigned : BOOLEAN, notAfter : {0, 10, 14, 15, 39}]
         \union [version : {"1.3"}, trusted : {FALSE}, certificates : {0},
                 selfSigned : {FALSE}, notAfter : {0}]

S3Confs == {[kind |-> "s3", conf |-> conf] : conf \in
              [timeout : {0, 1}, maxKeys : {0, 1, 2, 4},
               expect : [op : {"gt", "gte", "eq"}, bound : 0..4]]}
Buckets == [objects : 0..5]

MCConfs == HTTPConfs \union TLSConfs \union S3Confs
MCReplies == [kind \in {"http", "tls", "s3"} |->
                CASE kind = "http" -> Answers [] kind = "tls" -> Peers [] OTHER -> Buckets]
MCWithin == {<<"a", "ab">>}
=============================================================================
