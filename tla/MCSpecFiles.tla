----------------------------- MODULE MCSpecFiles -----------------------------
(* Up to two files of up to two documents each.                             *)
EXTENDS SpecFiles

Named(kinds, name, padded) ==
  [kinds |-> kinds, disabled |-> FALSE, name |-> Raw(name, padded),
   everyCycles |-> 0, receivers |-> <<Raw("ann", TRUE)>>, section |-> NoValue]

Web == Named({"http"}, "web", FALSE)

Request == [id |-> Raw("a", FALSE), url |-> TRUE]
Extract == [id |-> Raw("x", FALSE), from |-> Raw("a", TRUE), source |-> "body",
            key |-> Raw(NoName, FALSE), transforms |-> <<>>]
Assertion(ref) ==
  [id |-> Raw("s", FALSE), op |-> "eq", values |-> <<>>,
   left |-> [ref |-> Raw(ref, FALSE), value |-> NoValue],
   right |-> [ref |-> Raw(NoName, FALSE), value |-> "ok"]]
Probing(ref) ==
  [Named({"probe"}, "web", FALSE) EXCEPT
     !.section = [requests |-> <<Request>>, extracts |-> <<Extract>>, asserts |-> <<Assertion(ref)>>]]

Listing(expect, mode) ==
  [Named({"s3"}, "web", FALSE) EXCEPT
     !.section = [list |-> TRUE, bucket |-> Raw("logs", FALSE), maxKeys |-> 0, expect |-> expect,
                  mode |-> mode, keyID |-> Raw("key", FALSE), secret |-> Raw(NoName, FALSE)]]

MCSpecs ==
  {Web, [Web EXCEPT !.name.name = "shop"],
   [Web EXCEPT !.name.padded = TRUE, !.disabled = TRUE, !.everyCycles = 60],
   [Web EXCEPT !.everyCycles = -1],
   [Web EXCEPT !.receivers = <<Raw(NoName, TRUE)>>],
   Named({"http"}, NoName, TRUE),
   Named({"http", "tls"}, "web", FALSE),
   Named({}, "web", FALSE),
   [Named({"tls"}, "web", FALSE) EXCEPT !.section = 0],
   [Named({"tls"}, "web", FALSE) EXCEPT !.section = -1],
   Probing("x"), Probing("y"),
   Listing([e \in {"gte"} |-> 1], "env"),
   Listing([e \in {"gte"} |-> 1], "static"),
   Listing([e \in {"gte", "eq"} |-> 1], "")}

UpTo(n, S) == UNION {[1 .. k -> S] : k \in 0 .. n}

(* With a second file only of few documents, which is what order needs.    *)
MCDirectories ==
  LET docs == MCSpecs \cup {Malformed, EmptyDocument}
      few  == {Web, [Web EXCEPT !.name.name = "shop"], Probing("x"), Malformed, EmptyDocument}
  IN  UpTo(1, UpTo(2, docs) \cup {Unreadable})
      \cup {<<f, g>> : f \in UpTo(2, docs) \cup {Unreadable}, g \in UpTo(2, few) \cup {Unreadable}}
===============================================================================
