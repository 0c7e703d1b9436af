----------------------------- MODULE MCProbeCheck -----------------------------
(* Two families of probes: MCNamed varies the identifiers and the          *)
(* references, MCValued the sources, transforms and operators.             *)
EXTENDS ProbeCheck

Request(id, url) == [id |-> id, url |-> url]
Extract(id, from, source, key, transforms) ==
  [id |-> id, from |-> from, source |-> source, key |-> key, transforms |-> transforms]
Nothing == [ref |-> Raw(NoName, FALSE), value |-> NoValue]
Ref(raw) == [Nothing EXCEPT !.ref = raw]
Value(value) == [Nothing EXCEPT !.value = value]
Binary(id, op, left, right) ==
  [id |-> id, op |-> op, left |-> left, right |-> right, values |-> <<>>]
AllEqual(id, values) ==
  [id |-> id, op |-> "all_equal", left |-> Nothing, right |-> Nothing, values |-> values]
Probe(reqs, exts, asserts) == [requests |-> reqs, extracts |-> exts, asserts |-> asserts]

Plain(name) == Raw(name, FALSE)
Padded(name) == Raw(name, TRUE)
Word(word) == Text(word, FALSE, FALSE, FALSE)

UpTo(n, S) == UNION {[1 .. k -> S] : k \in 0 .. n}

-------------------------------------------------------------------------------
MCNamed ==
  LET Requests == UpTo(2, {Request(raw, TRUE) : raw \in {Plain("a"), Padded("a"), Plain("b")}})
                  \cup {<<Request(Padded(NoName), TRUE)>>, <<Request(Plain("a"), FALSE)>>}
      Reads    == {Extract(id, from, "header", Plain("etag"), <<>>) :
                    id \in {Plain("x"), Padded("x"), Plain("y")},
                    from \in {Plain("a"), Padded("a"), Plain("b")}}
      Extracts == UpTo(2, Reads)
      Asserts  == {<<Binary(Plain("s"), "eq", Ref(raw), Value(Word("0")))>> :
                     raw \in {Plain("x"), Padded("x"), Plain(NoName)}}
                  \cup {<<>>,
                        <<AllEqual(Plain("s"), <<Ref(Plain("x"))>>)>>,
                        <<AllEqual(Plain("s"), <<Ref(Plain("x")), Ref(Padded("y"))>>)>>,
                        <<AllEqual(Plain("s"), <<Ref(Plain("x")), Value(Word("0"))>>),
                          Binary(Padded("s"), "neq", Ref(Plain("x")), Value(Word("0")))>>,
                        <<Binary(Plain("s"), "neq", Ref(Plain("x")), Value(Word("0"))),
                          Binary(Plain("t"), "eq", Ref(Plain("x")), Ref(Plain("x")))>>}
  IN  {Probe(r, e, a) : r \in Requests, e \in Extracts, a \in Asserts}

-------------------------------------------------------------------------------
MCValued ==
  LET Sources == {<<"header", Plain("etag"), <<>>>>,
                  <<"header", Padded("etag"), <<>>>>,
                  <<"header", Plain("etag"), <<"trim_space", "strip_quotes", "lowercase">>>>,
                  <<"header", Plain("etag"), <<"strip_quotes", "trim_space">>>>,
                  <<"body", Plain(NoName), <<>>>>,
                  <<"body", Plain(NoName), <<"as_int", "age_seconds">>>>,
                  <<"json", Plain(NoName), <<>>>>,
                  <<"json_path", Plain("n"), <<>>>>,
                  <<"json_path", Plain("n"), <<"age_seconds">>>>,
                  <<"json_path", Plain("n"), <<"reverse">>>>}
      Read(id, from, s) == Extract(Plain(id), Plain(from), s[1], s[2], s[3])
      x == Ref(Plain("x"))
      y == Ref(Plain("y"))
      Asserts == {<<Binary(Plain("s"), op, x, y)>> :
                    op \in {"eq", "gt", "gte", "lt", "lte", "matches"}}
                 \cup {<<AllEqual(Plain("s"), <<x, y, Value(v)>>)>> :
                         v \in {Number(1), Word("0"), Word("ab"), Word("nan")}}
                 \cup {<<Binary(Plain("s"), "neq", x, y),
                         Binary(Plain("t"), "contains", y, Value(Word("ab")))>>}
  IN  {Probe(<<Request(Plain("a"), TRUE), Request(Plain("b"), TRUE)>>,
             <<Read("x", "a", s), Read("y", "b", t)>>, asserts) :
        s \in Sources, t \in Sources, asserts \in Asserts}

Reply(headers, body, canonical, document) ==
  [headers |-> headers, body |-> body, canonical |-> canonical, document |-> document]

MCResponses ==
  {Reply("etag" :> Text("ab", TRUE, TRUE, TRUE), Text("1", FALSE, FALSE, TRUE),
         Word("1"), <<>>),
   Reply("etag" :> Word("nan"), Word("ab"), EmptyText, NotJSON),
   Reply(<<>>, Word("{n: 1.0}"), Word("{n:1}"), "n" :> Number(1)),
   Reply(<<>>, Word("[]"), Word("[]"), "n" :> Object("list")),
   Reply("etag" :> Word("0"), Word("{n: ab}"), Word("{n:ab}"), "n" :> Word("ab"))}

-------------------------------------------------------------------------------
MCProbes == MCNamed \cup MCValued

MCNumerals == ("0" :> 0) @@ ("1" :> 1) @@ ("nan" :> NaN)
MCIntegrals == {"0", "1"}
MCTextFacts ==
  {<<Word("ab"), op, Word("ab")>> : op \in TextOps}
  \cup {<<Word("{n: ab}"), op, Word("ab")>> : op \in TextOps}
===============================================================================
