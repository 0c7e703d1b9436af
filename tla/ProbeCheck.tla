------------------------------ MODULE ProbeCheck ------------------------------
(***************************************************************************)
(* The life of one probe: validated when its file is parsed, then          *)
(* evaluated by internal/monitor/probe.go, request by request, extract by  *)
(* extract, assertion by assertion, until the first that fails.            *)
(*                                                                         *)
(* Values. A text is a word, in capitals or not, in quotes or not, with    *)
(* blanks outside the quotes or not. The other values are numbers and, out *)
(* of a JSON document, objects. What a request answers is a record:        *)
(*   headers    the texts of the headers it has                            *)
(*   body       the body as a text                                         *)
(*   canonical  the body once decoded and encoded as JSON again            *)
(*   document   the values at the paths of that JSON, or NotJSON           *)
(* A timestamp is the seconds it stands for; age_seconds counts back from  *)
(* a fixed Clock.                                                          *)
(***************************************************************************)
EXTENDS ProbeSpec, Integers, SequencesExt

CONSTANTS
  Probes,        \* the probes a file may hold
  Responses,     \* the answers a server may give
  NoAnswer,      \* a request that failed
  NotJSON,
  Failed,        \* the error of an extract
  NaN,           \* the number the words nan and NaN stand for
  Numerals,      \* the number of each word that ParseFloat accepts
  Integrals,     \* the words that ParseInt accepts, too
  TextFacts,     \* the <<text, op, text>> for which contains or matches holds
  Clock          \* time.Now() in seconds

IsSequence(items) == items \in Seq({items[i] : i \in DOMAIN items})
IsRaw(raw) == raw.padded \in BOOLEAN /\ raw = Raw(raw.name, raw.padded)

ASSUME ProbeCheckAssumption ==
  /\ Integrals \subseteq DOMAIN Numerals
  /\ \A word \in Integrals : Numerals[word] \in Int
  /\ \A file \in Probes :
       /\ IsSequence(file.requests) /\ IsSequence(file.extracts) /\ IsSequence(file.asserts)
       /\ \A i \in DOMAIN file.requests : IsRaw(file.requests[i].id)
       /\ \A i \in DOMAIN file.extracts : IsRaw(file.extracts[i].id) /\ IsRaw(file.extracts[i].from)
       /\ \A i \in DOMAIN file.asserts : IsSequence(file.asserts[i].values)

VARIABLES
  probe,
  stage,      \* "parse", "request", "extract", "assert", "passed", "failed" or "rejected"
  next,       \* the item of the stage that comes next
  requests,   \* validateProbeSpec's map of results
  extracted,  \* its map of values
  cause,      \* why it failed
  answers     \* history: the answer to each request, in order

vars == <<probe, stage, next, requests, extracted, cause, answers>>

-------------------------------------------------------------------------------
Text(word, upper, quoted, padded) ==
  [kind |-> "text", word |-> word, upper |-> upper, quoted |-> quoted, padded |-> padded]
Number(n) == [kind |-> "number", number |-> n]
Object(name) == [kind |-> "object", name |-> name]

EmptyText == Text(NoName, FALSE, FALSE, FALSE)

IsText(value) == value.kind = "text"

(* probeNumericValue: numbers are numeric, and so are texts that read as   *)
(* one, whatever blanks surround them.                                     *)
IsNumeric(value) ==
  \/ value.kind = "number"
  \/ IsText(value) /\ ~value.quoted /\ value.word \in DOMAIN Numerals

ProbeNumericValue(value) ==
  IF value.kind = "number" THEN value.number ELSE Numerals[value.word]

NumberLess(m, n) == m # NaN /\ n # NaN /\ m < n
NumberEqual(m, n) == m # NaN /\ n # NaN /\ m = n

MutantProbeValuesEqual(left, right) ==
  IF IsNumeric(left)
  THEN NumberEqual(ProbeNumericValue(left), IF IsNumeric(right) THEN ProbeNumericValue(right) ELSE 0)
  ELSE left = right

ProbeValuesEqual(left, right) ==
  IF IsNumeric(left) /\ IsNumeric(right)
  THEN NumberEqual(ProbeNumericValue(left), ProbeNumericValue(right))
  ELSE left = right

-------------------------------------------------------------------------------
(* Extraction *)

(* strings.Trim with a quote takes nothing off a text that begins with a   *)
(* blank.                                                                  *)
StripQuotes(text) == IF text.padded THEN text ELSE [text EXCEPT !.quoted = FALSE]

(* The age of what probeTimeValue accepts.                                 *)
AgeSeconds(value) ==
  IF \/ value.kind = "number"
     \/ IsText(value) /\ ~value.quoted /\ value.word \in Integrals
  THEN Number(Clock - ProbeNumericValue(value))
  ELSE Failed

ApplyTransform(value, transform) ==
  IF transform = "age_seconds" THEN AgeSeconds(value)
  ELSE IF ~IsText(value) THEN Failed
  ELSE CASE transform = "trim_space"   -> [value EXCEPT !.padded = FALSE]
         [] transform = "strip_quotes" -> StripQuotes(value)
         [] transform = "lowercase"    -> [value EXCEPT !.upper = FALSE]
         [] transform = "as_int"       -> IF ~value.quoted /\ value.word \in Integrals
                                          THEN Number(Numerals[value.word])
                                          ELSE Failed
         [] OTHER                      -> Failed

(* A header the answer lacks reads as the empty text. The name of a header *)
(* is looked up as it is written, a path without its blanks.               *)
SourceValue(response, extract) ==
  IF extract.source = "header"
  THEN IF extract.key.padded \/ extract.key.name \notin DOMAIN response.headers
       THEN EmptyText
       ELSE response.headers[extract.key.name]
  ELSE IF extract.source = "body" THEN response.body
  ELSE IF response.document = NotJSON THEN Failed
  ELSE IF extract.source = "json" THEN response.canonical
  ELSE IF extract.key.name \in DOMAIN response.document
       THEN response.document[extract.key.name]
       ELSE Failed

ExtractProbeValue(response, extract) ==
  LET Apply(value, transform) ==
        IF value = Failed THEN Failed ELSE ApplyTransform(value, transform)
  IN  FoldLeft(Apply, SourceValue(response, extract), extract.transforms)

-------------------------------------------------------------------------------
(* Assertions *)

Compare(op, left, right) ==
  /\ IsNumeric(left) /\ IsNumeric(right)
  /\ LET m == ProbeNumericValue(left)
         n == ProbeNumericValue(right)
     IN  CASE op = "gt"  -> NumberLess(n, m)
           [] op = "gte" -> NumberLess(n, m) \/ NumberEqual(m, n)
           [] op = "lt"  -> NumberLess(m, n)
           [] op = "lte" -> NumberLess(m, n) \/ NumberEqual(m, n)

(* The switch over the operators with two operands.                        *)
BinaryHolds(op, left, right) ==
  CASE op = "eq"        -> ProbeValuesEqual(left, right)
    [] op = "neq"       -> ~ProbeValuesEqual(left, right)
    [] op \in Comparisons -> Compare(op, left, right)
    [] op \in TextOps   -> /\ IsText(left) /\ IsText(right)
                           /\ <<left, op, right>> \in TextFacts

(* What a reference stands for is looked up without blanks.                *)
Resolvable(operand) == Blank(operand.ref) \/ TrimSpace(operand.ref) \in DOMAIN extracted

ResolveProbeOperand(operand) ==
  IF Blank(operand.ref) THEN operand.value ELSE extracted[TrimSpace(operand.ref)]

OperandsOf(assertion) ==
  IF assertion.op = "all_equal" THEN assertion.values
                                ELSE <<assertion.left, assertion.right>>

AssertResolves(assertion) ==
  \A i \in DOMAIN OperandsOf(assertion) : Resolvable(OperandsOf(assertion)[i])

MutantAssertHolds(op, values) ==
  IF op = "all_equal" THEN ProbeValuesEqual(values[1], values[2])
                      ELSE BinaryHolds(op, values[1], values[2])

(* all_equal compares every value with the first one.                      *)
AssertHolds(op, values) ==
  IF op = "all_equal"
  THEN \A i \in 2 .. Len(values) : ProbeValuesEqual(values[1], values[i])
  ELSE BinaryHolds(op, values[1], values[2])

Resolved(assertion) ==
  [i \in DOMAIN OperandsOf(assertion) |-> ResolveProbeOperand(OperandsOf(assertion)[i])]

-------------------------------------------------------------------------------
(* The steps *)

Unchecked ==
  /\ stage = "parse"
  /\ next = 1
  /\ requests = <<>> /\ extracted = <<>> /\ answers = <<>>
  /\ cause = "none"

Init == probe \in Probes /\ Unchecked

Fail(why) == stage' = "failed" /\ cause' = why /\ UNCHANGED next

(* On to the next of the items of this stage, or to the stage after it.    *)
Proceed(items, after) ==
  /\ IF next < Len(items) THEN next' = next + 1 /\ stage' = stage
                          ELSE next' = 1 /\ stage' = after
  /\ UNCHANGED cause

(* spec.Parse: a probe it refuses stops the program.                       *)
Validate ==
  /\ stage = "parse"
  /\ stage' = IF ValidateProbeSpec(probe) THEN "request" ELSE "rejected"
  /\ UNCHANGED <<probe, next, requests, extracted, cause, answers>>

(* An assignment to an entry of a map.                                     *)
Put(map, key, value) == [k \in DOMAIN map \cup {key} |-> IF k = key THEN value ELSE map[k]]

(* The result is kept under the identifier as it stands in the file.       *)
ExecuteRequest ==
  /\ stage = "request"
  /\ \E answer \in Responses \cup {NoAnswer} :
       /\ answers' = Append(answers, answer)
       /\ IF answer = NoAnswer
          THEN Fail("no answer") /\ UNCHANGED requests
          ELSE /\ requests' = Put(requests, probe.requests[next].id, answer)
               /\ Proceed(probe.requests, "extract")
  /\ UNCHANGED <<probe, extracted>>

ExtractValue ==
  LET extract == probe.extracts[next]
      value   == ExtractProbeValue(requests[extract.from], extract)
  IN
  /\ stage = "extract"
  /\ \/ /\ extract.from \notin DOMAIN requests
        /\ Fail("unknown request") /\ UNCHANGED extracted
     \/ /\ extract.from \in DOMAIN requests
        /\ IF value = Failed
           THEN Fail("no value") /\ UNCHANGED extracted
           ELSE /\ extracted' = Put(extracted, extract.id, value)
                /\ Proceed(probe.extracts, "assert")
  /\ UNCHANGED <<probe, requests, answers>>

EvaluateProbeAssert ==
  LET assertion == probe.asserts[next]
  IN
  /\ stage = "assert"
  /\ IF ~AssertResolves(assertion) THEN Fail("unknown extract")
     ELSE IF ~AssertHolds(assertion.op, Resolved(assertion)) THEN Fail("assert")
     ELSE Proceed(probe.asserts, "passed")
  /\ UNCHANGED <<probe, requests, extracted, answers>>

Next == Validate \/ ExecuteRequest \/ ExtractValue \/ EvaluateProbeAssert

Spec == Init /\ [][Next]_vars

-------------------------------------------------------------------------------
(* Properties *)

(* What the file says, read from the answers themselves and not through    *)
(* the maps of the code: an extract is that of the answer of the request   *)
(* it names, a reference the value of the extract it names.                *)
Named(items, raw) == CHOOSE i \in DOMAIN items : TrimSpace(items[i].id) = TrimSpace(raw)

AnswerTo(extract) == answers[Named(probe.requests, extract.from)]

Meaning(operand) ==
  IF Blank(operand.ref) THEN operand.value
  ELSE LET extract == probe.extracts[Named(probe.extracts, operand.ref)]
       IN  ExtractProbeValue(AnswerTo(extract), extract)

AssertIsTrue(assertion) ==
  IF assertion.op = "all_equal"
  THEN \A i, j \in DOMAIN assertion.values :
         i < j => ProbeValuesEqual(Meaning(assertion.values[i]), Meaning(assertion.values[j]))
  ELSE BinaryHolds(assertion.op, Meaning(assertion.left), Meaning(assertion.right))

(* A probe passes only if every request was answered, and every assertion  *)
(* is true of what those answers say: no value of another request or       *)
(* extract, and none of all_equal's operands left out (validateProbeSpec   *)
(* of probe.go, with the identifiers that validation keeps apart).         *)
PassIsEarned ==
  stage = "passed" =>
    /\ Len(answers) = Len(probe.requests) /\ NoAnswer \notin Range(answers)
    /\ \A i \in DOMAIN probe.asserts : AssertIsTrue(probe.asserts[i])

(* A probe that fails has a request without an answer, an extract without  *)
(* a value or an assertion that is not true - or identifiers with blanks,  *)
(* which validation overlooks.                                             *)
FailureIsEarned ==
  stage = "failed" =>
    CASE cause = "no answer" -> NoAnswer \in Range(answers)
      [] cause = "no value"  -> \E i \in DOMAIN probe.extracts :
                                  ExtractProbeValue(AnswerTo(probe.extracts[i]), probe.extracts[i]) = Failed
      [] cause = "assert"    -> \E i \in DOMAIN probe.asserts : ~AssertIsTrue(probe.asserts[i])
      [] OTHER -> \/ \E i \in DOMAIN probe.requests : probe.requests[i].id.padded
                  \/ \E i \in DOMAIN probe.extracts :
                       probe.extracts[i].id.padded \/ probe.extracts[i].from.padded

(* The order in which all_equal's operands are written does not matter,    *)
(* though the code compares them with the first only and values of several *)
(* types can be equal (evaluateProbeAssert, probeValuesEqual).             *)
AllEqualIgnoresOrder ==
  \A i \in DOMAIN probe.asserts :
    LET assertion == probe.asserts[i]
    IN  /\ stage \in {"assert", "passed"}
        /\ assertion.op = "all_equal"
        /\ AssertResolves(assertion)
        => AssertHolds("all_equal", Resolved(assertion))
             = AssertHolds("all_equal", Reverse(Resolved(assertion)))

(* What spec.Parse accepted refers to requests and extracts that exist.    *)
AcceptedReferencesResolve ==
  stage = "failed" => cause \notin {"unknown request", "unknown extract"}
===============================================================================
