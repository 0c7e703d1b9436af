----------------------------- MODULE ChecksProofs -----------------------------
(***************************************************************************)
(* What the runs of MCChecks check on small instances, proved for any      *)
(* probes and specs, any answers, any limits and any tables of what texts  *)
(* mean.                                                                   *)
(***************************************************************************)
EXTENDS Checks, SequenceTheorems, TLAPS

-------------------------------------------------------------------------------
(* Equality of probe values.                                               *)

(* Probe values are equal both ways.                                       *)
LEMMA EqualIsSymmetric ==
  ASSUME NEW a, NEW b, ProbeValuesEqual(a, b)
  PROVE  ProbeValuesEqual(b, a)
BY DEF ProbeValuesEqual, NumberEqual

(* A value that equals two others makes these equal, though nan does not   *)
(* equal itself: a number and a value that is no number are never equal.   *)
LEMMA EqualIsEuclidean ==
  ASSUME NEW a, NEW b, NEW c, ProbeValuesEqual(a, b), ProbeValuesEqual(a, c)
  PROVE  ProbeValuesEqual(b, c)
BY DEF ProbeValuesEqual, NumberEqual

(* The values of an assertion are numbered from one.                       *)
LEMMA AssertionValues ==
  ASSUME probe \in Probes, NEW i \in DOMAIN probe.asserts
  PROVE  LET values == probe.asserts[i].values
         IN  Len(values) \in Nat /\ DOMAIN values = 1 .. Len(values)
BY ProbeCheckAssumption DEF IsSequence

(* If all values equal the first, then all equal the last.                 *)
LEMMA AllEqualOneWay ==
  ASSUME NEW n \in Nat, NEW v, NEW w, \A i \in 1 .. n : w[i] = v[(n - i) + 1],
         \A i \in 2 .. n : ProbeValuesEqual(v[1], v[i])
  PROVE  \A i \in 2 .. n : ProbeValuesEqual(w[1], w[i])
<1> SUFFICES ASSUME NEW i \in 2 .. n PROVE ProbeValuesEqual(w[1], w[i])
  OBVIOUS
<1> DEFINE j == (n - i) + 1
<1>1. w[1] = v[n] /\ w[i] = v[j] /\ n \in 2 .. n /\ (j = 1 \/ j \in 2 .. n)
  OBVIOUS
<1> HIDE DEF j
<1>2. CASE j = 1
  BY <1>1, <1>2, EqualIsSymmetric
<1>3. CASE j \in 2 .. n
  BY <1>1, <1>3, EqualIsEuclidean
<1> QED
  BY <1>1, <1>2, <1>3

(* What all_equal says of any values is the same in any order.             *)
LEMMA AllEqualReversed ==
  ASSUME NEW n \in Nat, NEW values, values = [i \in 1 .. n |-> values[i]]
  PROVE  AssertHolds("all_equal", values) = AssertHolds("all_equal", Reverse(values))
<1> DEFINE reversed == Reverse(values)
<1>1. values \in Seq({values[i] : i \in 1 .. n}) /\ Len(values) = n
  BY IsASeq
<1>2. /\ reversed = [i \in 1 .. n |-> values[(n - i) + 1]]
      /\ Len(reversed) = n
  <2>1. reversed = [i \in 1 .. n |-> values[(n - i) + 1]]
    BY <1>1 DEF Reverse
  <2> QED
    BY <2>1, IsASeq
<1>3. /\ \A i \in 1 .. n : reversed[i] = values[(n - i) + 1]
      /\ \A i \in 1 .. n : values[i] = reversed[(n - i) + 1]
  <2>1. ASSUME NEW i \in 1 .. n PROVE values[i] = reversed[(n - i) + 1]
    <3>1. (n - i) + 1 \in 1 .. n /\ (n - ((n - i) + 1)) + 1 = i
      OBVIOUS
    <3> QED
      BY <1>2, <3>1
  <2> QED
    BY <1>2, <2>1
<1> HIDE DEF reversed
<1>4. (\A i \in 2 .. n : ProbeValuesEqual(values[1], values[i]))
        <=> (\A i \in 2 .. n : ProbeValuesEqual(reversed[1], reversed[i]))
  BY <1>3, AllEqualOneWay
<1> QED
  BY <1>1, <1>2, <1>4 DEF AssertHolds, reversed

(* So all_equal does not depend on the order of its values.                *)
LEMMA AllEqualOrder ==
  ASSUME probe \in Probes PROVE AllEqualIgnoresOrder
<1> SUFFICES ASSUME NEW i \in DOMAIN probe.asserts, probe.asserts[i].op = "all_equal"
             PROVE  AssertHolds("all_equal", Resolved(probe.asserts[i]))
                      = AssertHolds("all_equal", Reverse(Resolved(probe.asserts[i])))
  BY DEF AllEqualIgnoresOrder
<1> DEFINE values == Resolved(probe.asserts[i])
<1>1. PICK n \in Nat : DOMAIN probe.asserts[i].values = 1 .. n
  BY AssertionValues
<1>2. values = [j \in 1 .. n |-> values[j]]
  BY <1>1 DEF Resolved, OperandsOf
<1> QED
  BY <1>2, AllEqualReversed

-------------------------------------------------------------------------------
(* A probe on its way.                                                     *)

(* The map of results holds the answers to the first k requests.           *)
AnswersKept(k) ==
  /\ answers \in Seq(Responses) /\ Len(answers) = k
  /\ \A i \in 1 .. k : answers[i] # NoAnswer
  /\ DOMAIN requests = {probe.requests[i].id : i \in 1 .. k}
  /\ \A i \in 1 .. k : requests[probe.requests[i].id] = answers[i]

(* The map of values holds what the first k extracts make of the answers.  *)
ValuesKept(k) ==
  /\ DOMAIN extracted = {probe.extracts[i].id : i \in 1 .. k}
  /\ \A i \in 1 .. k :
       /\ probe.extracts[i].from \in DOMAIN requests
       /\ extracted[probe.extracts[i].id] =
            ExtractProbeValue(requests[probe.extracts[i].from], probe.extracts[i])

Extracting ==
  /\ next \in 1 .. Len(probe.extracts)
  /\ AnswersKept(Len(probe.requests)) /\ ValuesKept(next - 1)

Asserting ==
  /\ next \in 1 .. Len(probe.asserts)
  /\ AnswersKept(Len(probe.requests)) /\ ValuesKept(Len(probe.extracts))
  /\ \A i \in 1 .. next - 1 : AssertIsTrue(probe.asserts[i])

ProbeInv ==
  /\ stage \in {"parse", "request", "extract", "assert", "passed", "failed", "rejected"}
  /\ stage = "parse" => Unchecked
  /\ stage \notin {"parse", "rejected"} => ValidateProbeSpec(probe)
  /\ stage = "request" => /\ next \in 1 .. Len(probe.requests)
                          /\ AnswersKept(next - 1) /\ extracted = <<>>
  /\ stage = "extract" => Extracting
  /\ stage = "assert" => Asserting
  /\ PassIsEarned /\ FailureIsEarned

(* The lists of a probe, and that validation tells their items apart.      *)
LEMMA ProbeLists ==
  ASSUME probe \in Probes
  PROVE  /\ Len(probe.requests) \in Nat /\ DOMAIN probe.requests = 1 .. Len(probe.requests)
         /\ Len(probe.extracts) \in Nat /\ DOMAIN probe.extracts = 1 .. Len(probe.extracts)
         /\ Len(probe.asserts) \in Nat /\ DOMAIN probe.asserts = 1 .. Len(probe.asserts)
         /\ probe.requests # <<>> => Len(probe.requests) > 0
         /\ probe.extracts # <<>> => Len(probe.extracts) > 0
         /\ probe.asserts # <<>> => Len(probe.asserts) > 0
<1>1. ASSUME NEW items, IsSequence(items)
      PROVE  /\ Len(items) \in Nat /\ DOMAIN items = 1 .. Len(items)
             /\ items # <<>> => Len(items) > 0
  BY <1>1 DEF IsSequence
<1>2. IsSequence(probe.requests) /\ IsSequence(probe.extracts) /\ IsSequence(probe.asserts)
  BY ProbeCheckAssumption
<1> QED
  BY <1>1, <1>2

(* Of items with proper ids a reference finds the one it means.            *)
LEMMA NamedIs ==
  ASSUME NEW items, ProperIDs(items), NEW i \in DOMAIN items,
         NEW raw, TrimSpace(items[i].id) = TrimSpace(raw)
  PROVE  Named(items, raw) = i
BY DEF Named, ProperIDs

(* Trimming twice is trimming once.                                        *)
LEMMA TrimTwice ==
  ASSUME NEW raw PROVE TrimSpace(TrimSpace(raw)) = TrimSpace(raw)
BY DEF TrimSpace, Raw

(* What the maps hold is what the file means.                              *)
LEMMA AnswerIsKept ==
  ASSUME probe \in Probes, ValidateProbeSpec(probe), AnswersKept(Len(probe.requests)),
         NEW extract, extract.from \in DOMAIN requests
  PROVE  AnswerTo(extract) = requests[extract.from]
<1>1. PICK i \in 1 .. Len(probe.requests) : probe.requests[i].id = extract.from
  BY DEF AnswersKept
<1>2. i \in DOMAIN probe.requests /\ ProperIDs(probe.requests)
  BY ProbeLists DEF ValidateProbeSpec
<1>3. Named(probe.requests, extract.from) = i
  BY <1>1, <1>2, NamedIs
<1> QED
  BY <1>1, <1>3 DEF AnswerTo, AnswersKept

(* What an operand resolves to is what its spec means by it.               *)
LEMMA MeaningIsKept ==
  ASSUME probe \in Probes, ValidateProbeSpec(probe),
         AnswersKept(Len(probe.requests)), ValuesKept(Len(probe.extracts)),
         NEW operand, Resolvable(operand)
  PROVE  Meaning(operand) = ResolveProbeOperand(operand)
<1>1. CASE Blank(operand.ref)
  BY <1>1 DEF Meaning, ResolveProbeOperand
<1>2. CASE ~Blank(operand.ref)
  <2>1. PICK i \in 1 .. Len(probe.extracts) : probe.extracts[i].id = TrimSpace(operand.ref)
    BY <1>2 DEF Resolvable, ValuesKept
  <2>2. i \in DOMAIN probe.extracts /\ ProperIDs(probe.extracts)
    BY ProbeLists DEF ValidateProbeSpec
  <2>3. TrimSpace(probe.extracts[i].id) = TrimSpace(operand.ref)
    BY <2>1, TrimTwice
  <2>4. Named(probe.extracts, operand.ref) = i
    BY <2>2, <2>3, NamedIs
  <2>5. AnswerTo(probe.extracts[i]) = requests[probe.extracts[i].from]
    BY AnswerIsKept DEF ValuesKept
  <2> QED
    BY <1>2, <2>1, <2>4, <2>5 DEF Meaning, ResolveProbeOperand, ValuesKept
<1> QED
  BY <1>1, <1>2

(* An assertion that resolves holds exactly if it is true of the answers.  *)
LEMMA AssertionIsTrue ==
  ASSUME probe \in Probes, ValidateProbeSpec(probe),
         AnswersKept(Len(probe.requests)), ValuesKept(Len(probe.extracts)),
         NEW i \in DOMAIN probe.asserts, AssertResolves(probe.asserts[i])
  PROVE  AssertIsTrue(probe.asserts[i]) <=> AssertHolds(probe.asserts[i].op, Resolved(probe.asserts[i]))
<1> DEFINE a == probe.asserts[i]
           operands == OperandsOf(a)
           values == Resolved(a)
<1>1. \A j \in DOMAIN operands : values[j] = Meaning(operands[j])
  BY MeaningIsKept DEF AssertResolves, Resolved
<1>2. CASE a.op = "all_equal"
  <2>1. PICK n \in Nat : n = Len(a.values) /\ DOMAIN a.values = 1 .. n
    BY AssertionValues
  <2>2. n >= 2
    BY <1>2, <2>1 DEF ValidateProbeSpec, ValidOperands, BinaryOps, Comparisons, TextOps
  <2>3. values = [j \in 1 .. n |-> values[j]] /\ operands = a.values
    BY <1>2, <2>1 DEF Resolved, OperandsOf
  <2>4. Len(values) = n
    BY <2>3, IsASeq
  <2>5. \A j \in 1 .. n : values[j] = Meaning(a.values[j])
    BY <1>1, <2>1, <2>3
  <2> HIDE DEF values
  <2>6. (\A j, k \in 1 .. n : j < k => ProbeValuesEqual(values[j], values[k]))
          <=> \A k \in 2 .. n : ProbeValuesEqual(values[1], values[k])
    <3>1. ASSUME \A k \in 2 .. n : ProbeValuesEqual(values[1], values[k]),
                 NEW j \in 1 .. n, NEW k \in 1 .. n, j < k
          PROVE  ProbeValuesEqual(values[j], values[k])
      <4>1. k \in 2 .. n /\ (j = 1 \/ j \in 2 .. n)
        BY <3>1
      <4> QED
        BY <3>1, <4>1, EqualIsEuclidean
    <3>2. \A k \in 2 .. n : 1 \in 1 .. n /\ k \in 1 .. n /\ 1 < k
      BY <2>2
    <3> QED
      BY <3>1, <3>2
  <2>7. AssertIsTrue(a) <=>
          \A j, k \in 1 .. n : j < k => ProbeValuesEqual(values[j], values[k])
    <3>1. AssertIsTrue(a) <=>
            \A j, k \in 1 .. n :
              j < k => ProbeValuesEqual(Meaning(a.values[j]), Meaning(a.values[k]))
      BY <1>2, <2>1, Zenon DEF AssertIsTrue
    <3> QED
      BY <2>5, <3>1, Zenon
  <2>8. AssertHolds(a.op, values) <=> \A k \in 2 .. n : ProbeValuesEqual(values[1], values[k])
    BY <1>2, <2>4, Zenon DEF AssertHolds
  <2> QED
    BY <2>6, <2>7, <2>8 DEF values
<1>3. CASE a.op # "all_equal"
  <2>1. operands = <<a.left, a.right>>
    BY <1>3 DEF OperandsOf
  <2>2. values[1] = Meaning(a.left) /\ values[2] = Meaning(a.right)
    BY <1>1, <2>1
  <2> QED
    BY <1>3, <2>2 DEF AssertIsTrue, AssertHolds
<1> QED
  BY <1>2, <1>3

(* What the properties say of a probe does not change while the probe and  *)
(* the answers do not.                                                     *)
LEMMA SameMeaning ==
  ASSUME UNCHANGED <<probe, answers>>
  PROVE  /\ \A a : AssertIsTrue(a)' <=> AssertIsTrue(a)
         /\ \A e : AnswerTo(e)' = AnswerTo(e)
<1>1. \A e : AnswerTo(e)' = AnswerTo(e)
  BY DEF AnswerTo
<1>2. \A o : Meaning(o)' = Meaning(o)
  BY <1>1 DEF Meaning
<1> QED
  BY <1>1, <1>2 DEF AssertIsTrue

(* Validation keeps the invariant of a probe.                              *)
LEMMA ValidateStep ==
  ASSUME ProbeInv, probe \in Probes, Validate PROVE ProbeInv'
<1>1. /\ next' = 1 /\ requests' = <<>> /\ extracted' = <<>> /\ answers' = <<>>
      /\ probe' = probe
      /\ stage' = IF ValidateProbeSpec(probe) THEN "request" ELSE "rejected"
  BY DEF ProbeInv, Validate, Unchecked
<1>2. CASE ValidateProbeSpec(probe)
  <2>1. 1 \in 1 .. Len(probe.requests)
    BY <1>2, ProbeLists DEF ValidateProbeSpec
  <2>2. AnswersKept(next - 1)'
    <3>1. next' - 1 = 0
      BY <1>1
    <3> QED
      BY <1>1, <3>1 DEF AnswersKept
  <2>3. ValidateProbeSpec(probe)' /\ next' \in 1 .. Len(probe'.requests)
    BY <1>1, <1>2, <2>1
  <2> QED
    BY <1>1, <1>2, <2>2, <2>3 DEF ProbeInv, PassIsEarned, FailureIsEarned
<1>3. CASE ~ValidateProbeSpec(probe)
  BY <1>1, <1>3 DEF ProbeInv, PassIsEarned, FailureIsEarned
<1> QED
  BY <1>2, <1>3

(* A request keeps it.                                                     *)
LEMMA ExecuteRequestStep ==
  ASSUME ProbeInv, probe \in Probes, ExecuteRequest PROVE ProbeInv'
<1>1. /\ stage = "request" /\ next \in 1 .. Len(probe.requests)
      /\ AnswersKept(next - 1) /\ extracted = <<>>
      /\ ValidateProbeSpec(probe)
  BY DEF ProbeInv, ExecuteRequest
<1>2. PICK answer \in Responses \cup {NoAnswer} :
        /\ answers' = Append(answers, answer)
        /\ IF answer = NoAnswer
           THEN Fail("no answer") /\ UNCHANGED requests
           ELSE /\ requests' = Put(requests, probe.requests[next].id, answer)
                /\ Proceed(probe.requests, "extract")
  BY DEF ExecuteRequest
<1>3. UNCHANGED <<probe, extracted>>
  BY DEF ExecuteRequest
<1>4. CASE answer = NoAnswer
  <2>1. stage' = "failed" /\ cause' = "no answer"
    BY <1>2, <1>4 DEF Fail
  <2>2. NoAnswer \in Range(answers')
    <3>1. answers \in Seq(Responses) /\ answers' = Append(answers, NoAnswer)
      BY <1>1, <1>2, <1>4 DEF AnswersKept
    <3> QED
      BY <3>1 DEF Range
  <2> QED
    BY <1>1, <1>3, <2>1, <2>2 DEF ProbeInv, PassIsEarned, FailureIsEarned
<1>5. CASE answer # NoAnswer
  <2> DEFINE id == probe.requests[next].id
  <2>1. /\ DOMAIN requests' = DOMAIN requests \cup {id}
        /\ requests'[id] = answer
        /\ \A k \in DOMAIN requests : k # id => requests'[k] = requests[k]
    <3>1. requests' = Put(requests, id, answer)
      BY <1>2, <1>5
    <3> HIDE DEF id
    <3> QED
      BY <3>1 DEF Put
  <2>2. /\ Len(probe.requests) \in Nat /\ DOMAIN probe.requests = 1 .. Len(probe.requests)
        /\ next \in Nat /\ next - 1 \in Nat
    BY <1>1, ProbeLists
  <2>3. \A i \in 1 .. next - 1 : probe.requests[i].id # id
    <3>1. \A i \in 1 .. next - 1 : i \in DOMAIN probe.requests /\ i # next
      BY <1>1, <2>2
    <3>2. next \in DOMAIN probe.requests /\ ProperIDs(probe.requests)
      BY <1>1, <2>2 DEF ValidateProbeSpec
    <3> QED
      BY <3>1, <3>2 DEF ProperIDs
  <2>4. /\ answers' \in Seq(Responses) /\ Len(answers') = next
        /\ \A i \in 1 .. next - 1 : answers'[i] = answers[i]
        /\ answers'[next] = answer
    <3>1. answers \in Seq(Responses) /\ answer \in Responses /\ Len(answers) = next - 1
      BY <1>1, <1>5 DEF AnswersKept
    <3>2. /\ answers' \in Seq(Responses) /\ Len(answers') = Len(answers) + 1
          /\ \A i \in 1 .. Len(answers) : answers'[i] = answers[i]
          /\ answers'[Len(answers) + 1] = answer
      <4>1. \A q \in Seq(Responses), e \in Responses :
              /\ Append(q, e) \in Seq(Responses) /\ Len(Append(q, e)) = Len(q) + 1
              /\ \A i \in 1 .. Len(q) : Append(q, e)[i] = q[i]
              /\ Append(q, e)[Len(q) + 1] = e
        BY AppendProperties
      <4> QED
        BY <1>2, <3>1, <4>1
    <3> QED
      BY <2>2, <3>1, <3>2
  <2>5. \A i \in 1 .. next : i \in 1 .. next - 1 \/ i = next
    BY <2>2
  <2>6. DOMAIN requests' = {probe.requests[i].id : i \in 1 .. next}
    <3>1. DOMAIN requests' = DOMAIN requests \cup {id}
      BY <2>1
    <3>2. DOMAIN requests = {probe.requests[i].id : i \in 1 .. next - 1}
      BY <1>1 DEF AnswersKept
    <3>3. \A i \in 1 .. next - 1 : i \in 1 .. next
      BY <2>2
    <3>4. next \in 1 .. next
      BY <1>1, <2>2
    <3> QED
      BY <2>5, <3>1, <3>2, <3>3, <3>4
  <2>7. ASSUME NEW i \in 1 .. next
        PROVE  answers'[i] # NoAnswer /\ requests'[probe.requests[i].id] = answers'[i]
    <3>1. CASE i = next
      BY <1>5, <2>1, <2>4, <3>1
    <3>2. CASE i \in 1 .. next - 1
      <4>1. /\ probe.requests[i].id \in DOMAIN requests
            /\ requests[probe.requests[i].id] = answers[i] /\ answers[i] # NoAnswer
        BY <1>1, <3>2 DEF AnswersKept
      <4>2. requests'[probe.requests[i].id] = requests[probe.requests[i].id]
        BY <2>1, <2>3, <3>2, <4>1
      <4> QED
        BY <2>4, <3>2, <4>1, <4>2
    <3> QED
      BY <2>5, <3>1, <3>2
  <2>8. ASSUME NEW k, k = next
        PROVE  AnswersKept(k)'
    BY <1>3, <2>4, <2>6, <2>7, <2>8 DEF AnswersKept
  <2>9. ValidateProbeSpec(probe)' /\ probe' = probe /\ extracted' = <<>>
    BY <1>1, <1>3
  <2>10. CASE next < Len(probe.requests)
    <3>1. next' = next + 1 /\ stage' = "request"
      BY <1>1, <1>2, <1>5, <2>10 DEF Proceed
    <3>2. next' \in 1 .. Len(probe'.requests) /\ next' - 1 = next
      BY <1>1, <2>2, <2>9, <2>10, <3>1
    <3>3. AnswersKept(next - 1)'
      BY <2>8, <3>2
    <3> QED
      BY <2>9, <3>1, <3>2, <3>3 DEF ProbeInv, PassIsEarned, FailureIsEarned
  <2>11. CASE ~(next < Len(probe.requests))
    <3>1. next' = 1 /\ stage' = "extract"
      BY <1>1, <1>2, <1>5, <2>11 DEF Proceed
    <3>2. next = Len(probe.requests)
      BY <1>1, <2>2, <2>11
    <3>3. AnswersKept(Len(probe.requests))'
      BY <2>8, <2>9, <3>2
    <3>4. next' \in 1 .. Len(probe'.extracts) /\ next' - 1 = 0
      BY <1>1, <2>9, <3>1, ProbeLists DEF ValidateProbeSpec
    <3>5. ValuesKept(next - 1)'
      BY <2>9, <3>4 DEF ValuesKept
    <3> QED
      BY <2>9, <3>1, <3>3, <3>4, <3>5 DEF ProbeInv, Extracting, PassIsEarned, FailureIsEarned
  <2> QED
    BY <2>10, <2>11
<1> QED
  BY <1>4, <1>5

(* An extraction keeps it.                                                 *)
LEMMA ExtractValueStep ==
  ASSUME ProbeInv, probe \in Probes, ExtractValue PROVE ProbeInv'
<1> DEFINE extract == probe.extracts[next]
           value == ExtractProbeValue(requests[extract.from], extract)
           n == Len(probe.requests)
           m == Len(probe.extracts)
<1>1. /\ stage = "extract" /\ ValidateProbeSpec(probe)
      /\ next \in 1 .. m /\ AnswersKept(n) /\ ValuesKept(next - 1)
  BY DEF ProbeInv, ExtractValue, Extracting
<1>2. UNCHANGED <<probe, requests, answers>>
  BY DEF ExtractValue
<1>3. /\ n \in Nat /\ DOMAIN probe.requests = 1 .. n
      /\ m \in Nat /\ DOMAIN probe.extracts = 1 .. m
      /\ next \in Nat /\ next - 1 \in Nat /\ next \in DOMAIN probe.extracts
  BY <1>1, ProbeLists
<1>4. ValidateProbeSpec(probe)'
  BY <1>1, <1>2
<1>5. AnswersKept(n)'
  BY <1>1, <1>2 DEF AnswersKept
<1>6. CASE extract.from \notin DOMAIN requests
  <2>1. stage' = "failed" /\ cause' = "unknown request"
    BY <1>6 DEF ExtractValue, Fail
  <2>2. PICK j \in 1 .. n : TrimSpace(probe.requests[j].id) = TrimSpace(extract.from)
    BY <1>1, <1>3 DEF ValidateProbeSpec, TrimmedIDs
  <2>3. probe.requests[j].id # extract.from
    BY <1>1, <1>6, <2>2 DEF AnswersKept
  <2>4. IsRaw(probe.requests[j].id) /\ IsRaw(extract.from)
    BY <1>3, <2>2, ProbeCheckAssumption
  <2>5. probe.requests[j].id.padded \/ extract.from.padded
    BY <2>2, <2>3, <2>4 DEF IsRaw, TrimSpace
  <2> QED
    BY <1>2, <1>3, <1>4, <2>1, <2>2, <2>5 DEF ProbeInv, PassIsEarned, FailureIsEarned
<1>7. CASE extract.from \in DOMAIN requests /\ value = Failed
  <2>1. stage' = "failed" /\ cause' = "no value"
    BY <1>7 DEF ExtractValue, Fail
  <2>2. AnswerTo(extract) = requests[extract.from]
    BY <1>1, <1>7, AnswerIsKept
  <2>3. PICK k \in DOMAIN probe.extracts : k = next
    BY <1>3
  <2>4. ExtractProbeValue(AnswerTo(probe.extracts[k]), probe.extracts[k])' = Failed
    <3>1. AnswerTo(probe.extracts[k])' = requests[extract.from]
      BY <1>2, <2>2, <2>3 DEF AnswerTo
    <3> QED
      BY <1>2, <1>7, <2>3, <3>1
  <2>5. FailureIsEarned'
    BY <1>2, <2>1, <2>3, <2>4 DEF FailureIsEarned
  <2> QED
    BY <1>4, <2>1, <2>5 DEF ProbeInv, PassIsEarned
<1>8. CASE extract.from \in DOMAIN requests /\ value # Failed
  <2>1. /\ extracted' = Put(extracted, extract.id, value)
        /\ Proceed(probe.extracts, "assert")
    BY <1>8 DEF ExtractValue
  <2>2. /\ DOMAIN extracted' = DOMAIN extracted \cup {extract.id}
        /\ extracted'[extract.id] = value
        /\ \A k \in DOMAIN extracted : k # extract.id => extracted'[k] = extracted[k]
    <3> HIDE DEF extract, value
    <3> QED
      BY <2>1 DEF Put
  <2>3. \A i \in 1 .. next - 1 : probe.extracts[i].id # extract.id
    <3>1. \A i \in 1 .. next - 1 : i \in DOMAIN probe.extracts /\ i # next
      BY <1>1, <1>3
    <3> QED
      BY <1>1, <1>3, <3>1 DEF ValidateProbeSpec, ProperIDs
  <2>4. \A i \in 1 .. next : i \in 1 .. next - 1 \/ i = next
    BY <1>3
  <2>5. DOMAIN extracted' = {probe.extracts[i].id : i \in 1 .. next}
    <3>1. DOMAIN extracted = {probe.extracts[i].id : i \in 1 .. next - 1}
      BY <1>1 DEF ValuesKept
    <3>2. \A i \in 1 .. next - 1 : i \in 1 .. next
      BY <1>3
    <3>3. next \in 1 .. next
      BY <1>1, <1>3
    <3> QED
      BY <2>2, <2>4, <3>1, <3>2, <3>3
  <2>6. ASSUME NEW i \in 1 .. next
        PROVE  /\ probe.extracts[i].from \in DOMAIN requests
               /\ extracted'[probe.extracts[i].id] =
                    ExtractProbeValue(requests[probe.extracts[i].from], probe.extracts[i])
    <3>1. CASE i = next
      BY <1>8, <2>2, <3>1
    <3>2. CASE i \in 1 .. next - 1
      <4>1. /\ probe.extracts[i].id \in DOMAIN extracted
            /\ probe.extracts[i].from \in DOMAIN requests
            /\ extracted[probe.extracts[i].id] =
                 ExtractProbeValue(requests[probe.extracts[i].from], probe.extracts[i])
        BY <1>1, <3>2 DEF ValuesKept
      <4>2. extracted'[probe.extracts[i].id] = extracted[probe.extracts[i].id]
        BY <2>2, <2>3, <3>2, <4>1
      <4> QED
        BY <4>1, <4>2
    <3> QED
      BY <2>4, <3>1, <3>2
  <2>7. ASSUME NEW k, k = next
        PROVE  ValuesKept(k)'
    BY <1>2, <2>5, <2>6, <2>7 DEF ValuesKept
  <2>8. CASE next < m
    <3>1. next' = next + 1 /\ stage' = "extract"
      BY <1>1, <2>1, <2>8 DEF Proceed
    <3>2. next' \in 1 .. Len(probe'.extracts) /\ next' - 1 = next
      BY <1>2, <1>3, <2>8, <3>1
    <3>3. ValuesKept(next - 1)'
      BY <2>7, <3>2
    <3>4. AnswersKept(Len(probe.requests))'
      BY <1>2, <1>5
    <3> QED
      BY <1>4, <3>1, <3>2, <3>3, <3>4 DEF ProbeInv, Extracting, PassIsEarned, FailureIsEarned
  <2>9. CASE ~(next < m)
    <3>1. next' = 1 /\ stage' = "assert"
      BY <1>1, <2>1, <2>9 DEF Proceed
    <3>2. next = m
      BY <1>1, <1>3, <2>9
    <3>3. ValuesKept(Len(probe.extracts))'
      BY <1>2, <2>7, <3>2
    <3>4. next' \in 1 .. Len(probe'.asserts) /\ next' - 1 = 0
      BY <1>1, <1>2, <3>1, ProbeLists DEF ValidateProbeSpec
    <3>5. AnswersKept(Len(probe.requests))'
      BY <1>2, <1>5
    <3>6. \A i \in 1 .. next' - 1 : AssertIsTrue(probe.asserts[i])'
      BY <3>4
    <3> QED
      BY <1>4, <3>1, <3>3, <3>4, <3>5, <3>6 DEF ProbeInv, Asserting, PassIsEarned, FailureIsEarned
  <2> QED
    BY <2>8, <2>9
<1> QED
  BY <1>6, <1>7, <1>8

(* An assertion keeps it.                                                  *)
LEMMA EvaluateProbeAssertStep ==
  ASSUME ProbeInv, probe \in Probes, EvaluateProbeAssert PROVE ProbeInv'
<1> DEFINE assertion == probe.asserts[next]
           n == Len(probe.asserts)
<1>1. /\ stage = "assert" /\ ValidateProbeSpec(probe)
      /\ next \in 1 .. n
      /\ AnswersKept(Len(probe.requests)) /\ ValuesKept(Len(probe.extracts))
      /\ \A i \in 1 .. next - 1 : AssertIsTrue(probe.asserts[i])
  BY DEF ProbeInv, EvaluateProbeAssert, Asserting
<1>2. UNCHANGED <<probe, requests, extracted, answers>>
  BY DEF EvaluateProbeAssert
<1>3. /\ n \in Nat /\ DOMAIN probe.asserts = 1 .. n
      /\ DOMAIN probe.extracts = 1 .. Len(probe.extracts)
      /\ next \in Nat /\ next - 1 \in Nat /\ next \in DOMAIN probe.asserts
  BY <1>1, ProbeLists
<1>4. ValidateProbeSpec(probe)'
  BY <1>1, <1>2
<1>5. AnswersKept(Len(probe.requests))' /\ ValuesKept(Len(probe.extracts))'
  BY <1>1, <1>2 DEF AnswersKept, ValuesKept
<1>6. PICK k \in DOMAIN probe.asserts : k = next
  BY <1>3
<1>7. CASE ~AssertResolves(assertion)
  <2>1. stage' = "failed" /\ cause' = "unknown extract"
    BY <1>7 DEF EvaluateProbeAssert, Fail
  <2>2. PICK o : /\ ValidateProbeOperand(o, probe.extracts)
                 /\ ~Resolvable(o)
    <3>1. PICK i \in DOMAIN OperandsOf(assertion) : ~Resolvable(OperandsOf(assertion)[i])
      BY <1>7 DEF AssertResolves
    <3>2. ValidOperands(assertion, probe.extracts)
      BY <1>1, <1>3 DEF ValidateProbeSpec
    <3>3. CASE assertion.op = "all_equal"
      BY <3>1, <3>2, <3>3 DEF OperandsOf, ValidOperands, BinaryOps, Comparisons, TextOps
    <3>4. CASE assertion.op # "all_equal"
      <4>1. /\ ValidateProbeOperand(assertion.left, probe.extracts)
            /\ ValidateProbeOperand(assertion.right, probe.extracts)
        BY <3>2, <3>4 DEF ValidOperands
      <4>2. OperandsOf(assertion) = <<assertion.left, assertion.right>>
        BY <3>4 DEF OperandsOf
      <4>3. i = 1 \/ i = 2
        BY <3>1, <4>2
      <4> QED
        BY <3>1, <4>1, <4>2, <4>3
    <3> QED
      BY <3>3, <3>4
  <2>3. PICK j \in DOMAIN probe.extracts : TrimSpace(probe.extracts[j].id) = TrimSpace(o.ref)
    BY <2>2 DEF ValidateProbeOperand, Resolvable, TrimmedIDs
  <2>4. probe.extracts[j].id # TrimSpace(o.ref)
    BY <1>1, <1>3, <2>2 DEF Resolvable, ValuesKept
  <2>5. IsRaw(probe.extracts[j].id)
    BY ProbeCheckAssumption
  <2>6. probe.extracts[j].id.padded
    BY <2>3, <2>4, <2>5 DEF IsRaw, TrimSpace
  <2>7. FailureIsEarned'
    BY <1>2, <2>1, <2>3, <2>6 DEF FailureIsEarned
  <2> QED
    BY <1>4, <2>1, <2>7 DEF ProbeInv, PassIsEarned
<1>8. CASE AssertResolves(assertion) /\ ~AssertHolds(assertion.op, Resolved(assertion))
  <2>1. stage' = "failed" /\ cause' = "assert"
    BY <1>8 DEF EvaluateProbeAssert, Fail
  <2>2. ~AssertIsTrue(probe.asserts[k])
    BY <1>1, <1>6, <1>8, AssertionIsTrue
  <2>3. ~AssertIsTrue(probe.asserts[k])'
    BY <1>2, <2>2, SameMeaning
  <2>4. FailureIsEarned'
    BY <1>2, <1>6, <2>1, <2>3 DEF FailureIsEarned
  <2> QED
    BY <1>4, <2>1, <2>4 DEF ProbeInv, PassIsEarned
<1>9. CASE AssertResolves(assertion) /\ AssertHolds(assertion.op, Resolved(assertion))
  <2>1. Proceed(probe.asserts, "passed")
    BY <1>9 DEF EvaluateProbeAssert
  <2>2. AssertIsTrue(probe.asserts[k])
    BY <1>1, <1>6, <1>9, AssertionIsTrue
  <2>3. ASSUME NEW i \in 1 .. next
        PROVE  AssertIsTrue(probe.asserts[i])'
    <3>1. AssertIsTrue(probe.asserts[i])
      <4>1. i = k \/ i \in 1 .. next - 1
        BY <1>3, <1>6
      <4> QED
        BY <1>1, <2>2, <4>1
    <3> QED
      BY <1>2, <3>1, SameMeaning
  <2>4. CASE next < n
    <3>1. next' = next + 1 /\ stage' = "assert"
      BY <1>1, <2>1, <2>4 DEF Proceed
    <3>2. next' \in 1 .. Len(probe'.asserts) /\ next' - 1 = next
      BY <1>2, <1>3, <2>4, <3>1
    <3>3. \A i \in 1 .. next' - 1 : AssertIsTrue(probe.asserts[i])'
      BY <2>3, <3>2
    <3> QED
      BY <1>4, <1>5, <3>1, <3>2, <3>3 DEF ProbeInv, Asserting, PassIsEarned, FailureIsEarned
  <2>5. CASE ~(next < n)
    <3>1. stage' = "passed"
      BY <2>1, <2>5 DEF Proceed
    <3>2. next = n
      BY <1>1, <1>3, <2>5
    <3>3. \A i \in DOMAIN probe'.asserts : AssertIsTrue(probe.asserts[i])'
      BY <1>2, <1>3, <2>3, <3>2
    <3>4. Len(answers') = Len(probe'.requests) /\ NoAnswer \notin Range(answers')
      BY <1>5 DEF AnswersKept, Range
    <3>5. PassIsEarned'
      BY <3>3, <3>4 DEF PassIsEarned
    <3> QED
      BY <1>4, <3>1, <3>5 DEF ProbeInv, FailureIsEarned
  <2> QED
    BY <2>4, <2>5
<1> QED
  BY <1>7, <1>8, <1>9

(* Every step of a probe keeps it.                                         *)
LEMMA ProbeInvStep ==
  ASSUME ProbeInv, probe \in Probes, Next PROVE ProbeInv'
BY ValidateStep, ExecuteRequestStep, ExtractValueStep, EvaluateProbeAssertStep DEF Next

(* And so does a step of something else.                                   *)
LEMMA ProbeInvStutter ==
  ASSUME ProbeInv, UNCHANGED vars PROVE ProbeInv'
<1>1. PassIsEarned' /\ FailureIsEarned'
  BY SameMeaning DEF ProbeInv, vars, PassIsEarned, FailureIsEarned, AnswerTo
<1>2. stage = "assert" => Asserting'
  BY SameMeaning DEF ProbeInv, Asserting, vars, AnswersKept, ValuesKept
<1> QED
  BY <1>1, <1>2 DEF ProbeInv, vars, Unchecked, Extracting, AnswersKept, ValuesKept
-------------------------------------------------------------------------------
(* The verdicts of the other types, each against what the file says.       *)

(* The verdict on an answer is none exactly if the answer meets what is    *)
(* expected.                                                               *)
LEMMA HTTPVerdictMeets ==
  ASSUME NEW expect, NEW answer
  PROVE  /\ HTTPVerdict(expect, answer) = "none" <=> HTTPMeets(expect, answer)
         /\ HTTPVerdict(expect, answer) \in {"none", "code", "header", "body"}
BY DEF HTTPVerdict, HTTPMeets, IsWithin

(* A duration that fits is not wrapped.                                    *)
LEMMA WrapFits ==
  ASSUME NEW d \in Nat, d < DurationRange
  PROVE  Go!Wrap(d) = d
BY ChecksAssumption DEF Go!Wrap

Acceptable(conf, peer) ==
  /\ peer.trusted \/ conf.verify = FALSE
  /\ ~peer.selfSigned \/ conf.rejectSelfSigned = FALSE
  /\ peer.certificates > 0
  /\ StillValid(conf, peer)
  /\ conf.minVersion = Empty => peer.version \in {"1.2", "1.3"}
  /\ conf.minVersion # Empty => Rank(peer.version) >= Rank(conf.minVersion)

(* The verdict on a certificate is none exactly if it is acceptable, as    *)
(* long as the demanded validity fits a Duration.                          *)
LEMMA TLSVerdictAccepts ==
  ASSUME NEW s \in Confs, s.kind = "tls", NEW peer \in Replies["tls"],
         s.conf.minDays = Unset \/ s.conf.minDays * Day < DurationRange
  PROVE  TLSVerdict(s.conf, peer, Now) = "none" <=> Acceptable(s.conf, peer)
<1>1. Handshakes(s.conf, peer) <=>
        /\ peer.trusted \/ s.conf.verify = FALSE
        /\ s.conf.minVersion = Empty => peer.version \in {"1.2", "1.3"}
        /\ s.conf.minVersion # Empty => Rank(peer.version) >= Rank(s.conf.minVersion)
  <2>1. Default(s.conf.verify, TRUE) <=> s.conf.verify # FALSE
    BY ChecksAssumption DEF Default
  <2>2. Rank(peer.version) >= Rank("1.2") <=> peer.version \in {"1.2", "1.3"}
    BY ChecksAssumption DEF Rank, Versions
  <2> QED
    BY <2>1, <2>2 DEF Handshakes, ParseTLSVersion
<1>2. peer.certificates = 0 <=> ~(peer.certificates > 0)
  BY ChecksAssumption
<1>3. Default(s.conf.rejectSelfSigned, TRUE) <=> s.conf.rejectSelfSigned # FALSE
  BY ChecksAssumption DEF Default
<1>4. s.conf.minDays # Unset /\ ~(peer.notAfter > Cutoff(s.conf.minDays, Now))
        <=> ~StillValid(s.conf, peer)
  <2>1. CASE s.conf.minDays = Unset
    BY <2>1 DEF StillValid
  <2>2. CASE s.conf.minDays # Unset
    <3>1. s.conf.minDays * Day \in Nat
      BY <2>2, ChecksAssumption
    <3>2. Cutoff(s.conf.minDays, Now) = Now + s.conf.minDays * Day
      BY <2>2, <3>1, WrapFits DEF Cutoff
    <3>3. peer.notAfter \in Int /\ Now \in Int
      BY ChecksAssumption
    <3> QED
      BY <2>2, <3>1, <3>2, <3>3 DEF StillValid
  <2> QED
    BY <2>1, <2>2
<1> QED
  BY <1>1, <1>2, <1>3, <1>4 DEF TLSVerdict, Acceptable

(* KeyCount is the number of objects, or the page if there are more.       *)
LEMMA KeyCountIs ==
  ASSUME NEW s \in Confs, s.kind = "s3", NEW bucket \in Replies["s3"]
  PROVE  /\ Page(s.conf) \in Int /\ bucket.objects \in Int
         /\ KeyCount(s.conf, bucket) =
              IF bucket.objects =< Page(s.conf) THEN bucket.objects ELSE Page(s.conf)
<1>1. ASSUME NEW a \in Int, NEW b \in Int
      PROVE  Min({a, b}) = IF a =< b THEN a ELSE b
  BY DEF Min
<1>2. /\ s.conf.maxKeys \in Int /\ PageLimit \in Int /\ bucket.objects \in Int
  BY ChecksAssumption
<1>3. Page(s.conf) \in Int
  BY <1>1, <1>2 DEF Page
<1> QED
  BY <1>1, <1>2, <1>3 DEF KeyCount

(* What a verdict on the first page says of the whole bucket.              *)
LEMMA S3VerdictCounts ==
  ASSUME NEW s \in Confs, s.kind = "s3", NEW bucket \in Replies["s3"]
  PROVE  LET true == Meets(s.conf.expect, bucket.objects)
         IN  /\ S3Verdict(s.conf, bucket) = "none" /\ s.conf.expect.op # "eq" => true
             /\ s.conf.expect.bound < Page(s.conf)
                  => (S3Verdict(s.conf, bucket) = "none" <=> true)
<1>1. /\ s.conf.expect.op \in {"gt", "gte", "eq"} /\ s.conf.expect.bound \in Int
  BY ChecksAssumption
<1> DEFINE count == KeyCount(s.conf, bucket)
           n == bucket.objects
           page == Page(s.conf)
<1>2. /\ page \in Int /\ n \in Int
      /\ count = IF n =< page THEN n ELSE page
  BY KeyCountIs
<1>3. S3Verdict(s.conf, bucket) = "none" <=> Meets(s.conf.expect, count)
  BY DEF S3Verdict
<1> HIDE DEF count, n, page
<1>4. /\ Meets(s.conf.expect, count) /\ s.conf.expect.op # "eq" => Meets(s.conf.expect, n)
      /\ s.conf.expect.bound < page => (Meets(s.conf.expect, count) <=> Meets(s.conf.expect, n))
  <2> DEFINE bound == s.conf.expect.bound
  <2>1. bound \in Int
    BY <1>1
  <2> HIDE DEF bound
  <2>2. CASE s.conf.expect.op = "gt"
    <3>1. \A k : Meets(s.conf.expect, k) <=> k > bound
      BY <2>2 DEF Meets, bound
    <3> QED
      BY <1>2, <2>1, <3>1 DEF bound
  <2>3. CASE s.conf.expect.op = "gte"
    <3>1. \A k : Meets(s.conf.expect, k) <=> k >= bound
      BY <2>3 DEF Meets, bound
    <3> QED
      BY <1>2, <2>1, <3>1 DEF bound
  <2>4. CASE s.conf.expect.op = "eq"
    <3>1. \A k : Meets(s.conf.expect, k) <=> k = bound
      BY <2>4 DEF Meets, bound
    <3> QED
      BY <1>2, <2>1, <2>4, <3>1 DEF bound
  <2> QED
    BY <1>1, <2>2, <2>3, <2>4
<1> QED
  BY <1>3, <1>4 DEF n, page

-------------------------------------------------------------------------------
(* A check of the other types on its way.                                  *)

Followed(answer) == answer.redirect /\ spec.conf.followRedirects

(* The last answer is the one that is judged, and no other.                *)
LastIsJudged ==
  /\ shown # <<>> /\ ~Followed(shown[Len(shown)])
  /\ \A i \in 1 .. Len(shown) - 1 : Followed(shown[i])

ServiceVerdicts == HTTPVerdictIsEarned /\ TLSVerdictIsEarned /\ S3VerdictIsEarned

OnItsWay ==
  /\ phase \in {"start", "waiting", "reading", "passed", "failed"}
  /\ phase # "failed" => reason = "none"
  /\ elapsed \in Nat /\ elapsed =< Timeout(spec.conf)
  /\ phase = "start" => elapsed = 0 /\ shown = <<>>
  /\ phase \in {"waiting", "reading"} => deadline = Timeout(spec.conf)
  /\ phase = "waiting" => IF spec.kind = "http"
                          THEN \A i \in 1 .. Len(shown) : Followed(shown[i])
                          ELSE shown = <<>>
  /\ phase = "reading" => spec.kind = "http" /\ LastIsJudged

ServiceInv ==
  /\ spec \in Confs
  /\ shown \in Seq(Replies[spec.kind])
  /\ OnItsWay
  /\ ServiceVerdicts

(* The answer that is judged is the first that no redirect is followed     *)
(* from.                                                                   *)
LEMMA JudgedIsLast ==
  ASSUME NEW S, shown \in Seq(S), LastIsJudged
  PROVE  Len(shown) = CHOOSE i \in DOMAIN shown :
                        /\ ~(shown[i].redirect /\ spec.conf.followRedirects)
                        /\ \A j \in 1 .. (i - 1) : shown[j].redirect /\ spec.conf.followRedirects
<1>1. Len(shown) \in Nat /\ DOMAIN shown = 1 .. Len(shown)
  OBVIOUS
<1>2. Len(shown) \in DOMAIN shown
  <2>1. Len(shown) # 0
    BY EmptySeq DEF LastIsJudged
  <2> QED
    BY <1>1, <2>1
<1>3. ASSUME NEW i \in DOMAIN shown,
             ~(shown[i].redirect /\ spec.conf.followRedirects)
      PROVE  i = Len(shown)
  <2>1. i = Len(shown) \/ i \in 1 .. Len(shown) - 1
    BY <1>1
  <2> QED
    BY <1>3, <2>1 DEF LastIsJudged, Followed
<1> QED
  BY <1>2, <1>3 DEF LastIsJudged, Followed

(* What a step that asks no service does to a check.                       *)
LEMMA StartCheckStep ==
  ASSUME ServiceInv, StartCheck PROVE ServiceInv'
<1>1. /\ phase = "start" /\ elapsed = 0 /\ shown = <<>> /\ reason = "none"
      /\ UNCHANGED <<spec, shown, elapsed>>
  BY DEF ServiceInv, OnItsWay, StartCheck
<1>2. Timeout(spec.conf) \in Nat
  BY ChecksAssumption DEF ServiceInv, Timeout
<1>3. CASE Defect = "none"
  <2>1. phase' = "waiting" /\ deadline' = Timeout(spec.conf) /\ reason' = "none"
    BY <1>1, <1>2, <1>3 DEF StartCheck
  <2>2. \A i \in 1 .. Len(shown') : Followed(shown[i])'
    BY <1>1
  <2>3. OnItsWay'
    BY <1>1, <1>2, <2>1, <2>2 DEF OnItsWay, Timeout
  <2>4. ServiceVerdicts'
    BY <2>1 DEF ServiceVerdicts, HTTPVerdictIsEarned, TLSVerdictIsEarned, S3VerdictIsEarned, Verdict
  <2> QED
    BY <1>1, <2>3, <2>4 DEF ServiceInv
<1>4. CASE Defect # "none"
  <2>1. Defect \in {"none", "url", "host", "min_version"}
    BY ChecksAssumption DEF ServiceInv, Defect
  <2>2. phase' = "failed" /\ reason' = Defect
    BY <1>4 DEF StartCheck, Conclude
  <2>3. OnItsWay'
    BY <1>1, <1>2, <2>2 DEF OnItsWay, Timeout
  <2>4. ServiceVerdicts'
    BY <1>4, <2>1, <2>2
    DEF ServiceVerdicts, HTTPVerdictIsEarned, TLSVerdictIsEarned, S3VerdictIsEarned, Verdict
  <2> QED
    BY <1>1, <2>3, <2>4 DEF ServiceInv
<1> QED
  BY <1>3, <1>4

(* A check that ends in an error keeps the invariant.                      *)
LEMMA ErrorStep ==
  ASSUME ServiceInv, UNCHANGED <<spec, shown, elapsed>>, phase' = "failed",
         reason' \in {"transport", "cancelled", "deadline"}
  PROVE  ServiceInv'
<1>1. OnItsWay'
  BY DEF ServiceInv, OnItsWay, Timeout
<1>2. ServiceVerdicts'
  BY DEF ServiceVerdicts, HTTPVerdictIsEarned, TLSVerdictIsEarned, S3VerdictIsEarned, Verdict
<1> QED
  BY <1>1, <1>2 DEF ServiceInv

(* Waiting keeps it: it does not go beyond the timeout.                    *)
LEMMA WaitStep ==
  ASSUME ServiceInv, Wait PROVE ServiceInv'
<1>1. /\ phase \in {"waiting", "reading"} /\ elapsed < deadline /\ elapsed' = elapsed + 1
      /\ UNCHANGED <<spec, phase, reason, shown, deadline>>
      /\ elapsed \in Nat /\ deadline = Timeout(spec.conf) /\ reason = "none"
  BY DEF Wait, ServiceInv, OnItsWay
<1>2. Timeout(spec.conf) \in Nat
  BY ChecksAssumption DEF ServiceInv, Timeout
<1>3. elapsed' \in Nat /\ elapsed' =< Timeout(spec.conf)
  BY <1>1, <1>2
<1>4. OnItsWay'
  BY <1>1, <1>3 DEF ServiceInv, OnItsWay, Timeout, LastIsJudged, Followed
<1>5. ServiceVerdicts'
  BY <1>1 DEF ServiceVerdicts, HTTPVerdictIsEarned, TLSVerdictIsEarned, S3VerdictIsEarned, Verdict
<1> QED
  BY <1>1, <1>4, <1>5 DEF ServiceInv

(* An HTTP answer keeps it.                                                *)
LEMMA HTTPAnswersStep ==
  ASSUME ServiceInv, NEW answer \in Replies["http"], HTTPAnswers(answer) PROVE ServiceInv'
<1>1. /\ phase = "waiting" /\ spec.kind = "http" /\ reason = "none"
      /\ shown' = Append(shown, answer) /\ UNCHANGED <<spec, elapsed, deadline>>
      /\ shown \in Seq(Replies["http"])
      /\ \A i \in 1 .. Len(shown) : Followed(shown[i])
      /\ deadline = Timeout(spec.conf)
      /\ elapsed \in Nat /\ elapsed =< Timeout(spec.conf)
  BY DEF ServiceInv, OnItsWay, HTTPAnswers
<1> DEFINE n == Len(shown)
<1>2. /\ shown' \in Seq(Replies["http"]) /\ Len(shown') = n + 1 /\ n \in Nat
      /\ \A i \in 1 .. n : shown'[i] = shown[i]
      /\ shown'[n + 1] = answer
  <2>1. \A q \in Seq(Replies["http"]), e \in Replies["http"] :
          /\ Append(q, e) \in Seq(Replies["http"]) /\ Len(Append(q, e)) = Len(q) + 1
          /\ \A i \in 1 .. Len(q) : Append(q, e)[i] = q[i]
          /\ Append(q, e)[Len(q) + 1] = e
    BY AppendProperties
  <2> QED
    BY <1>1, <2>1
<1>3. \A i \in 1 .. n : Followed(shown[i])'
  BY <1>1, <1>2 DEF Followed
<1>4. CASE Followed(answer)
  <2>1. \A i \in 1 .. Len(shown') : i \in 1 .. n \/ i = n + 1
    BY <1>2
  <2>2. \A i \in 1 .. Len(shown') : Followed(shown[i])'
    BY <1>1, <1>2, <1>3, <1>4, <2>1 DEF Followed
  <2>3. \/ phase' = "failed" /\ reason' = "redirects"
        \/ phase' = "waiting" /\ reason' = "none"
    BY <1>1, <1>4 DEF HTTPAnswers, Conclude, Followed
  <2>4. OnItsWay'
    BY <1>1, <2>2, <2>3 DEF OnItsWay, Timeout
  <2>5. ServiceVerdicts'
    BY <2>3 DEF ServiceVerdicts, HTTPVerdictIsEarned, TLSVerdictIsEarned, S3VerdictIsEarned, Verdict
  <2> QED
    BY <1>1, <1>2, <2>4, <2>5 DEF ServiceInv
<1>5. CASE ~Followed(answer)
  <2>1. phase' = "reading" /\ reason' = "none"
    BY <1>1, <1>5 DEF HTTPAnswers, Followed
  <2>2. LastIsJudged'
    <3>1. shown' # <<>> /\ Len(shown') - 1 = n
      BY <1>2, EmptySeq
    <3> QED
      BY <1>1, <1>2, <1>3, <1>5, <3>1 DEF LastIsJudged, Followed
  <2>3. OnItsWay'
    BY <1>1, <2>1, <2>2 DEF OnItsWay, Timeout
  <2>4. ServiceVerdicts'
    BY <2>1 DEF ServiceVerdicts, HTTPVerdictIsEarned, TLSVerdictIsEarned, S3VerdictIsEarned, Verdict
  <2> QED
    BY <1>1, <1>2, <2>3, <2>4 DEF ServiceInv
<1> QED
  BY <1>4, <1>5

(* The end of a body keeps it.                                             *)
LEMMA HTTPBodyEndsStep ==
  ASSUME ServiceInv, HTTPBodyEnds PROVE ServiceInv'
<1> DEFINE verdict == HTTPVerdict(spec.conf.expect, Last(shown))
<1>1. /\ spec.kind = "http" /\ LastIsJudged
      /\ shown \in Seq(Replies[spec.kind])
      /\ UNCHANGED <<spec, shown, elapsed, deadline>>
      /\ phase' = (IF verdict = "none" THEN "passed" ELSE "failed") /\ reason' = verdict
  BY DEF ServiceInv, OnItsWay, HTTPBodyEnds, Conclude
<1>2. phase' = "passed" <=> HTTPMeets(spec.conf.expect, shown[Len(shown)])
  BY <1>1, HTTPVerdictMeets DEF Last
<1>3. HTTPVerdictIsEarned'
  <2>1. HTTPMeets(spec.conf.expect, shown[Len(shown)])'
          <=> HTTPMeets(spec.conf.expect, shown[Len(shown)])
    BY <1>1
  <2>2. LastIsJudged'
    BY <1>1 DEF LastIsJudged, Followed
  <2> QED
    BY <1>1, <1>2, JudgedIsLast DEF HTTPVerdictIsEarned
<1>4. TLSVerdictIsEarned' /\ S3VerdictIsEarned'
  BY <1>1 DEF TLSVerdictIsEarned, S3VerdictIsEarned
<1>5. OnItsWay'
  BY <1>1, Zenon DEF ServiceInv, OnItsWay, Timeout
<1> QED
  BY <1>1, <1>3, <1>4, <1>5 DEF ServiceInv, ServiceVerdicts

(* The first answer is the only one.                                       *)
LEMMA FirstAnswer ==
  ASSUME NEW S, NEW answer \in S, shown' = Append(<<>>, answer)
  PROVE  shown' \in Seq(S) /\ shown'[1] = answer
OBVIOUS

(* A TLS handshake keeps it.                                               *)
LEMMA TLSConnectsStep ==
  ASSUME ServiceInv, NEW peer \in Replies["tls"], TLSConnects(peer) PROVE ServiceInv'
<1> DEFINE verdict == TLSVerdict(spec.conf, peer, Now)
<1>1. /\ spec.kind = "tls" /\ spec \in Confs
      /\ UNCHANGED <<spec, elapsed, deadline>>
      /\ phase' = (IF verdict = "none" THEN "passed" ELSE "failed") /\ reason' = verdict
      /\ shown = <<>> /\ shown' = Append(shown, peer)
      /\ elapsed \in Nat /\ elapsed =< Timeout(spec.conf)
  BY DEF ServiceInv, OnItsWay, TLSConnects, Conclude
<1>2. shown' \in Seq(Replies["tls"]) /\ shown'[1] = peer
  BY <1>1, FirstAnswer
<1>3. TLSVerdictIsEarned'
  <2>1. ASSUME spec.conf.minDays = Unset \/ spec.conf.minDays * Day < DurationRange
        PROVE  phase' = "passed" <=> Acceptable(spec.conf, peer)
    BY <1>1, <2>1, TLSVerdictAccepts
  <2> QED
    BY <1>1, <1>2, <2>1 DEF TLSVerdictIsEarned, Acceptable, StillValid
<1>4. HTTPVerdictIsEarned' /\ S3VerdictIsEarned'
  BY <1>1 DEF HTTPVerdictIsEarned, S3VerdictIsEarned
<1>5. OnItsWay'
  BY <1>1, Zenon DEF OnItsWay, Timeout
<1> QED
  BY <1>1, <1>2, <1>3, <1>4, <1>5 DEF ServiceInv, ServiceVerdicts

(* A listing of a bucket keeps it.                                         *)
LEMMA S3ListsStep ==
  ASSUME ServiceInv, NEW bucket \in Replies["s3"], S3Lists(bucket) PROVE ServiceInv'
<1> DEFINE verdict == S3Verdict(spec.conf, bucket)
<1>1. /\ spec.kind = "s3" /\ spec \in Confs
      /\ UNCHANGED <<spec, elapsed, deadline>>
      /\ phase' = (IF verdict = "none" THEN "passed" ELSE "failed") /\ reason' = verdict
      /\ shown = <<>> /\ shown' = Append(shown, bucket)
      /\ elapsed \in Nat /\ elapsed =< Timeout(spec.conf)
  BY DEF ServiceInv, OnItsWay, S3Lists, Conclude
<1>2. shown' \in Seq(Replies["s3"]) /\ shown'[1] = bucket
  BY <1>1, FirstAnswer
<1>3. S3VerdictIsEarned'
  BY <1>1, <1>2, S3VerdictCounts DEF S3VerdictIsEarned
<1>4. HTTPVerdictIsEarned' /\ TLSVerdictIsEarned'
  BY <1>1 DEF HTTPVerdictIsEarned, TLSVerdictIsEarned
<1>5. OnItsWay'
  BY <1>1, Zenon DEF OnItsWay, Timeout
<1> QED
  BY <1>1, <1>2, <1>3, <1>4, <1>5 DEF ServiceInv, ServiceVerdicts

-------------------------------------------------------------------------------
(* A check of any type.                                                    *)

ChecksInv ==
  /\ spec.kind = "probe" => probe \in Probes /\ ProbeInv /\ phase = "start"
  /\ spec.kind # "probe" => Unchecked /\ ServiceInv

(* A check starts in the invariant.                                        *)
LEMMA ChecksInvInit ==
  ASSUME ChecksInit PROVE ChecksInv
<1>1. Unchecked /\ phase = "start" /\ reason = "none" /\ shown = <<>> /\ elapsed = 0
  BY DEF ChecksInit
<1>2. CASE probe \in Probes /\ spec = [kind |-> "probe", conf |-> probe]
  <2>1. ProbeInv
    BY <1>1 DEF ProbeInv, Unchecked, PassIsEarned, FailureIsEarned
  <2> QED
    BY <1>1, <1>2, <2>1 DEF ChecksInv
<1>3. CASE spec \in Confs
  <2>1. spec.kind # "probe"
    BY <1>3, ChecksAssumption
  <2>2. Timeout(spec.conf) \in Nat
    BY <1>3, ChecksAssumption DEF Timeout
  <2>3. OnItsWay
    BY <1>1, <2>2 DEF OnItsWay
  <2>4. ServiceVerdicts
    BY <1>1 DEF ServiceVerdicts, HTTPVerdictIsEarned, TLSVerdictIsEarned, S3VerdictIsEarned, Verdict
  <2> QED
    BY <1>1, <1>3, <2>1, <2>3, <2>4 DEF ChecksInv, ServiceInv
<1> QED
  BY <1>2, <1>3 DEF ChecksInit

(* Every step of a check that is no probe keeps it.                        *)
LEMMA ServiceInvStep ==
  ASSUME ServiceInv, spec.kind # "probe", ServiceCheck PROVE ServiceInv'
<1>1. ASSUME HTTPBodyEnds PROVE ServiceInv'
  BY <1>1, HTTPBodyEndsStep
<1>2. ASSUME NEW answer \in Asked("http"), HTTPAnswers(answer) PROVE ServiceInv'
  BY <1>2, HTTPAnswersStep DEF Asked
<1>3. ASSUME NEW peer \in Asked("tls"), TLSConnects(peer) PROVE ServiceInv'
  BY <1>3, TLSConnectsStep DEF Asked
<1>4. ASSUME NEW bucket \in Asked("s3"), S3Lists(bucket) PROVE ServiceInv'
  BY <1>4, S3ListsStep DEF Asked
<1>5. ASSUME BreaksOff \/ DeadlineEnds PROVE ServiceInv'
  BY <1>5, ErrorStep DEF BreaksOff, DeadlineEnds, Conclude
<1> QED
  BY <1>1, <1>2, <1>3, <1>4, <1>5, StartCheckStep, WaitStep DEF ServiceCheck

(* And so does a step of a probe.                                          *)
LEMMA ServiceInvStutter ==
  ASSUME ServiceInv, UNCHANGED checkVars PROVE ServiceInv'
BY DEF ServiceInv, OnItsWay, LastIsJudged, Followed, Timeout, ServiceVerdicts, checkVars,
       HTTPVerdictIsEarned, TLSVerdictIsEarned, S3VerdictIsEarned, Verdict

(* Every step of any check keeps it.                                       *)
LEMMA ChecksInvStep ==
  ASSUME ChecksInv, [ChecksNext]_allVars PROVE ChecksInv'
<1>1. CASE ServiceCheck /\ UNCHANGED vars
  <2>1. spec' = spec
    BY <1>1 DEF ServiceCheck, StartCheck, HTTPAnswers, HTTPBodyEnds, TLSConnects, S3Lists,
                BreaksOff, DeadlineEnds, Wait
  <2>2. CASE spec.kind = "probe"
    <3>1. phase = "start"
      BY <2>2 DEF ChecksInv
    <3> QED
      BY <1>1, <2>2, <3>1
      DEF ServiceCheck, StartCheck, HTTPAnswers, HTTPBodyEnds, TLSConnects, S3Lists,
          BreaksOff, DeadlineEnds, Wait, Asked
  <2>3. CASE spec.kind # "probe"
    <3>1. ServiceInv'
      BY <1>1, <2>3, ServiceInvStep DEF ChecksInv
    <3>2. Unchecked'
      BY <1>1, <2>3 DEF ChecksInv, Unchecked, vars
    <3> QED
      BY <2>1, <2>3, <3>1, <3>2 DEF ChecksInv
  <2> QED
    BY <2>2, <2>3
<1>2. CASE ProbeStep /\ UNCHANGED checkVars
  <2>1. spec.kind = "probe" /\ Next /\ spec' = spec /\ phase' = phase
    BY <1>2 DEF ProbeStep, checkVars
  <2>2. probe \in Probes /\ probe' = probe
    BY <2>1 DEF ChecksInv, Next, Validate, ExecuteRequest, ExtractValue, EvaluateProbeAssert
  <2>3. ProbeInv'
    BY <2>1, <2>2, ProbeInvStep DEF ChecksInv
  <2> QED
    BY <2>1, <2>2, <2>3 DEF ChecksInv
<1>3. CASE UNCHANGED allVars
  <2>1. UNCHANGED vars /\ UNCHANGED checkVars
    BY <1>3 DEF allVars
  <2>2. UNCHANGED <<spec, phase, probe, stage, next, requests, extracted, answers, cause>>
    BY <2>1 DEF vars, checkVars
  <2> QED
    BY <2>1, <2>2, ProbeInvStutter, ServiceInvStutter DEF ChecksInv, Unchecked
<1> QED
  BY <1>1, <1>2, <1>3 DEF ChecksNext

(* The invariant holds of any check, against any service.                  *)
LEMMA ChecksInvariance == ChecksSpec => []ChecksInv
BY ChecksInvInit, ChecksInvStep, PTL DEF ChecksSpec

(* No check passes that should fail and none fails that should pass: for   *)
(* every file and every sequence of answers the verdict of validateSpec is *)
(* the one that the file's expectations have for them - requests,          *)
(* extracts and assertions of a probe, the last answer of a chain of       *)
(* redirects, the connection and certificate of a tls peer, the first page *)
(* of an s3 listing.                                                       *)
THEOREM VerdictsAreEarned == ChecksSpec => []VerdictIsEarned
<1>1. ChecksInv => VerdictIsEarned
  BY DEF ChecksInv, ProbeInv, ServiceInv, ServiceVerdicts, VerdictIsEarned, Unchecked,
         PassIsEarned, FailureIsEarned, HTTPVerdictIsEarned, TLSVerdictIsEarned, S3VerdictIsEarned
<1> QED
  BY <1>1, ChecksInvariance, PTL

(* evaluateProbeAssert's all_equal, which compares every operand with the  *)
(* first only, does not depend on which one comes first.                   *)
THEOREM AllEqualNeedsNoOrder == ChecksSpec => []AllEqualIgnoresOrder
<1>1. ChecksInv => AllEqualIgnoresOrder
  <2> SUFFICES ASSUME ChecksInv PROVE AllEqualIgnoresOrder
    OBVIOUS
  <2>1. CASE spec.kind = "probe"
    BY <2>1, AllEqualOrder DEF ChecksInv
  <2>2. CASE spec.kind # "probe"
    BY <2>2 DEF ChecksInv, Unchecked, AllEqualIgnoresOrder
  <2> QED
    BY <2>1, <2>2
<1> QED
  BY <1>1, ChecksInvariance, PTL

(* No check outlasts its timeout, whatever the service does and however    *)
(* many redirects it sends the check through.                              *)
THEOREM NoCheckOutlastsTimeout == ChecksSpec => []ChecksEndInTime
<1>1. ChecksInv => ChecksEndInTime
  BY DEF ChecksInv, ServiceInv, OnItsWay, ChecksEndInTime
<1> QED
  BY <1>1, ChecksInvariance, PTL
===============================================================================
