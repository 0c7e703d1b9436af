------------------------------ MODULE ProbeSpec ------------------------------
(***************************************************************************)
(* The probe section of a spec file and its validation by                  *)
(* internal/spec/spec.go: what ProbeCheck may be asked to evaluate.        *)
(*                                                                         *)
(* An identifier as it stands in the file is a name that may be surrounded *)
(* by blanks. A probe is a record of sequences:                            *)
(*   requests  [id, url]                  url: is it not blank?            *)
(*   extracts  [id, from, source, key, transforms]                         *)
(*   asserts   [id, op, left, right, values]                               *)
(* and an operand is a record [ref, value].                                *)
(***************************************************************************)
EXTENDS Naturals, Sequences

CONSTANTS NoName,    \* the empty string
          NoValue    \* a value that is not given (nil)

Raw(name, padded) == [name |-> name, padded |-> padded]

(* strings.TrimSpace                                                       *)
TrimSpace(raw) == Raw(raw.name, FALSE)

Blank(raw) == TrimSpace(raw) = Raw(NoName, FALSE)

TrimmedIDs(items) == {TrimSpace(items[i].id) : i \in DOMAIN items}

MutantProperIDs(items) == \A i \in DOMAIN items : ~Blank(items[i].id)

(* No identifier is blank, and none is given twice.                        *)
ProperIDs(items) ==
  \A i \in DOMAIN items :
    /\ ~Blank(items[i].id)
    /\ \A j \in DOMAIN items : TrimSpace(items[i].id) = TrimSpace(items[j].id) => i = j

Comparisons == {"gt", "gte", "lt", "lte"}
TextOps     == {"contains", "matches"}
BinaryOps   == {"eq", "neq"} \cup Comparisons \cup TextOps

ValidSource(extract) ==
  \/ extract.source \in {"body", "json"}
  \/ extract.source \in {"header", "json_path"} /\ ~Blank(extract.key)

MutantValidateProbeOperand(operand, extracts) ==
  Blank(operand.ref) # (operand.value = NoValue)

(* Either a reference to an extract or a literal, never both, never none.  *)
ValidateProbeOperand(operand, extracts) ==
  /\ Blank(operand.ref) # (operand.value = NoValue)
  /\ ~Blank(operand.ref) => TrimSpace(operand.ref) \in TrimmedIDs(extracts)

ValidOperands(assertion, extracts) ==
  \/ /\ assertion.op = "all_equal"
     /\ Len(assertion.values) >= 2
     /\ \A i \in DOMAIN assertion.values : ValidateProbeOperand(assertion.values[i], extracts)
  \/ /\ assertion.op \in BinaryOps
     /\ assertion.values = <<>>
     /\ ValidateProbeOperand(assertion.left, extracts)
     /\ ValidateProbeOperand(assertion.right, extracts)

(* Every identifier is compared as TrimSpace leaves it.                    *)
ValidateProbeSpec(probe) ==
  /\ probe.requests # <<>> /\ probe.extracts # <<>> /\ probe.asserts # <<>>
  /\ ProperIDs(probe.requests) /\ ProperIDs(probe.extracts) /\ ProperIDs(probe.asserts)
  /\ \A i \in DOMAIN probe.requests : probe.requests[i].url
  /\ \A i \in DOMAIN probe.extracts :
       /\ TrimSpace(probe.extracts[i].from) \in TrimmedIDs(probe.requests)
       /\ ValidSource(probe.extracts[i])
  /\ \A i \in DOMAIN probe.asserts : ValidOperands(probe.asserts[i], probe.extracts)
==============================================================================
