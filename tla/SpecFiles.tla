------------------------------ MODULE SpecFiles ------------------------------
(***************************************************************************)
(* spec.Parse of internal/spec/spec.go: the files of a path expression are *)
(* read document by document, then the specs are validated in their order. *)
(* Whatever it accepts is what the runner is started with.                 *)
(*                                                                         *)
(* A file is a sequence of documents or Unreadable; a document is a spec,  *)
(* Malformed or EmptyDocument. A spec is a record                          *)
(*   [kinds, disabled, name, everyCycles, receivers, section]              *)
(* whose section is what else the section of its kind says: the minimum of *)
(* days (or NoValue) of a tls spec, the probe of a probe spec, and of an   *)
(* s3 spec the record [list, bucket, maxKeys, expect, mode, keyID, secret] *)
(* where expect is a function on the expectations it has.                  *)
(***************************************************************************)
EXTENDS ProbeSpec, Integers, SequencesExt

CONSTANTS Specs,           \* the specs a document may decode to
          Directories,     \* the sorted files a path expression may name
          Unreadable, Malformed, EmptyDocument

ASSUME SpecFilesAssumption ==
  /\ Directories \subseteq Seq({Unreadable} \cup Seq(Specs \cup {Malformed, EmptyDocument}))
  /\ Malformed # EmptyDocument /\ {Malformed, EmptyDocument} \cap Specs = {}
  /\ Unreadable \notin Seq(Specs \cup {Malformed, EmptyDocument})

VARIABLES
  files,
  phase,     \* "resolve", "read", "validate", "accepted" or "rejected"
  file,      \* the file being read
  doc,       \* its next document
  specs,
  next,      \* the spec to validate next
  seen       \* the identities of those before it

vars == <<files, phase, file, doc, specs, next, seen>>

-------------------------------------------------------------------------------
Kinds == <<"http", "tls", "probe", "s3">>

(* The first section that is there names the kind, in this order.          *)
Kind(spec) ==
  IF spec.kinds = {} THEN "unknown"
  ELSE Kinds[CHOOSE i \in DOMAIN Kinds :
               Kinds[i] \in spec.kinds /\ \A j \in 1 .. i - 1 : Kinds[j] \notin spec.kinds]

(* The identity under which the runner and the store know a spec.          *)
ID(spec) == <<Kind(spec), TrimSpace(spec.name)>>

ValidateEveryCycles(spec) == spec.everyCycles >= 0

ValidateMailReceivers(spec) == \A i \in DOMAIN spec.receivers : ~Blank(spec.receivers[i])

(* Exactly one expectation, none of them negative, and static credentials  *)
(* only with both parts.                                                   *)
ValidateS3Spec(s3) ==
  /\ s3.list
  /\ ~Blank(s3.bucket)
  /\ s3.maxKeys >= 0
  /\ \E e \in {"gt", "gte", "eq"} : DOMAIN s3.expect = {e} /\ s3.expect[e] >= 0
  /\ s3.mode \in {"", "env", "role", "static"}
  /\ s3.mode = "static" => ~Blank(s3.keyID) /\ ~Blank(s3.secret)

ValidateSection(spec) ==
  CASE Kind(spec) = "tls"   -> spec.section # NoValue => spec.section >= 0
    [] Kind(spec) = "probe" -> ValidateProbeSpec(spec.section)
    [] Kind(spec) = "s3"    -> ValidateS3Spec(spec.section)
    [] OTHER                -> TRUE

OneKind(spec) == \E kind \in spec.kinds : spec.kinds = {kind}

ValidateSpec(spec) ==
  /\ OneKind(spec)
  /\ ~Blank(spec.name)
  /\ ValidateEveryCycles(spec)
  /\ ValidateMailReceivers(spec)
  /\ ValidateSection(spec)

MutantIdentity(spec) == <<Kind(spec), spec.name>>

UnscopedIdentity(spec) == TrimSpace(spec.name)

(* The key of validateSpecNames's map of the names it has seen.            *)
Identity(spec) == <<Kind(spec), TrimSpace(spec.name)>>

-------------------------------------------------------------------------------
Unparsed ==
  /\ phase = "resolve"
  /\ file = 1 /\ doc = 1 /\ next = 1
  /\ specs = <<>> /\ seen = {}

Init == files \in Directories /\ Unparsed

Reject == phase' = "rejected" /\ specs' = <<>>

(* A path expression that names nothing is an error.                       *)
ResolveSpecPaths ==
  /\ phase = "resolve"
  /\ IF files = <<>> THEN Reject ELSE phase' = "read" /\ UNCHANGED specs
  /\ UNCHANGED <<files, file, doc, next, seen>>

Document == files[file][doc]

MoreDocuments == file <= Len(files) /\ files[file] # Unreadable /\ doc <= Len(files[file])

(* An empty document is skipped, and the file goes on after it.            *)
Decoded == IF Document = EmptyDocument THEN specs ELSE Append(specs, Document)

MutantAfterDocument == doc' = IF Document = EmptyDocument THEN Len(files[file]) + 1 ELSE doc + 1

AfterDocument == doc' = doc + 1

DecodeDocument ==
  /\ phase = "read"
  /\ MoreDocuments
  /\ IF Document = Malformed
     THEN Reject /\ UNCHANGED doc
     ELSE specs' = Decoded /\ AfterDocument /\ UNCHANGED phase
  /\ UNCHANGED <<files, file, next, seen>>

(* The end of a file, or a file that cannot be read.                       *)
NextFile ==
  /\ phase = "read"
  /\ file <= Len(files)
  /\ ~MoreDocuments
  /\ IF files[file] = Unreadable
     THEN Reject /\ UNCHANGED <<file, doc>>
     ELSE file' = file + 1 /\ doc' = 1 /\ UNCHANGED <<phase, specs>>
  /\ UNCHANGED <<files, next, seen>>

FinishReading ==
  /\ phase = "read"
  /\ file > Len(files)
  /\ phase' = "validate"
  /\ UNCHANGED <<files, file, doc, specs, next, seen>>

(* One round of validateSpecNames's loop.                                  *)
ValidateSpecName ==
  /\ phase = "validate"
  /\ next <= Len(specs)
  /\ IF ValidateSpec(specs[next]) /\ Identity(specs[next]) \notin seen
     THEN /\ seen' = seen \cup {Identity(specs[next])}
          /\ next' = next + 1
          /\ UNCHANGED <<phase, specs>>
     ELSE Reject /\ UNCHANGED <<next, seen>>
  /\ UNCHANGED <<files, file, doc>>

Accept ==
  /\ phase = "validate"
  /\ next > Len(specs)
  /\ phase' = "accepted"
  /\ UNCHANGED <<files, file, doc, specs, next, seen>>

Next ==
  ResolveSpecPaths \/ DecodeDocument \/ NextFile \/ FinishReading \/ ValidateSpecName \/ Accept

Spec == Init /\ [][Next]_vars

-------------------------------------------------------------------------------
(* Properties *)

TypeOK ==
  /\ phase \in {"resolve", "read", "validate", "accepted", "rejected"}
  /\ file \in Nat \ {0} /\ doc \in Nat \ {0} /\ next \in Nat \ {0}
  /\ specs \in Seq(Specs)

SkipEmpty(documents, d) == IF d = EmptyDocument THEN documents ELSE Append(documents, d)

(* The documents of all the files that are not empty, in their order.      *)
Documents == FoldLeft(SkipEmpty, <<>>, FlattenSeq(files))

(* What the runner relies on: no two specs it is given, of any files and   *)
(* disabled or not, have the same identity, so that no two goroutines of a *)
(* cycle share an entry of the store; none has the empty identity; and no  *)
(* interval in cycles is negative (Parse, Spec.ID, shouldRunSpecInCycle).  *)
AcceptedSuitsRunner ==
  phase = "accepted" =>
    \A i \in DOMAIN specs :
      /\ ~Blank(specs[i].name)
      /\ specs[i].everyCycles >= 0
      /\ \A j \in DOMAIN specs : ID(specs[i]) = ID(specs[j]) => i = j

(* Nothing a file says is lost: the accepted specs are its documents, also *)
(* those after an empty one (parseSpecFile, Parse).                        *)
NothingIsLost == phase = "accepted" => specs = Documents

(* Parse refuses files only for a reason README.md names: no file, a file  *)
(* that cannot be read, a document that is not a spec, a spec that is not  *)
(* valid, or two specs of one type whose names are the same but for        *)
(* blanks. Specs of different types may share a name.                      *)
RejectionIsEarned ==
  LET docs == Documents
  IN  phase = "rejected" =>
        \/ files = <<>>
        \/ Unreadable \in ToSet(files)
        \/ Malformed \in ToSet(docs)
        \/ \E i \in DOMAIN docs : ~ValidateSpec(docs[i])
        \/ \E i, j \in DOMAIN docs : i # j /\ ID(docs[i]) = ID(docs[j])
==============================================================================
