---------------------------- MODULE StartupProofs ----------------------------
(***************************************************************************)
(* What holds of main up to the point where it serves or is gone, for any  *)
(* spec files, environment and command line.                               *)
(***************************************************************************)
EXTENDS Startup, SequenceTheorems, FiniteSetTheorems, TLAPS

Skipping   == INSTANCE SequenceFolds WITH op <- SkipEmpty
Parting    == INSTANCE SequenceFolds WITH op <- AppendPart
Collecting == INSTANCE SequenceFolds WITH op <- Collect

-------------------------------------------------------------------------------
(* Parse: the loop that validates.                                         *)

(* What validateSpecNames's loop knows of the specs it has passed: each is *)
(* valid, its identity has been recorded, and no two have the same.        *)
Passed(n) ==
  \A i \in 1 .. n - 1 :
    /\ ValidateSpec(specs[i])
    /\ ID(specs[i]) \in seen
    /\ \A j \in 1 .. n - 1 : ID(specs[i]) = ID(specs[j]) => i = j

LoopInv ==
  /\ phase \in {"resolve", "read"} => next = 1 /\ seen = {}
  /\ phase = "validate" => next <= Len(specs) + 1 /\ Passed(next)
  /\ phase = "accepted" => Passed(Len(specs) + 1)

IInv == files \in Directories /\ TypeOK /\ LoopInv

(* The identity validateSpecNames records is the one the specification     *)
(* speaks of.                                                              *)
LEMMA IdentityIsID ==
  ASSUME NEW spec
  PROVE  Identity(spec) = ID(spec)
  BY DEF Identity, ID

(* Parse starts in its invariant.                                          *)
LEMMA InitIInv == Init => IInv
  BY DEF Init, Unparsed, IInv, TypeOK, LoopInv

(* A document that is neither malformed nor empty is a spec.               *)
LEMMA DocumentType ==
  ASSUME IInv, MoreDocuments, Document # Malformed, Document # EmptyDocument
  PROVE  Document \in Specs
  <1>1. files \in Seq({Unreadable} \cup Seq(Specs \cup {Malformed, EmptyDocument}))
    BY SpecFilesAssumption DEF IInv
  <1>2. file \in DOMAIN files
    BY <1>1 DEF IInv, TypeOK, MoreDocuments
  <1>3. files[file] \in Seq(Specs \cup {Malformed, EmptyDocument})
    BY <1>1, <1>2 DEF MoreDocuments
  <1>4. doc \in DOMAIN files[file]
    BY <1>3 DEF IInv, TypeOK, MoreDocuments
  <1> QED
    BY <1>3, <1>4 DEF Document

(* An error leaves nothing to be kept.                                     *)
LEMMA RejectKeepsIInv ==
  ASSUME IInv, Reject, UNCHANGED <<files, file, doc, next>>
  PROVE  IInv'
  BY DEF Reject, IInv, TypeOK, LoopInv

(* One spec more is valid and different from those before it.              *)
LEMMA ValidateKeepsIInv == IInv /\ ValidateSpecName => IInv'
  <1> SUFFICES ASSUME IInv, ValidateSpecName
               PROVE  IInv'
    OBVIOUS
  <1> USE DEF IInv
  <1>1. CASE ValidateSpec(specs[next]) /\ Identity(specs[next]) \notin seen
    <2>1. /\ phase = "validate" /\ phase' = "validate" /\ next <= Len(specs)
          /\ next' = next + 1 /\ specs' = specs /\ files' = files /\ file' = file /\ doc' = doc
          /\ seen' = seen \cup {ID(specs[next])}
          /\ ID(specs[next]) \notin seen
      BY <1>1, IdentityIsID DEF ValidateSpecName
    <2>2. next \in Nat \ {0} /\ Len(specs) \in Nat
      BY DEF TypeOK
    <2>3. Passed(next)
      BY <2>1 DEF LoopInv
    <2>4. ASSUME NEW i \in 1 .. next
          PROVE  /\ ValidateSpec(specs[i])
                 /\ ID(specs[i]) \in seen'
                 /\ \A j \in 1 .. next : ID(specs[i]) = ID(specs[j]) => i = j
      <3>1. i = next \/ i \in 1 .. next - 1
        BY <2>2
      <3>2. \A j \in 1 .. next : j = next \/ j \in 1 .. next - 1
        BY <2>2
      <3> QED
        BY <1>1, <2>1, <2>3, <3>1, <3>2 DEF Passed
    <2>5. Passed(next)'
      <3>1. next' - 1 = next
        BY <2>1, <2>2
      <3> QED
        BY <2>1, <2>4, <3>1 DEF Passed, ValidateSpec, ID
    <2>6. TypeOK'
      BY <2>1, <2>2 DEF TypeOK
    <2>7. next' <= Len(specs') + 1
      BY <2>1, <2>2
    <2> QED
      BY <2>1, <2>5, <2>6, <2>7 DEF LoopInv
  <1>2. CASE ~(ValidateSpec(specs[next]) /\ Identity(specs[next]) \notin seen)
    BY <1>2, RejectKeepsIInv DEF ValidateSpecName
  <1> QED
    BY <1>1, <1>2

(* Every step of Parse keeps its invariant.                                *)
LEMMA NextKeepsIInv == IInv /\ [Next]_vars => IInv'
  <1> SUFFICES ASSUME IInv, [Next]_vars
               PROVE  IInv'
    OBVIOUS
  <1>1. CASE ResolveSpecPaths
    <2>1. CASE files = <<>>
      BY <1>1, <2>1, RejectKeepsIInv DEF ResolveSpecPaths
    <2>2. CASE files # <<>>
      BY <1>1, <2>2 DEF ResolveSpecPaths, IInv, TypeOK, LoopInv
    <2> QED
      BY <2>1, <2>2
  <1>2. CASE DecodeDocument
    <2>1. CASE Document = Malformed
      BY <1>2, <2>1, RejectKeepsIInv DEF DecodeDocument
    <2>2. CASE Document # Malformed
      <3>1. specs' \in Seq(Specs)
        BY <1>2, <2>2, DocumentType DEF DecodeDocument, Decoded, IInv, TypeOK
      <3> QED
        BY <1>2, <2>2, <3>1 DEF DecodeDocument, AfterDocument, IInv, TypeOK, LoopInv
    <2> QED
      BY <2>1, <2>2
  <1>3. CASE NextFile
    <2>1. CASE files[file] = Unreadable
      BY <1>3, <2>1, RejectKeepsIInv DEF NextFile
    <2>2. CASE files[file] # Unreadable
      BY <1>3, <2>2 DEF NextFile, IInv, TypeOK, LoopInv
    <2> QED
      BY <2>1, <2>2
  <1>4. CASE FinishReading
    BY <1>4 DEF FinishReading, IInv, TypeOK, LoopInv, Passed
  <1>5. CASE ValidateSpecName
    BY <1>5, ValidateKeepsIInv
  <1>6. CASE Accept
    <2>1. next = Len(specs) + 1 /\ Passed(next)
      BY <1>6 DEF Accept, IInv, TypeOK, LoopInv
    <2> QED
      BY <1>6, <2>1 DEF Accept, IInv, TypeOK, LoopInv, Passed
  <1>7. CASE UNCHANGED vars
    BY <1>7 DEF vars, IInv, TypeOK, LoopInv, Passed
  <1> QED
    BY <1>1, <1>2, <1>3, <1>4, <1>5, <1>6, <1>7 DEF Next

(* The loop invariant of Parse holds for any files (Parse,                 *)
(* validateSpecNames).                                                     *)
THEOREM ParseInvariance == Spec => []IInv
  BY InitIInv, NextKeepsIInv, PTL DEF Spec

(* With all specs passed, the specs are what the runner assumes.           *)
LEMMA IInvSuits == IInv => AcceptedSuitsRunner
  <1> SUFFICES ASSUME IInv, phase = "accepted", NEW i \in DOMAIN specs
               PROVE  /\ ~Blank(specs[i].name)
                      /\ specs[i].everyCycles >= 0
                      /\ \A j \in DOMAIN specs : ID(specs[i]) = ID(specs[j]) => i = j
    BY DEF AcceptedSuitsRunner
  <1>1. Passed(Len(specs) + 1)
    BY DEF IInv, LoopInv
  <1>2. DOMAIN specs = 1 .. (Len(specs) + 1) - 1
    BY DEF IInv, TypeOK
  <1> QED
    BY <1>1, <1>2 DEF Passed, ValidateSpec, ValidateEveryCycles

-------------------------------------------------------------------------------
(* Parse: the loops that read.                                             *)

Docs == Specs \cup {Malformed, EmptyDocument}

(* The first n files can be read. *)
Readable(fs, n) == \A i \in 1 .. n : fs[i] \in Seq(Docs)

(* The documents before document d of file n. *)
Before(fs, n, d) ==
  FlattenSeq(SubSeq(fs, 1, n - 1))
    \o IF n <= Len(fs) /\ fs[n] # Unreadable THEN SubSeq(fs[n], 1, d - 1) ELSE <<>>

Kept(list) == Skipping!Fold(<<>>, list)

(* The community modules as this module sees them and as SequenceFolds     *)
(* does are the same.                                                      *)
LEMMA SameFolds ==
  /\ \A list : FoldLeft(SkipEmpty, <<>>, list) = Kept(list)
  /\ \A seqs : FlattenSeq(seqs) = Skipping!FlattenSeq(seqs)
<1>1. \A list : FoldLeft(SkipEmpty, <<>>, list) = Kept(list)
  BY DEF Kept, Skipping!Fold, FoldLeft, Skipping!FoldLeft, MapThenFoldSet,
         Skipping!MapThenFoldSet, Max, Skipping!Max
<1>2. \A seqs : FlattenSeq(seqs) = Skipping!FlattenSeq(seqs)
  BY DEF FlattenSeq, Skipping!FlattenSeq
<1> QED
  BY <1>1, <1>2

(* What the files of a directory are.                                      *)
LEMMA FilesType ==
  ASSUME NEW fs \in Directories
  PROVE  /\ fs \in Seq({Unreadable} \cup Seq(Docs))
         /\ \A i \in 1 .. Len(fs) : fs[i] # Unreadable => fs[i] \in Seq(Docs)
<1>1. fs \in Seq({Unreadable} \cup Seq(Docs))
  BY SpecFilesAssumption DEF Docs
<1> QED
  BY <1>1

(* Files up to one that is read are a sequence of sequences.               *)
LEMMA ReadablePrefix ==
  ASSUME NEW fs \in Directories, NEW n \in 0 .. Len(fs), Readable(fs, n)
  PROVE  /\ SubSeq(fs, 1, n) \in Seq(Seq(Docs))
         /\ Len(SubSeq(fs, 1, n)) = n
         /\ \A i \in 1 .. n : SubSeq(fs, 1, n)[i] = fs[i]
<1>1. fs \in Seq({Unreadable} \cup Seq(Docs))
  BY FilesType
<1>2. /\ SubSeq(fs, 1, n) \in Seq({Unreadable} \cup Seq(Docs))
      /\ Len(SubSeq(fs, 1, n)) = n
      /\ \A i \in 1 .. n : SubSeq(fs, 1, n)[i] = fs[i]
  BY <1>1, SubSeqProperties
<1>3. \A i \in 1 .. n : SubSeq(fs, 1, n)[i] \in Seq(Docs)
  BY <1>2 DEF Readable
<1> HIDE DEF Readable
<1> DEFINE q == SubSeq(fs, 1, n)
<1> HIDE DEF q
<1>4. q \in Seq(Seq(Docs))
  BY <1>2, <1>3 DEF q
<1> QED
  BY <1>2, <1>4 DEF q

(* FlattenSeq on the documents of files: its two equations and its type.   *)
LEMMA FlattenExtends ==
  ASSUME NEW seqs \in Seq(Seq(Docs)), NEW list \in Seq(Docs)
  PROVE  /\ FlattenSeq(<<>>) = <<>>
         /\ FlattenSeq(seqs) \in Seq(Docs)
         /\ FlattenSeq(Append(seqs, list)) = FlattenSeq(seqs) \o list
<1>1. Skipping!FlattenSeq(<<>>) = <<>>
  BY Skipping!FlattenEmpty
<1>2. Skipping!FlattenSeq(seqs) \in Seq(Docs)
  BY Skipping!FlattenType
<1>3. Skipping!FlattenSeq(Append(seqs, list)) = Skipping!FlattenSeq(seqs) \o list
  BY Skipping!FlattenAppend
<1> QED
  BY <1>1, <1>2, <1>3, SameFolds

(* Nothing is before the first document.                                   *)
LEMMA BeforeFirst ==
  ASSUME NEW fs \in Directories
  PROVE  Before(fs, 1, 1) = <<>>
<1>1. SubSeq(fs, 1, 1 - 1) = <<>>
  <2>1. SubSeq(fs, 1, 1 - 1) \in Seq({Unreadable} \cup Seq(Docs)) /\ Len(SubSeq(fs, 1, 1 - 1)) = 0
    BY FilesType, SubSeqProperties
  <2> QED
    BY <2>1, EmptySeq
<1>2. FlattenSeq(<<>>) = <<>>
  BY Skipping!FlattenEmpty, SameFolds
<1>3. <<>> \o <<>> = <<>>
  BY EmptySeq, ConcatEmptySeq
<1>4. CASE 1 <= Len(fs) /\ fs[1] # Unreadable
  <2>1. fs[1] \in Seq(Docs)
    BY <1>4, FilesType
  <2>2. SubSeq(fs[1], 1, 1 - 1) = <<>>
    <3>1. SubSeq(fs[1], 1, 1 - 1) \in Seq(Docs) /\ Len(SubSeq(fs[1], 1, 1 - 1)) = 0
      BY <2>1, SubSeqProperties
    <3> QED
      BY <3>1, EmptySeq
  <2> QED
    BY <1>3, <1>1, <1>2, <1>4, <2>2 DEF Before
<1>5. CASE ~(1 <= Len(fs) /\ fs[1] # Unreadable)
  BY <1>3, <1>1, <1>2, <1>5 DEF Before
<1> QED
  BY <1>4, <1>5

(* The beginning of a sequence, one element longer.                        *)
LEMMA PrefixAppend ==
  ASSUME NEW S, NEW s \in Seq(S), NEW d \in 1 .. Len(s)
  PROVE  /\ SubSeq(s, 1, d - 1) \in Seq(S)
         /\ SubSeq(s, 1, d) = Append(SubSeq(s, 1, d - 1), s[d])
<1> DEFINE p == SubSeq(s, 1, d - 1)
           q == SubSeq(s, 1, d)
<1>1. /\ p \in Seq(S) /\ Len(p) = d - 1
      /\ \A i \in 1 .. d - 1 : p[i] = s[i]
  BY SubSeqProperties
<1>2. /\ q \in Seq(S) /\ Len(q) = d
      /\ \A i \in 1 .. d : q[i] = s[i]
  BY SubSeqProperties
<1>3. s[d] \in S /\ d \in Nat
  OBVIOUS
<1> HIDE DEF p, q
<1>4. \A t \in Seq(S), e \in S :
        /\ Append(t, e) \in Seq(S) /\ Len(Append(t, e)) = Len(t) + 1
        /\ \A i \in 1 .. Len(t) : Append(t, e)[i] = t[i]
        /\ Append(t, e)[Len(t) + 1] = e
  BY AppendProperties
<1>5. \A i \in 1 .. d : i \in 1 .. d - 1 \/ i = d
  BY <1>3
<1>6. /\ Append(p, s[d]) \in Seq(S) /\ Len(Append(p, s[d])) = Len(q)
      /\ \A i \in 1 .. d : Append(p, s[d])[i] = q[i]
  BY <1>1, <1>2, <1>3, <1>4, <1>5
<1>7. q = Append(p, s[d])
  BY <1>2, <1>6, SeqEqual
<1> QED
  BY <1>1, <1>7 DEF p, q

(* The next document has one document more before it.                      *)
LEMMA BeforeNextDocument ==
  ASSUME NEW fs \in Directories, NEW n \in 1 .. Len(fs), Readable(fs, n),
         NEW d \in 1 .. Len(fs[n])
  PROVE  /\ Before(fs, n, d) \in Seq(Docs)
         /\ Before(fs, n, d + 1) = Append(Before(fs, n, d), fs[n][d])
<1>1. fs[n] \in Seq(Docs) /\ fs[n] # Unreadable /\ Readable(fs, n - 1) /\ n - 1 \in 0 .. Len(fs)
  <2>1. fs[n] \in Seq(Docs)
    BY DEF Readable
  <2>2. Unreadable \notin Seq(Docs)
    BY SpecFilesAssumption DEF Docs
  <2>3. Len(fs) \in Nat
    BY FilesType
  <2> QED
    BY <2>1, <2>2, <2>3 DEF Readable
<1> DEFINE files0 == FlattenSeq(SubSeq(fs, 1, n - 1))
           docs0  == SubSeq(fs[n], 1, d - 1)
<1>2. files0 \in Seq(Docs)
  BY <1>1, ReadablePrefix, EmptySeq, FlattenExtends
<1>3. docs0 \in Seq(Docs) /\ SubSeq(fs[n], 1, d) = Append(docs0, fs[n][d])
  BY <1>1, PrefixAppend
<1>4. fs[n][d] \in Docs /\ (d + 1) - 1 = d /\ n <= Len(fs)
  BY <1>1
<1>5. Before(fs, n, d) = files0 \o docs0 /\ Before(fs, n, d + 1) = files0 \o SubSeq(fs[n], 1, d)
  BY <1>1, <1>4 DEF Before
<1> HIDE DEF files0, docs0
<1>6. files0 \o Append(docs0, fs[n][d]) = Append(files0 \o docs0, fs[n][d])
  BY <1>2, <1>3, <1>4
<1>7. files0 \o docs0 \in Seq(Docs)
  BY <1>2, <1>3, ConcatProperties
<1> QED
  BY <1>3, <1>5, <1>6, <1>7

(* The beginning of a file is the end of the file before it.               *)
LEMMA BeforeNextFile ==
  ASSUME NEW fs \in Directories, NEW n \in 1 .. Len(fs), Readable(fs, n)
  PROVE  Before(fs, n + 1, 1) = Before(fs, n, Len(fs[n]) + 1)
<1>1. /\ fs[n] \in Seq(Docs) /\ fs[n] # Unreadable
      /\ Readable(fs, n - 1) /\ n - 1 \in 0 .. Len(fs) /\ n <= Len(fs) /\ n \in 0 .. Len(fs)
  <2>1. fs[n] \in Seq(Docs)
    BY DEF Readable
  <2>2. Unreadable \notin Seq(Docs)
    BY SpecFilesAssumption DEF Docs
  <2>3. Len(fs) \in Nat
    BY FilesType
  <2> QED
    BY <2>1, <2>2, <2>3 DEF Readable
<1> DEFINE p == SubSeq(fs, 1, n - 1)
<1>2. p \in Seq(Seq(Docs)) /\ SubSeq(fs, 1, n) = Append(p, fs[n])
  <2>1. fs \in Seq({Unreadable} \cup Seq(Docs))
    BY FilesType
  <2> QED
    BY <1>1, <2>1, PrefixAppend, ReadablePrefix
<1>3. FlattenSeq(SubSeq(fs, 1, n)) = FlattenSeq(p) \o fs[n] /\ FlattenSeq(p) \o fs[n] \in Seq(Docs)
  <2>1. FlattenSeq(Append(p, fs[n])) = FlattenSeq(p) \o fs[n] /\ FlattenSeq(p) \in Seq(Docs)
    <3> HIDE DEF p
    <3> QED
      BY <1>1, <1>2, FlattenExtends
  <2> QED
    BY <1>1, <1>2, <2>1, ConcatProperties
<1>4. SubSeq(fs[n], 1, Len(fs[n])) = fs[n] /\ (Len(fs[n]) + 1) - 1 = Len(fs[n]) /\ (n + 1) - 1 = n
  <2>1. /\ SubSeq(fs[n], 1, Len(fs[n])) \in Seq(Docs)
        /\ Len(SubSeq(fs[n], 1, Len(fs[n]))) = Len(fs[n])
        /\ \A i \in 1 .. Len(fs[n]) : SubSeq(fs[n], 1, Len(fs[n]))[i] = fs[n][i]
    BY <1>1, SubSeqProperties
  <2> QED
    BY <1>1, <2>1, SeqEqual
<1>5. Before(fs, n, Len(fs[n]) + 1) = FlattenSeq(p) \o fs[n]
  BY <1>1, <1>4 DEF Before
<1>6. Before(fs, n + 1, 1) = FlattenSeq(SubSeq(fs, 1, n)) \o <<>>
  <2>1. CASE n + 1 <= Len(fs) /\ fs[n + 1] # Unreadable
    <3>1. fs[n + 1] \in Seq(Docs)
      BY <2>1, FilesType
    <3>2. SubSeq(fs[n + 1], 1, 1 - 1) = <<>>
      <4>1. SubSeq(fs[n + 1], 1, 1 - 1) \in Seq(Docs) /\ Len(SubSeq(fs[n + 1], 1, 1 - 1)) = 0
        BY <3>1, SubSeqProperties
      <4> QED
        BY <4>1, EmptySeq
    <3> QED
      BY <1>4, <2>1, <3>2 DEF Before
  <2>2. CASE ~(n + 1 <= Len(fs) /\ fs[n + 1] # Unreadable)
    BY <1>4, <2>2 DEF Before
  <2> QED
    BY <2>1, <2>2
<1> QED
  BY <1>3, <1>5, <1>6, ConcatEmptySeq

(* At the end all documents of all files have been read.                   *)
LEMMA BeforeEnd ==
  ASSUME NEW fs \in Directories, Readable(fs, Len(fs))
  PROVE  Before(fs, Len(fs) + 1, 1) = FlattenSeq(fs)
<1>1. fs \in Seq({Unreadable} \cup Seq(Docs)) /\ Len(fs) \in 0 .. Len(fs) /\ Len(fs) \in Nat
  BY FilesType
<1>2. SubSeq(fs, 1, Len(fs)) = fs /\ fs \in Seq(Seq(Docs))
  <2>1. /\ SubSeq(fs, 1, Len(fs)) \in Seq(Seq(Docs))
        /\ Len(SubSeq(fs, 1, Len(fs))) = Len(fs)
        /\ \A i \in 1 .. Len(fs) : SubSeq(fs, 1, Len(fs))[i] = fs[i]
    BY <1>1, ReadablePrefix
  <2> QED
    BY <1>1, <2>1, SeqEqual
<1>3. FlattenSeq(fs) \in Seq(Docs)
  BY <1>2, EmptySeq, FlattenExtends
<1>4. Before(fs, Len(fs) + 1, 1) = FlattenSeq(fs) \o <<>>
  <2>1. ~(Len(fs) + 1 <= Len(fs)) /\ (Len(fs) + 1) - 1 = Len(fs)
    BY <1>1
  <2> QED
    BY <1>2, <2>1 DEF Before
<1> QED
  BY <1>3, <1>4, ConcatEmptySeq

(* Every document of a readable directory is in the sequence of all.       *)
LEMMA FlattenHas ==
  ASSUME NEW fs \in Seq(Seq(Docs)), NEW n \in 1 .. Len(fs), NEW d \in 1 .. Len(fs[n])
  PROVE  \E k \in 1 .. Len(FlattenSeq(fs)) : FlattenSeq(fs)[k] = fs[n][d]
<1> DEFINE Has(seqs) == \A i \in 1 .. Len(seqs) : \A j \in 1 .. Len(seqs[i]) :
                          \E k \in 1 .. Len(FlattenSeq(seqs)) : FlattenSeq(seqs)[k] = seqs[i][j]
           P == {seqs \in Seq(Seq(Docs)) : Has(seqs)}
<1>1. <<>> \in P
  OBVIOUS
<1>2. ASSUME NEW seqs \in Seq(Seq(Docs)), NEW list \in Seq(Docs), seqs \in P
      PROVE  Append(seqs, list) \in P
  <2> DEFINE more == Append(seqs, list)
             flat == FlattenSeq(seqs)
  <2>1. /\ more \in Seq(Seq(Docs)) /\ Len(more) = Len(seqs) + 1 /\ more[Len(seqs) + 1] = list
        /\ \A i \in 1 .. Len(seqs) : more[i] = seqs[i]
    BY AppendProperties
  <2>2. flat \in Seq(Docs) /\ FlattenSeq(more) = flat \o list
    BY FlattenExtends
  <2>3. Has(seqs)
    BY <1>2
  <2> HIDE DEF more, flat
  <2>4. /\ Len(flat \o list) = Len(flat) + Len(list)
        /\ \A k \in 1 .. Len(flat) : (flat \o list)[k] = flat[k]
        /\ \A k \in 1 .. Len(list) : (flat \o list)[Len(flat) + k] = list[k]
    BY <2>2, ConcatProperties
  <2>5. Len(flat) \in Nat /\ Len(list) \in Nat /\ Len(seqs) \in Nat
    BY <2>2
  <2>6. \A i \in 1 .. Len(more) : i = Len(seqs) + 1 \/ i \in 1 .. Len(seqs)
    BY <2>1, <2>5
  <2>7. ASSUME NEW i \in 1 .. Len(more), NEW j \in 1 .. Len(more[i])
        PROVE  \E k \in 1 .. Len(flat) + Len(list) : (flat \o list)[k] = more[i][j]
    <3>1. CASE i = Len(seqs) + 1
      <4>1. j \in 1 .. Len(list) /\ more[i] = list
        BY <2>1, <3>1
      <4>2. Len(flat) + j \in 1 .. Len(flat) + Len(list)
        BY <2>5, <4>1
      <4>3. (flat \o list)[Len(flat) + j] = list[j]
        BY <2>4, <4>1
      <4> QED
        BY <4>1, <4>2, <4>3
    <3>2. CASE i # Len(seqs) + 1
      <4>1. i \in 1 .. Len(seqs) /\ more[i] = seqs[i]
        BY <2>1, <2>6, <3>2
      <4>2. PICK k \in 1 .. Len(flat) : flat[k] = seqs[i][j]
        BY <2>3, <4>1 DEF flat
      <4>3. k \in 1 .. Len(flat) + Len(list) /\ (flat \o list)[k] = flat[k]
        BY <2>4, <2>5
      <4> QED
        BY <4>1, <4>2, <4>3
    <3> QED
      BY <3>1, <3>2
  <2>8. \A i \in 1 .. Len(more) : \A j \in 1 .. Len(more[i]) :
          \E k \in 1 .. Len(flat \o list) : (flat \o list)[k] = more[i][j]
    BY <2>4, <2>7
  <2>9. Has(more)
    <3> SUFFICES ASSUME NEW i \in 1 .. Len(more), NEW j \in 1 .. Len(more[i])
                 PROVE  \E k \in 1 .. Len(FlattenSeq(more)) : FlattenSeq(more)[k] = more[i][j]
      OBVIOUS
    <3> QED
      BY <2>2, <2>8
  <2> QED
    BY <2>1, <2>9 DEF more
<1>3. Seq(Seq(Docs)) \subseteq P
  <2> HIDE DEF P
  <2> QED
    BY <1>1, <1>2, Skipping!SeqIsInductive
<1> QED
  BY <1>3

(* Skipping the empty documents loses none of the others.                  *)
LEMMA KeptHas ==
  ASSUME NEW list \in Seq(Docs)
  PROVE  /\ Kept(list) \in Seq(Docs)
         /\ \A i \in 1 .. Len(list) : list[i] # EmptyDocument =>
              \E k \in 1 .. Len(Kept(list)) : Kept(list)[k] = list[i]
<1> DEFINE Has(l) == \A i \in 1 .. Len(l) : l[i] # EmptyDocument =>
                       \E k \in 1 .. Len(Kept(l)) : Kept(l)[k] = l[i]
           P == {l \in Seq(Docs) : Kept(l) \in Seq(Docs) /\ Has(l)}
<1>1. <<>> \in P
  <2>1. Kept(<<>>) = <<>>
    BY Skipping!FoldEmpty DEF Kept
  <2>2. <<>> \in Seq(Docs) /\ Has(<<>>)
    OBVIOUS
  <2> QED
    BY <2>1, <2>2
<1>2. ASSUME NEW l \in Seq(Docs), NEW d \in Docs, l \in P PROVE Append(l, d) \in P
  <2> DEFINE more == Append(l, d)
             kept == Kept(l)
  <2>1. /\ more \in Seq(Docs) /\ Len(more) = Len(l) + 1 /\ more[Len(l) + 1] = d
        /\ \A i \in 1 .. Len(l) : more[i] = l[i]
    BY AppendProperties
  <2>2. Kept(more) = SkipEmpty(kept, d)
    BY Skipping!FoldAppend DEF Kept
  <2>3. kept \in Seq(Docs) /\ Has(l)
    BY <1>2
  <2>4. /\ Append(kept, d) \in Seq(Docs) /\ Len(Append(kept, d)) = Len(kept) + 1
        /\ Append(kept, d)[Len(kept) + 1] = d
        /\ \A k \in 1 .. Len(kept) : Append(kept, d)[k] = kept[k]
    BY <2>3, AppendProperties
  <2> HIDE DEF more, kept
  <2>5. \A i \in 1 .. Len(l) + 1 : i = Len(l) + 1 \/ i \in 1 .. Len(l)
    OBVIOUS
  <2>6. ASSUME NEW i \in 1 .. Len(l), l[i] # EmptyDocument
        PROVE  \E k \in 1 .. Len(kept) : kept[k] = l[i]
    BY <2>3, <2>6 DEF kept
  <2>7. CASE d = EmptyDocument
    <3>1. Kept(more) = kept
      BY <2>2, <2>7 DEF SkipEmpty
    <3>2. Has(more)
      BY <2>1, <2>5, <2>6, <2>7, <3>1
    <3> QED
      BY <2>1, <2>3, <3>1, <3>2 DEF more
  <2>8. CASE d # EmptyDocument
    <3>1. Kept(more) = Append(kept, d)
      BY <2>2, <2>8 DEF SkipEmpty
    <3>2. Len(kept) \in Nat
      BY <2>3
    <3>3. ASSUME NEW i \in 1 .. Len(more), more[i] # EmptyDocument
          PROVE  \E k \in 1 .. Len(kept) + 1 : Append(kept, d)[k] = more[i]
      <4>1. CASE i = Len(l) + 1
        <5>1. Len(kept) + 1 \in 1 .. Len(kept) + 1
          BY <3>2
        <5> QED
          BY <2>1, <2>4, <4>1, <5>1
      <4>2. CASE i \in 1 .. Len(l)
        <5>1. PICK k \in 1 .. Len(kept) : kept[k] = l[i]
          BY <2>1, <2>6, <3>3, <4>2
        <5>2. k \in 1 .. Len(kept) + 1
          BY <3>2
        <5> QED
          BY <2>1, <2>4, <4>2, <5>1, <5>2
      <4> QED
        BY <2>1, <2>5, <4>1, <4>2
    <3>4. Has(more)
      BY <2>4, <3>1, <3>3
    <3> QED
      BY <2>1, <2>4, <3>1, <3>4 DEF more
  <2> QED
    BY <2>7, <2>8
<1>3. Seq(Docs) \subseteq P
  <2> HIDE DEF P
  <2> QED
    BY <1>1, <1>2, Skipping!SeqIsInductive
<1> QED
  BY <1>3

(* What has been read is what the files say so far, and what has been      *)
(* refused has a reason.                                                   *)
ReadLoop ==
  /\ file \in 1 .. Len(files) + 1
  /\ Readable(files, file - 1)
  /\ specs = Kept(Before(files, file, doc))
  /\ IF file <= Len(files) /\ files[file] # Unreadable
     THEN doc \in 1 .. Len(files[file]) + 1
     ELSE doc = 1

Recorded == \A id \in seen : \E i \in 1 .. next - 1 : id = ID(specs[i])

ReadInv ==
  /\ phase = "resolve" => file = 1 /\ doc = 1 /\ specs = <<>>
  /\ phase = "read" => ReadLoop
  /\ phase \in {"validate", "accepted"} => specs = Documents
  /\ phase \in {"read", "validate"} => Recorded
  /\ RejectionIsEarned

ParseInv == IInv /\ ReadInv

(* Parse starts in the invariant of its reading too.                       *)
LEMMA InitParseInv == Init => ParseInv
<1>1. Init => ReadInv
  BY DEF Init, Unparsed, ReadInv, RejectionIsEarned
<1> QED
  BY <1>1, InitIInv DEF ParseInv

(* What makes Parse give up is a reason that Parse names.                  *)
LEMMA RejectKeepsReadInv ==
  ASSUME Reject, UNCHANGED <<files, file, doc, next>>,
         \/ files = <<>>
         \/ Unreadable \in ToSet(files)
         \/ Malformed \in ToSet(Documents)
         \/ \E i \in DOMAIN Documents : ~ValidateSpec(Documents[i])
         \/ \E i, j \in DOMAIN Documents : i # j /\ ID(Documents[i]) = ID(Documents[j])
  PROVE  ReadInv'
<1>1. phase' = "rejected" /\ files' = files /\ Documents' = Documents
  BY DEF Reject, Documents
<1>2. RejectionIsEarned'
  BY <1>1, Zenon DEF RejectionIsEarned
<1> QED
  BY <1>1, <1>2 DEF ReadInv

(* Resolving the paths keeps it: nothing has been read.                    *)
LEMMA ResolveKeepsReadInv == ParseInv /\ ResolveSpecPaths => ReadInv'
<1> SUFFICES ASSUME ParseInv, ResolveSpecPaths PROVE ReadInv'
  OBVIOUS
<1>1. CASE files = <<>>
  BY <1>1, RejectKeepsReadInv DEF ResolveSpecPaths
<1>2. CASE files # <<>>
  <2>1. /\ phase' = "read" /\ UNCHANGED <<specs, files, file, doc, next, seen>>
        /\ file = 1 /\ doc = 1 /\ specs = <<>> /\ seen = {} /\ files \in Directories
    BY <1>2 DEF ResolveSpecPaths, ParseInv, ReadInv, IInv, LoopInv
  <2>2. Before(files, 1, 1) = <<>>
    BY <2>1, BeforeFirst
  <2>3. Kept(<<>>) = <<>>
    BY Skipping!FoldEmpty DEF Kept
  <2>4. files \in Seq({Unreadable} \cup Seq(Docs)) /\ Len(files) \in Nat /\ Len(files) # 0
    BY <1>2, <2>1, FilesType, EmptySeq
  <2>5. \A i \in 1 .. Len(files) : files[i] # Unreadable => Len(files[i]) \in Nat
    BY <2>1, FilesType
  <2>6. ReadLoop
    BY <2>1, <2>2, <2>3, <2>4, <2>5 DEF ReadLoop, Readable
  <2>7. ReadLoop'
    BY <2>1, <2>6 DEF ReadLoop, Kept
  <2>8. Recorded' /\ RejectionIsEarned'
    BY <2>1 DEF Recorded, RejectionIsEarned
  <2> QED
    BY <2>1, <2>7, <2>8 DEF ReadInv
<1> QED
  BY <1>1, <1>2

(* Reading a document keeps it: the document is kept, skipped if empty, or *)
(* reason for a refusal.                                                   *)
LEMMA DecodeKeepsReadInv == ParseInv /\ DecodeDocument => ReadInv'
<1> SUFFICES ASSUME ParseInv, DecodeDocument PROVE ReadInv'
  OBVIOUS
<1>1. /\ phase = "read" /\ ReadLoop /\ Recorded /\ files \in Directories
      /\ file <= Len(files) /\ files[file] # Unreadable /\ doc <= Len(files[file])
      /\ UNCHANGED <<files, file, next, seen>>
      /\ next = 1 /\ seen = {}
  BY DEF ParseInv, ReadInv, IInv, LoopInv, DecodeDocument, MoreDocuments
<1>2. /\ file \in 1 .. Len(files) /\ doc \in 1 .. Len(files[file]) /\ Readable(files, file)
  <2>1. files \in Seq({Unreadable} \cup Seq(Docs)) /\ Len(files) \in Nat
    BY <1>1, FilesType
  <2>2. file \in 1 .. Len(files) /\ files[file] \in Seq(Docs)
    BY <1>1, <2>1, FilesType DEF ReadLoop
  <2>3. doc \in 1 .. Len(files[file])
    BY <1>1, <2>2 DEF ReadLoop
  <2>4. \A i \in 1 .. file : i = file \/ i \in 1 .. file - 1
    BY <2>2
  <2> QED
    BY <1>1, <2>2, <2>3, <2>4 DEF ReadLoop, Readable
<1>3. Document = files[file][doc] /\ Document \in Docs
  BY <1>2 DEF Document, Readable
<1>4. CASE Document = Malformed
  <2>1. CASE Unreadable \in ToSet(files)
    BY <1>4, <2>1, RejectKeepsReadInv DEF DecodeDocument
  <2>2. CASE Unreadable \notin ToSet(files)
    <3>1. files \in Seq(Seq(Docs))
      <4>1. files \in Seq({Unreadable} \cup Seq(Docs))
        BY <1>1, FilesType
      <4>2. \A i \in 1 .. Len(files) : files[i] # Unreadable
        BY <2>2, <4>1 DEF ToSet
      <4> QED
        BY <4>1, <4>2
    <3>2. FlattenSeq(files) \in Seq(Docs)
      BY <3>1, EmptySeq, FlattenExtends
    <3>3. PICK k \in 1 .. Len(FlattenSeq(files)) : FlattenSeq(files)[k] = Malformed
      BY <1>2, <1>3, <1>4, <3>1, FlattenHas
    <3>4. Documents = Kept(FlattenSeq(files))
      BY SameFolds DEF Documents
    <3>5. Malformed # EmptyDocument
      BY SpecFilesAssumption
    <3>6. PICK m \in 1 .. Len(Documents) : Documents[m] = Malformed
      BY <3>2, <3>3, <3>4, <3>5, KeptHas
    <3>7. Documents \in Seq(Docs)
      BY <3>2, <3>4, KeptHas
    <3>8. Malformed \in ToSet(Documents)
      BY <3>6, <3>7 DEF ToSet
    <3> QED
      BY <1>4, <3>8, RejectKeepsReadInv DEF DecodeDocument
  <2> QED
    BY <2>1, <2>2
<1>5. CASE Document # Malformed
  <2>1. phase' = "read" /\ specs' = SkipEmpty(specs, Document) /\ doc' = doc + 1
    BY <1>1, <1>5 DEF DecodeDocument, Decoded, AfterDocument, SkipEmpty
  <2>2. /\ Before(files, file, doc) \in Seq(Docs)
        /\ Before(files, file, doc + 1) = Append(Before(files, file, doc), Document)
    BY <1>1, <1>2, <1>3, BeforeNextDocument
  <2>3. Kept(Before(files, file, doc + 1)) = SkipEmpty(specs, Document)
    <3>1. Kept(Append(Before(files, file, doc), Document))
            = SkipEmpty(Kept(Before(files, file, doc)), Document)
      BY <1>3, <2>2, Skipping!FoldAppend DEF Kept
    <3> QED
      BY <1>1, <2>2, <3>1 DEF ReadLoop
  <2>4. doc + 1 \in 1 .. Len(files[file]) + 1
    BY <1>2 DEF Readable
  <2>5. ReadLoop'
    BY <1>1, <2>1, <2>3, <2>4 DEF ReadLoop, Kept
  <2>6. Recorded' /\ RejectionIsEarned'
    BY <1>1, <2>1 DEF Recorded, RejectionIsEarned
  <2> QED
    BY <2>1, <2>5, <2>6 DEF ReadInv
<1> QED
  BY <1>4, <1>5

(* Opening the next file keeps it, or is reason for a refusal.             *)
LEMMA NextFileKeepsReadInv == ParseInv /\ NextFile => ReadInv'
<1> SUFFICES ASSUME ParseInv, NextFile PROVE ReadInv'
  OBVIOUS
<1>1. /\ phase = "read" /\ ReadLoop /\ Recorded /\ files \in Directories
      /\ file <= Len(files) /\ ~MoreDocuments
      /\ UNCHANGED <<files, next, seen>>
      /\ next = 1 /\ seen = {}
  BY DEF ParseInv, ReadInv, IInv, LoopInv, NextFile
<1>2. /\ files \in Seq({Unreadable} \cup Seq(Docs)) /\ Len(files) \in Nat
      /\ file \in 1 .. Len(files)
  BY <1>1, FilesType DEF ReadLoop
<1>3. CASE files[file] = Unreadable
  <2>1. Unreadable \in ToSet(files)
    BY <1>2, <1>3 DEF ToSet
  <2> QED
    BY <1>3, <2>1, RejectKeepsReadInv DEF NextFile
<1>4. CASE files[file] # Unreadable
  <2>1. /\ phase' = "read" /\ specs' = specs /\ file' = file + 1 /\ doc' = 1
    BY <1>1, <1>4 DEF NextFile
  <2>2. files[file] \in Seq(Docs)
    BY <1>1, <1>2, <1>4, FilesType
  <2>3. doc = Len(files[file]) + 1
    BY <1>1, <1>4, <2>2 DEF ReadLoop, MoreDocuments
  <2>4. Readable(files, file)
    <3>1. \A i \in 1 .. file : i = file \/ i \in 1 .. file - 1
      BY <1>2
    <3> QED
      BY <1>1, <2>2, <3>1 DEF ReadLoop, Readable
  <2>5. Before(files, file + 1, 1) = Before(files, file, doc)
    BY <1>1, <1>2, <2>3, <2>4, BeforeNextFile
  <2>6. specs = Kept(Before(files, file + 1, 1))
    BY <1>1, <2>5 DEF ReadLoop
  <2>7. \A i \in 1 .. Len(files) : files[i] # Unreadable => Len(files[i]) \in Nat
    BY <1>1, FilesType
  <2>8. file + 1 \in 1 .. Len(files) + 1 /\ (file + 1) - 1 = file
    BY <1>2
  <2>9. ReadLoop'
    <3>1. IF file + 1 <= Len(files) /\ files[file + 1] # Unreadable
          THEN 1 \in 1 .. Len(files[file + 1]) + 1 ELSE 1 = 1
      BY <1>2, <2>7
    <3> QED
      BY <1>1, <2>1, <2>4, <2>6, <2>8, <3>1 DEF ReadLoop, Kept
  <2>10. Recorded' /\ RejectionIsEarned'
    BY <1>1, <2>1 DEF Recorded, RejectionIsEarned
  <2> QED
    BY <2>1, <2>9, <2>10 DEF ReadInv
<1> QED
  BY <1>3, <1>4

(* The end of reading keeps it: the specs are the documents of all files.  *)
LEMMA FinishKeepsReadInv == ParseInv /\ FinishReading => ReadInv'
<1> SUFFICES ASSUME ParseInv, FinishReading PROVE ReadInv'
  OBVIOUS
<1>1. /\ phase = "read" /\ ReadLoop /\ Recorded /\ files \in Directories
      /\ file > Len(files) /\ phase' = "validate"
      /\ UNCHANGED <<files, file, doc, specs, next, seen>>
  BY DEF ParseInv, ReadInv, IInv, FinishReading
<1>2. Len(files) \in Nat
  BY <1>1, FilesType
<1>3. file = Len(files) + 1 /\ file - 1 = Len(files) /\ doc = 1
  BY <1>1, <1>2 DEF ReadLoop
<1>4. Readable(files, Len(files))
  BY <1>1, <1>3 DEF ReadLoop
<1>5. specs = Kept(FlattenSeq(files))
  BY <1>1, <1>3, <1>4, BeforeEnd DEF ReadLoop
<1>6. specs = Documents
  BY <1>5, SameFolds DEF Documents
<1>7. Documents' = Documents
  BY <1>1 DEF Documents
<1>8. Recorded' /\ RejectionIsEarned'
  BY <1>1 DEF Recorded, RejectionIsEarned
<1> QED
  BY <1>1, <1>6, <1>7, <1>8 DEF ReadInv

(* Validating a spec keeps it: a refusal has its reason among the specs.   *)
LEMMA NameKeepsReadInv == ParseInv /\ ValidateSpecName => ReadInv'
<1> SUFFICES ASSUME ParseInv, ValidateSpecName PROVE ReadInv'
  OBVIOUS
<1>1. /\ phase = "validate" /\ specs = Documents /\ Recorded
      /\ next <= Len(specs) /\ UNCHANGED <<files, file, doc>>
      /\ next \in Nat \ {0} /\ specs \in Seq(Specs)
  BY DEF ParseInv, ReadInv, IInv, TypeOK, ValidateSpecName
<1>2. next \in DOMAIN Documents /\ next \in 1 .. Len(specs)
  BY <1>1
<1>3. CASE ValidateSpec(specs[next]) /\ Identity(specs[next]) \notin seen
  <2>1. /\ seen' = seen \cup {ID(specs[next])} /\ next' = next + 1 /\ UNCHANGED <<phase, specs>>
    BY <1>3, IdentityIsID DEF ValidateSpecName
  <2>2. Documents' = Documents
    BY <1>1 DEF Documents
  <2>3. next' - 1 = next /\ next \in 1 .. next /\ \A i \in 1 .. next - 1 : i \in 1 .. next
    BY <1>1, <2>1
  <2>4. \A id \in seen' : \E i \in 1 .. next : id = ID(specs[i])
    BY <1>1, <2>1, <2>3 DEF Recorded
  <2>5. Recorded'
    BY <2>1, <2>3, <2>4 DEF Recorded
  <2> QED
    BY <1>1, <2>1, <2>2, <2>5 DEF ReadInv, RejectionIsEarned
<1>4. CASE ~ValidateSpec(specs[next])
  BY <1>1, <1>2, <1>4, RejectKeepsReadInv DEF ValidateSpecName
<1>5. CASE ValidateSpec(specs[next]) /\ Identity(specs[next]) \in seen
  <2>1. PICK i \in 1 .. next - 1 : ID(specs[next]) = ID(specs[i])
    BY <1>1, <1>5, IdentityIsID DEF Recorded
  <2>2. i \in DOMAIN Documents /\ i # next
    BY <1>1
  <2> QED
    BY <1>1, <1>2, <1>5, <2>1, <2>2, RejectKeepsReadInv DEF ValidateSpecName
<1> QED
  BY <1>3, <1>4, <1>5

(* Every step of Parse keeps both invariants.                              *)
LEMMA NextKeepsParseInv == ParseInv /\ [Next]_vars => ParseInv'
<1> SUFFICES ASSUME ParseInv, [Next]_vars PROVE ReadInv'
  BY NextKeepsIInv DEF ParseInv
<1>1. CASE ResolveSpecPaths
  BY <1>1, ResolveKeepsReadInv
<1>2. CASE DecodeDocument
  BY <1>2, DecodeKeepsReadInv
<1>3. CASE NextFile
  BY <1>3, NextFileKeepsReadInv
<1>4. CASE FinishReading
  BY <1>4, FinishKeepsReadInv
<1>5. CASE ValidateSpecName
  BY <1>5, NameKeepsReadInv
<1>6. CASE Accept
  BY <1>6 DEF Accept, ParseInv, ReadInv, RejectionIsEarned, Documents
<1>7. CASE UNCHANGED vars
  BY <1>7 DEF vars, ParseInv, ReadInv, ReadLoop, Kept, Recorded, RejectionIsEarned, Documents
<1> QED
  BY <1>1, <1>2, <1>3, <1>4, <1>5, <1>6, <1>7 DEF Next

-------------------------------------------------------------------------------
(* Load: what the environment and the command line say.                    *)

Names == Scalars \cup {"mail-receiver"}
Raws  == {args[i][2] : i \in DOMAIN args}

(* The values of the flags that have been parsed. *)
SoFar == Collecting!Fold(NoValues, SubSeq(args, 1, arg - 1))

(* Of a setting the last flag, else what the environment says.             *)
Latest(values, s) == IF values[s] # <<>> THEN Last(values[s]) ELSE FromEnvironment(s)

(* The receivers as they stand on the command line, else in the variable.  *)
Chosen(values) ==
  IF values["mail-receiver"] # <<>> THEN values["mail-receiver"]
  ELSE IF Given("mail-receiver") THEN environment["mail-receiver"] ELSE <<>>

(* What is assumed of a launch, of the one that has happened. *)
Launched ==
  /\ \A v \in DOMAIN environment :
       /\ v \in Numbers => environment[v] \in Int \cup {Empty, Unparsable}
       /\ v \notin Numbers \cup Switches \cup {XDGConfigHome} => environment[v] # Unparsable
       /\ v = "mail-receiver" => environment[v] = Empty \/ IsSequence(environment[v])
  /\ IsSequence(args)
  /\ \A i \in DOMAIN args : args[i][1] \in Numbers => args[i][2] \in Int \cup {Empty, Unparsable}

EnvironmentRead == HasConfigDir /\ \A s \in Scalars : FromEnvironment(s) # Unparsable

FlagsRead ==
  /\ arg \in 1 .. Len(args) + 1
  /\ \A i \in 1 .. arg - 1 : args[i] # Operand /\ Acceptable(args[i][1], args[i][2])
  /\ SoFar \in [Names -> Seq(Raws)]
  /\ \A name \in Names : \A k \in 1 .. Len(SoFar[name]) :
       \E i \in 1 .. arg - 1 : args[i][1] = name /\ args[i][2] = SoFar[name][k]
  /\ changed \in BOOLEAN
  /\ changed <=> SoFar["mail-receiver"] # <<>>

Configured ==
  /\ cfg = [s \in Scalars |-> Latest(SoFar, s)]
  /\ receivers = ParseCSVList(Chosen(SoFar))

RealReceivers == \A i \in DOMAIN receivers : receivers[i] # Raw(NoName, FALSE)

LoadInv ==
  /\ loading \in {"environment", "arguments", "loaded", "refused"}
  /\ loading = "environment" => arg = 1 /\ changed = FALSE
  /\ loading = "arguments" => EnvironmentRead /\ FlagsRead /\ Configured
  /\ loading = "loaded" => Values \in [Names -> Seq(Raws)] /\ RealReceivers /\ IsSequence(receivers)
  /\ PrecedenceHolds
  /\ LoadErrorIsEarned

(* The settings the loader treats in a way of their own.                   *)
LEMMA NamesFacts ==
  /\ "mail-receiver" \in Names /\ "mail-receiver" \notin Scalars
  /\ "log-level" \in Scalars /\ "startup-jitter" \in Scalars
  /\ "startup-jitter" \in Numbers /\ "startup-jitter" # "log-level"
  /\ Numbers \cup Switches \subseteq Scalars /\ Scalars \subseteq Names
  /\ Defaults["startup-jitter"] = 0 /\ Level(Defaults["log-level"]) = "INFO"
BY DEF Names, Scalars, Numbers, Switches, Texts, Defaults, Level, Upper, TrimSpace, Raw

(* What a flag whose value is accepted can be.                             *)
LEMMA AcceptableFacts ==
  ASSUME NEW name, NEW raw, Acceptable(name, raw)
  PROVE  /\ name \in Names
         /\ name = "mail-receiver" => ~Blank(raw)
         /\ name \in Numbers => raw \notin {Empty, Unparsable}
BY DEF Acceptable, Names, Scalars, Numbers, Switches, Texts

(* The command line is a finite sequence of flags.                         *)
LEMMA ArgsType ==
  ASSUME IsSequence(args)
  PROVE  /\ args \in Seq({args[i] : i \in DOMAIN args})
         /\ DOMAIN args = 1 .. Len(args) /\ Len(args) \in Nat
         /\ \A i \in 1 .. Len(args) : args[i][2] \in Raws
<1>1. args \in Seq({args[i] : i \in DOMAIN args})
  BY DEF IsSequence
<1>2. DOMAIN args = 1 .. Len(args) /\ Len(args) \in Nat
  BY <1>1
<1> QED
  BY <1>1, <1>2 DEF Raws

(* What depends on the environment and the command line alone.             *)
LEMMA Unmoved ==
  ASSUME UNCHANGED <<environment, args>>
  PROVE  /\ Flags' = Flags /\ Values' = Values /\ Raws' = Raws
         /\ \A v : Given(v)' = Given(v)
         /\ \A s : FromEnvironment(s)' = FromEnvironment(s)
         /\ \A s : Said(s)' = Said(s)
         /\ HasConfigDir' = HasConfigDir
<1>1. Flags' = Flags /\ Raws' = Raws
  BY DEF Flags, Raws
<1>2. Values' = Values
  BY <1>1 DEF Values
<1>3. \A v : Given(v)' = Given(v)
  BY DEF Given
<1>4. \A s : FromEnvironment(s)' = FromEnvironment(s)
  BY <1>3 DEF FromEnvironment
<1>5. \A v : Variable(v)' = Variable(v)
  BY <1>3 DEF Variable
<1>6. \A s : Said(s)' = Said(s)
  BY <1>2, <1>5 DEF Said
<1>7. HasConfigDir' = HasConfigDir
  BY <1>3 DEF HasConfigDir
<1> QED
  BY <1>1, <1>2, <1>3, <1>4, <1>6, <1>7

(* The value a setting has before the flags are read, by cases.            *)
LEMMA FromEnvironmentIs ==
  ASSUME NEW s
  PROVE  /\ Given(s) => FromEnvironment(s) = environment[s]
         /\ s = "log-level" /\ ~Given(s) /\ Given(LogLevelAlt) =>
              FromEnvironment(s) = environment[LogLevelAlt]
         /\ ~Given(s) /\ ~(s = "log-level" /\ Given(LogLevelAlt)) =>
              FromEnvironment(s) = Defaults[s]
BY DEF FromEnvironment

(* The last of two sequences is the last of the second, if it has one.     *)
LEMMA LastOfConcat ==
  ASSUME NEW S, NEW p \in Seq(S), NEW q \in Seq(S)
  PROVE  p \o q \in Seq(S) /\ Last(p \o q) = IF q = <<>> THEN Last(p) ELSE Last(q)
<1>1. /\ p \o q \in Seq(S) /\ Len(p \o q) = Len(p) + Len(q)
      /\ \A k \in 1 .. Len(q) : (p \o q)[Len(p) + k] = q[k]
  BY ConcatProperties
<1>2. CASE q = <<>>
  BY <1>1, <1>2, ConcatEmptySeq
<1>3. CASE q # <<>>
  <2>1. Len(q) \in 1 .. Len(q)
    BY <1>3, EmptySeq
  <2> QED
    BY <1>1, <1>3, <2>1 DEF Last
<1> QED
  BY <1>1, <1>2, <1>3

(* The last that is said of a setting is what decides.                     *)
LEMMA LastSaid ==
  ASSUME NEW s \in Scalars, Values \in [Names -> Seq(Raws)]
  PROVE  Last(Said(s)) = Latest(Values, s)
<1> DEFINE U == {Defaults[s]} \cup {environment[v] : v \in DOMAIN environment} \cup Raws
           a == <<Defaults[s]>>
           b == IF s = "log-level" THEN Variable(LogLevelAlt) ELSE <<>>
           c == Variable(s)
           d == Values[s]
<1>1. a \in Seq(U) /\ Last(a) = Defaults[s]
  BY DEF Last
<1>2. \A v : Variable(v) \in Seq(U)
              /\ (Given(v) => Variable(v) # <<>> /\ Last(Variable(v)) = environment[v])
              /\ (~Given(v) => Variable(v) = <<>>)
  <2>1. ASSUME NEW v, Given(v)
        PROVE  Variable(v) \in Seq(U) /\ Variable(v) # <<>> /\ Last(Variable(v)) = environment[v]
    <3>1. environment[v] \in U
      BY <2>1 DEF Given
    <3>2. Variable(v) = <<environment[v]>>
      BY <2>1 DEF Variable
    <3> HIDE DEF U
    <3> QED
      BY <3>1, <3>2 DEF Last
  <2>2. ASSUME NEW v, ~Given(v) PROVE Variable(v) = <<>> /\ Variable(v) \in Seq(U)
    <3>1. Variable(v) = <<>>
      BY <2>2 DEF Variable
    <3> QED
      BY <3>1, EmptySeq
  <2> QED
    BY <2>1, <2>2
<1>3. d \in Seq(U)
  <2>1. s \in Names /\ Values[s] \in Seq(Raws) /\ Raws \subseteq U
    BY NamesFacts
  <2> QED
    BY <2>1
<1>4. b \in Seq(U)
  BY <1>2, EmptySeq
<1>5. Said(s) = ((a \o b) \o c) \o d
  BY DEF Said
<1> HIDE DEF U, a, b, c, d
<1>6. c \in Seq(U)
  BY <1>2 DEF c
<1>7. \A p, q \in Seq(U) : p \o q \in Seq(U) /\ Last(p \o q) = IF q = <<>> THEN Last(p) ELSE Last(q)
  BY LastOfConcat
<1>8. Last(a \o b) = (IF b = <<>> THEN Last(a) ELSE Last(b)) /\ a \o b \in Seq(U)
  BY <1>1, <1>4, <1>7
<1>9. Last((a \o b) \o c) = (IF c = <<>> THEN Last(a \o b) ELSE Last(c)) /\ (a \o b) \o c \in Seq(U)
  BY <1>6, <1>8, <1>7
<1>10. Last(Said(s)) = IF d = <<>> THEN Last((a \o b) \o c) ELSE Last(d)
  <2> DEFINE e == (a \o b) \o c
  <2> HIDE DEF e
  <2>1. e \in Seq(U) /\ Said(s) = e \o d
    BY <1>5, <1>9 DEF e
  <2>2. Last(e \o d) = IF d = <<>> THEN Last(e) ELSE Last(d)
    BY <1>3, <1>7, <2>1
  <2> QED
    BY <2>1, <2>2 DEF e
<1>11. Last((a \o b) \o c) = FromEnvironment(s)
  <2>1. CASE Given(s)
    BY <1>2, <1>9, <2>1, FromEnvironmentIs DEF c
  <2>2. CASE ~Given(s) /\ s = "log-level" /\ Given(LogLevelAlt)
    BY <1>2, <1>8, <1>9, <2>2, FromEnvironmentIs DEF b, c
  <2>3. CASE ~Given(s) /\ ~(s = "log-level" /\ Given(LogLevelAlt))
    BY <1>1, <1>2, <1>8, <1>9, <2>3, FromEnvironmentIs DEF b, c
  <2> QED
    BY <2>1, <2>2, <2>3
<1> QED
  BY <1>10, <1>11 DEF Latest, d

(* Values is the fold that SequenceFolds is about.                         *)
LEMMA ValuesAreFold ==
  \A list : FoldLeft(Collect, NoValues, list) = Collecting!Fold(NoValues, list)
BY DEF Collecting!Fold, FoldLeft, Collecting!FoldLeft, MapThenFoldSet,
       Collecting!MapThenFoldSet, Max, Collecting!Max

(* The flags end before the first word that is none.                       *)
LEMMA FlagsAre ==
  ASSUME IsSequence(args), NEW n \in 1 .. Len(args) + 1,
         \A i \in 1 .. n - 1 : args[i] # Operand
  PROVE  /\ (n <= Len(args) => args[n] = Operand) => Flags = SubSeq(args, 1, n - 1)
         /\ \A i \in 1 .. n - 1 : i \in DOMAIN Flags /\ Flags[i] = args[i]
<1> DEFINE W == {args[i] : i \in DOMAIN args}
           ends == {i \in DOMAIN args : args[i] = Operand}
<1>1. args \in Seq(W) /\ DOMAIN args = 1 .. Len(args) /\ Len(args) \in Nat
  BY ArgsType
<1> HIDE DEF W
<1>2. CASE ends = {}
  <2>1. Flags = args
    BY <1>2 DEF Flags
  <2>2. (n <= Len(args) => args[n] = Operand) => n = Len(args) + 1
    BY <1>1, <1>2
  <2>3. n = Len(args) + 1 => SubSeq(args, 1, n - 1) = args
    <3>1. /\ SubSeq(args, 1, Len(args)) \in Seq(W)
          /\ Len(SubSeq(args, 1, Len(args))) = Len(args)
          /\ \A i \in 1 .. Len(args) : SubSeq(args, 1, Len(args))[i] = args[i]
      BY <1>1, SubSeqProperties
    <3>2. SubSeq(args, 1, Len(args)) = args
      BY <1>1, <3>1, SeqEqual
    <3>3. n = Len(args) + 1 => n - 1 = Len(args)
      BY <1>1
    <3> QED
      BY <3>2, <3>3
  <2> QED
    BY <1>1, <2>1, <2>2, <2>3
<1>3. CASE ends # {}
  <2>1. PICK m \in ends : \A i \in ends : m <= i
    <3>1. ends \subseteq Nat
      BY <1>1
    <3>2. \A T : T \subseteq Nat /\ T # {} => \E i \in T : \A j \in T : i =< j
      BY Collecting!LeastNat
    <3> HIDE DEF ends
    <3> QED
      BY <1>3, <3>1, <3>2
  <2>2. Min(ends) = m
    <3>1. \A x \in ends : (\A y \in ends : x =< y) => x = m
      BY <1>1, <2>1
    <3> HIDE DEF ends
    <3> QED
      BY <2>1, <3>1 DEF Min
  <2>3. Flags = SubSeq(args, 1, m - 1)
    BY <1>3, <2>2 DEF Flags
  <2>4. m \in 1 .. Len(args) /\ args[m] = Operand
    BY <1>1, <2>1
  <2>5. n - 1 < m
    BY <1>1, <2>4
  <2>6. /\ DOMAIN Flags = 1 .. m - 1
        /\ \A i \in 1 .. m - 1 : Flags[i] = args[i]
    <3>1. /\ SubSeq(args, 1, m - 1) \in Seq(W) /\ Len(SubSeq(args, 1, m - 1)) = m - 1
          /\ \A i \in 1 .. m - 1 : SubSeq(args, 1, m - 1)[i] = args[i]
      BY <1>1, <2>4, SubSeqProperties
    <3> QED
      BY <2>3, <3>1
  <2>7. (n <= Len(args) => args[n] = Operand) => n = m
    <3>1. n <= Len(args) /\ args[n] = Operand => m <= n
      BY <1>1, <2>1
    <3> QED
      BY <1>1, <2>4, <2>5, <3>1
  <2> QED
    BY <1>1, <2>3, <2>4, <2>5, <2>6, <2>7
<1> QED
  BY <1>2, <1>3

(* The parts of a list that are not blank, trimmed: one more part.         *)
LEMMA CsvStep ==
  ASSUME NEW S, NEW list \in Seq(S), NEW raw \in S
  PROVE  /\ ParseCSVList(<<>>) = <<>>
         /\ ParseCSVList(Append(list, raw)) = AppendPart(ParseCSVList(list), raw)
<1>1. \A l : ParseCSVList(l) = Parting!Fold(<<>>, l)
  BY DEF ParseCSVList, Parting!Fold, FoldLeft, Parting!FoldLeft, MapThenFoldSet,
         Parting!MapThenFoldSet, Max, Parting!Max
<1>2. Parting!Fold(<<>>, <<>>) = <<>>
  BY Parting!FoldEmpty
<1>3. Parting!Fold(<<>>, Append(list, raw)) = AppendPart(Parting!Fold(<<>>, list), raw)
  BY Parting!FoldAppend
<1> QED
  BY <1>1, <1>2, <1>3

NamesOf(list) == {list[i].name : i \in DOMAIN list}
NamedAt(list) == {i \in DOMAIN list : list[i].name # NoName}

(* A blank receiver is one without a name, before and after it is trimmed. *)
LEMMA BlankIsNoName ==
  ASSUME NEW raw
  PROVE  /\ Blank(raw) <=> raw.name = NoName
         /\ TrimSpace(raw).name = raw.name
         /\ ~Blank(raw) => TrimSpace(raw) # Raw(NoName, FALSE)
BY DEF Blank, TrimSpace, Raw

(* The names of a list without the blank ones, and how many there are.     *)
LEMMA CsvFacts ==
  ASSUME NEW S, NEW list \in Seq(S)
  PROVE  /\ ParseCSVList(list) \in Seq({TrimSpace(raw) : raw \in S})
         /\ NamesOf(ParseCSVList(list)) = NamesOf(list) \ {NoName}
         /\ Len(ParseCSVList(list)) = Cardinality(NamedAt(list))
         /\ \A i \in DOMAIN ParseCSVList(list) : ParseCSVList(list)[i] # Raw(NoName, FALSE)
<1> DEFINE T == {TrimSpace(raw) : raw \in S}
           Good(l) == /\ ParseCSVList(l) \in Seq(T)
                      /\ NamesOf(ParseCSVList(l)) = NamesOf(l) \ {NoName}
                      /\ Len(ParseCSVList(l)) = Cardinality(NamedAt(l))
                      /\ \A i \in DOMAIN ParseCSVList(l) : ParseCSVList(l)[i] # Raw(NoName, FALSE)
           P == {l \in Seq(S) : Good(l)}
<1>1. <<>> \in P
  <2>1. ParseCSVList(<<>>) = <<>>
    BY CsvStep, EmptySeq
  <2>2. NamesOf(<<>>) = {} /\ NamedAt(<<>>) = {}
    BY DEF NamesOf, NamedAt
  <2>3. Cardinality({}) = 0 /\ Len(<<>>) = 0 /\ <<>> \in Seq(T) /\ <<>> \in Seq(S) /\ DOMAIN <<>> = {}
    BY FS_EmptySet
  <2>4. Good(<<>>)
    BY <2>1, <2>2, <2>3
  <2> QED
    BY <2>3, <2>4
<1>2. ASSUME NEW l \in Seq(S), NEW raw \in S, l \in P PROVE Append(l, raw) \in P
  <2> DEFINE more == Append(l, raw)
             r == ParseCSVList(l)
  <2>1. /\ more \in Seq(S) /\ Len(more) = Len(l) + 1 /\ more[Len(l) + 1] = raw
        /\ \A i \in 1 .. Len(l) : more[i] = l[i]
    BY AppendProperties
  <2>2. DOMAIN more = 1 .. Len(l) + 1 /\ DOMAIN l = 1 .. Len(l) /\ Len(l) \in Nat
    BY <2>1
  <2>3. ParseCSVList(more) = AppendPart(r, raw)
    BY CsvStep
  <2>4. /\ r \in Seq(T) /\ NamesOf(r) = NamesOf(l) \ {NoName} /\ Len(r) = Cardinality(NamedAt(l))
        /\ \A i \in DOMAIN r : r[i] # Raw(NoName, FALSE)
    BY <1>2
  <2> HIDE DEF more, r
  <2>5. \A i \in 1 .. Len(l) + 1 : i = Len(l) + 1 \/ i \in 1 .. Len(l)
    BY <2>2
  <2>6. Len(l) + 1 \in 1 .. Len(l) + 1 /\ Len(l) + 1 \notin 1 .. Len(l)
        /\ \A i \in 1 .. Len(l) : i \in 1 .. Len(l) + 1
    BY <2>2
  <2>7. NamesOf(more) = NamesOf(l) \cup {raw.name}
    BY <2>1, <2>2, <2>5, <2>6 DEF NamesOf
  <2>8. IsFiniteSet(NamedAt(l)) /\ Len(l) + 1 \notin NamedAt(l)
    <3>1. IsFiniteSet(1 .. Len(l))
      BY <2>2, FS_Interval
    <3>2. NamedAt(l) \subseteq 1 .. Len(l)
      BY <2>2 DEF NamedAt
    <3> QED
      BY <2>6, <3>1, <3>2, FS_Subset
  <2>9. CASE raw.name = NoName
    <3>1. ParseCSVList(more) = r
      BY <2>3, <2>9, BlankIsNoName DEF AppendPart
    <3>2. NamedAt(more) = NamedAt(l)
      BY <2>1, <2>2, <2>5, <2>6, <2>9 DEF NamedAt
    <3>3. NamesOf(more) \ {NoName} = NamesOf(l) \ {NoName}
      BY <2>7, <2>9
    <3>4. Good(more)
      BY <2>4, <3>1, <3>2, <3>3
    <3> QED
      BY <2>1, <3>4 DEF more
  <2>10. CASE raw.name # NoName
    <3> DEFINE t == TrimSpace(raw)
               q == Append(r, t)
    <3>1. ParseCSVList(more) = q
      BY <2>3, <2>10, BlankIsNoName DEF AppendPart
    <3>2. t.name = raw.name /\ t # Raw(NoName, FALSE) /\ t \in T
      BY <2>10, BlankIsNoName
    <3> HIDE DEF t, T
    <3>3. /\ q \in Seq(T) /\ Len(q) = Len(r) + 1 /\ q[Len(r) + 1] = t
          /\ \A i \in 1 .. Len(r) : q[i] = r[i]
      BY <2>4, <3>2, AppendProperties
    <3> HIDE DEF q
    <3>4. DOMAIN q = 1 .. Len(r) + 1 /\ DOMAIN r = 1 .. Len(r) /\ Len(r) \in Nat
      BY <2>4, <3>3
    <3>5. /\ \A i \in 1 .. Len(r) + 1 : i = Len(r) + 1 \/ i \in 1 .. Len(r)
          /\ Len(r) + 1 \in 1 .. Len(r) + 1 /\ \A i \in 1 .. Len(r) : i \in 1 .. Len(r) + 1
      BY <3>4
    <3>6. NamesOf(q) = NamesOf(r) \cup {raw.name}
      BY <3>2, <3>3, <3>4, <3>5 DEF NamesOf
    <3>7. NamesOf(q) = NamesOf(more) \ {NoName}
      BY <2>4, <2>7, <2>10, <3>6
    <3>8. NamedAt(more) = NamedAt(l) \cup {Len(l) + 1}
      BY <2>1, <2>2, <2>5, <2>6, <2>10 DEF NamedAt
    <3>9. Cardinality(NamedAt(more)) = Cardinality(NamedAt(l)) + 1
      BY <2>8, <3>8, FS_AddElement
    <3>10. \A i \in DOMAIN q : q[i] # Raw(NoName, FALSE)
      BY <2>4, <3>2, <3>3, <3>4, <3>5
    <3>11. Good(more)
      BY <2>4, <3>1, <3>3, <3>7, <3>9, <3>10
    <3> QED
      BY <2>1, <3>11 DEF more
  <2> QED
    BY <2>9, <2>10
<1>3. Seq(S) \subseteq P
  <2> HIDE DEF P
  <2> QED
    BY <1>1, <1>2, Parting!SeqIsInductive
<1> QED
  BY <1>3

(* What LoadErrorIsEarned counts as wrong, part by part.                   *)
BadVariable == \/ ~Given(Home) /\ ~Given(XDGConfigHome)
               \/ \E v \in DOMAIN environment : environment[v] = Unparsable
BadFlag   == \E i \in DOMAIN Flags : ~Acceptable(Flags[i][1], Flags[i][2])
BadJitter == Last(Said("startup-jitter")) < 0
BadLevel  == Level(Last(Said("log-level"))) \notin Levels

(* The two parts of LoadErrorIsEarned, for either end of Load.             *)
LEMMA EarnedIs ==
  LoadErrorIsEarned <=>
    /\ loading = "refused" => BadVariable \/ BadFlag \/ BadJitter \/ BadLevel
    /\ loading = "loaded" => /\ ~BadVariable /\ ~BadFlag
                             /\ cfg["startup-jitter"] >= 0
                             /\ cfg["log-level"].name \in Levels
BY DEF LoadErrorIsEarned, BadVariable, BadFlag, BadJitter, BadLevel

(* A refusal that has its reason keeps the invariant of Load.              *)
LEMMA RefusalKeepsLoadInv ==
  ASSUME loading' = "refused", UNCHANGED <<environment, args>>,
         BadVariable \/ BadFlag \/ BadJitter \/ BadLevel
  PROVE  LoadInv'
<1>1. (BadVariable \/ BadFlag \/ BadJitter \/ BadLevel)'
  <2>1. /\ Flags' = Flags /\ \A v : Given(v)' = Given(v)
        /\ \A s : Said(s)' = Said(s)
    BY Unmoved
  <2> QED
    BY <2>1 DEF BadVariable, BadFlag, BadJitter, BadLevel, Acceptable, Level, Upper, TrimSpace
<1>2. LoadErrorIsEarned'
  BY <1>1 DEF LoadErrorIsEarned, BadVariable, BadFlag, BadJitter, BadLevel
<1> QED
  BY <1>2 DEF LoadInv, PrecedenceHolds

(* Reading the variables keeps it: cfg is the defaults and what the        *)
(* variables say.                                                          *)
LEMMA EnvironmentKeepsLoadInv == LoadInv /\ Launched /\ ReadEnvironment => LoadInv'
<1> SUFFICES ASSUME LoadInv, Launched, ReadEnvironment PROVE LoadInv'
  OBVIOUS
<1>1. /\ loading = "environment" /\ arg = 1 /\ changed = FALSE
      /\ UNCHANGED <<environment, args, arg, changed>>
  BY DEF LoadInv, ReadEnvironment
<1>2. CASE ~HasConfigDir \/ \E s \in Scalars : FromEnvironment(s) = Unparsable
  <2>1. ASSUME NEW s \in Scalars, FromEnvironment(s) = Unparsable
        PROVE  \E v \in DOMAIN environment : environment[v] = Unparsable
    <3>1. Defaults[s] # Unparsable
      BY DefaultsAssumption
    <3> QED
      BY <2>1, <3>1, FromEnvironmentIs DEF Given
  <2>2. BadVariable
    BY <1>2, <2>1 DEF BadVariable, HasConfigDir, Given
  <2> QED
    BY <1>1, <1>2, <2>2, RefusalKeepsLoadInv DEF ReadEnvironment
<1>3. CASE ~(~HasConfigDir \/ \E s \in Scalars : FromEnvironment(s) = Unparsable)
  <2>1. /\ loading' = "arguments" /\ cfg' = [s \in Scalars |-> FromEnvironment(s)]
        /\ receivers' = IF Given("mail-receiver")
                        THEN ParseCSVList(environment["mail-receiver"]) ELSE <<>>
    BY <1>3 DEF ReadEnvironment
  <2>2. /\ EnvironmentRead /\ HasConfigDir' = HasConfigDir
        /\ \A v : Given(v)' = Given(v) /\ \A s : FromEnvironment(s)' = FromEnvironment(s)
    BY <1>1, <1>3, Unmoved DEF EnvironmentRead
  <2>3. SoFar = NoValues
    <3>1. SubSeq(args, 1, 1 - 1) = <<>>
      <4>1. args \in Seq({args[i] : i \in DOMAIN args})
        BY ArgsType DEF Launched
      <4>2. SubSeq(args, 1, 1 - 1) \in Seq({args[i] : i \in DOMAIN args}) /\ Len(SubSeq(args, 1, 1 - 1)) = 0
        BY <4>1, SubSeqProperties
      <4> QED
        BY <4>2, EmptySeq
    <3>2. Collecting!Fold(NoValues, <<>>) = NoValues
      BY Collecting!FoldEmpty
    <3> QED
      BY <1>1, <3>1, <3>2 DEF SoFar
  <2>4. SoFar' = SoFar /\ Raws' = Raws
    BY <1>1 DEF SoFar, Raws
  <2>5. NoValues = [name \in Names |-> <<>>]
    BY DEF NoValues, Names
  <2>6. NoValues \in [Names -> Seq(Raws)] /\ \A name \in Names : NoValues[name] = <<>>
    BY <2>5, EmptySeq
  <2>7. FlagsRead'
    <3>1. Len(args) \in Nat
      BY ArgsType DEF Launched
    <3>2. arg' \in 1 .. Len(args') + 1 /\ changed' \in BOOLEAN /\ arg' - 1 = 0
      <4>1. 1 \in 1 .. Len(args) + 1 /\ 1 - 1 = 0
        BY <3>1
      <4>2. arg' = 1 /\ Len(args') = Len(args) /\ changed' = FALSE
        BY <1>1
      <4> QED
        BY <4>1, <4>2
    <3>3. SoFar' \in [Names -> Seq(Raws')] /\ \A name \in Names : SoFar'[name] = <<>>
      BY <2>3, <2>4, <2>6
    <3>4. changed' <=> SoFar'["mail-receiver"] # <<>>
      BY <1>1, <3>3, NamesFacts
    <3>5. \A i \in 1 .. arg' - 1 : FALSE
      BY <3>2
    <3>6. \A name \in Names : \A k \in 1 .. Len(SoFar'[name]) : FALSE
      BY <3>3
    <3> QED
      BY <3>2, <3>3, <3>4, <3>5, <3>6 DEF FlagsRead
  <2>8. Configured'
    <3>1. \A s \in Scalars : Latest(SoFar, s) = FromEnvironment(s)
      BY <2>3, <2>6, NamesFacts DEF Latest
    <3>2. ParseCSVList(<<>>) = <<>>
      BY CsvStep, EmptySeq
    <3>3. ParseCSVList(Chosen(SoFar)) = receivers'
      BY <2>1, <2>3, <2>6, <3>2, NamesFacts DEF Chosen
    <3>4. Chosen(SoFar)' = Chosen(SoFar)
      BY <1>1, <2>2, <2>4 DEF Chosen
    <3>5. \A s \in Scalars : Latest(SoFar, s)' = Latest(SoFar, s)
      BY <2>2, <2>4 DEF Latest
    <3>6. cfg' = [s \in Scalars |-> Latest(SoFar, s)]'
      BY <2>1, <3>1, <3>5
    <3>7. receivers' = ParseCSVList(Chosen(SoFar))'
      BY <3>3, <3>4
    <3> QED
      BY <3>6, <3>7 DEF Configured
  <2>9. EnvironmentRead'
    BY <2>2 DEF EnvironmentRead
  <2> QED
    BY <2>1, <2>7, <2>8, <2>9 DEF LoadInv, PrecedenceHolds, LoadErrorIsEarned
<1> QED
  BY <1>2, <1>3

(* A flag that has been parsed is one of the flags.                        *)
LEMMA LatestFrom ==
  ASSUME LoadInv, Launched, loading = "arguments", NEW s \in Scalars
  PROVE  /\ cfg[s] = Latest(SoFar, s)
         /\ \/ /\ SoFar[s] = <<>> /\ cfg[s] = FromEnvironment(s)
            \/ \E i \in 1 .. arg - 1 :
                 /\ args[i][1] = s /\ args[i][2] = cfg[s] /\ Acceptable(s, cfg[s])
                 /\ i \in DOMAIN args /\ i \in DOMAIN Flags /\ Flags[i] = args[i]
<1>1. FlagsRead /\ cfg[s] = Latest(SoFar, s) /\ IsSequence(args)
  BY DEF LoadInv, Configured, Launched
<1>2. s \in Names
  BY NamesFacts
<1>3. CASE SoFar[s] = <<>>
  BY <1>1, <1>3 DEF Latest
<1>4. CASE SoFar[s] # <<>>
  <2>1. cfg[s] = Last(SoFar[s]) /\ SoFar[s] \in Seq(Raws)
    BY <1>1, <1>2, <1>4 DEF Latest, FlagsRead
  <2>2. Len(SoFar[s]) \in 1 .. Len(SoFar[s])
    BY <1>4, <2>1, EmptySeq
  <2>3. PICK i \in 1 .. arg - 1 : args[i][1] = s /\ args[i][2] = cfg[s]
    BY <1>1, <1>2, <2>1, <2>2 DEF FlagsRead, Last
  <2>4. Acceptable(s, cfg[s])
    BY <1>1, <2>3 DEF FlagsRead
  <2>5. i \in DOMAIN args
    <3>1. DOMAIN args = 1 .. Len(args) /\ Len(args) \in Nat
      BY <1>1, ArgsType
    <3> QED
      BY <1>1, <3>1 DEF FlagsRead
  <2>6. i \in DOMAIN Flags /\ Flags[i] = args[i]
    <3>1. arg \in 1 .. Len(args) + 1 /\ \A j \in 1 .. arg - 1 : args[j] # Operand
      BY <1>1 DEF FlagsRead
    <3> QED
      BY <1>1, <3>1, FlagsAre
  <2> QED
    BY <1>1, <2>3, <2>4, <2>5, <2>6
<1> QED
  BY <1>3, <1>4

(* The jitter at the end of the flags is a number.                         *)
LEMMA JitterFrom ==
  ASSUME LoadInv, Launched, loading = "arguments"
  PROVE  cfg["startup-jitter"] \in Int
<1> DEFINE s == "startup-jitter"
<1>1. s \in Scalars /\ s \in Numbers /\ Defaults[s] = 0 /\ s # "log-level"
  BY NamesFacts
<1>2. CASE SoFar[s] = <<>> /\ cfg[s] = FromEnvironment(s)
  <2>1. FromEnvironment(s) # Unparsable
    BY <1>1 DEF LoadInv, EnvironmentRead
  <2>2. CASE Given(s)
    <3>1. /\ s \in DOMAIN environment /\ cfg[s] = environment[s]
          /\ environment[s] # Empty /\ environment[s] # Unparsable
      BY <1>2, <2>1, <2>2, FromEnvironmentIs DEF Given
    <3>2. environment[s] \in Int
      BY <1>1, <3>1 DEF Launched
    <3> QED
      BY <3>1, <3>2
  <2>3. CASE ~Given(s)
    <3>1. cfg[s] = 0
      BY <1>1, <1>2, <2>3, FromEnvironmentIs
    <3> QED
      BY <3>1
  <2> QED
    BY <2>2, <2>3
<1>3. CASE \E i \in 1 .. arg - 1 :
             /\ args[i][1] = s /\ args[i][2] = cfg[s] /\ Acceptable(s, cfg[s])
             /\ i \in DOMAIN args /\ i \in DOMAIN Flags /\ Flags[i] = args[i]
  <2>1. PICK i \in 1 .. arg - 1 :
             /\ args[i][1] = s /\ args[i][2] = cfg[s] /\ Acceptable(s, cfg[s])
             /\ i \in DOMAIN args /\ i \in DOMAIN Flags /\ Flags[i] = args[i]
    BY <1>3
  <2>2. cfg[s] \in Int
    BY <1>1, <2>1, AcceptableFacts DEF Launched
  <2> QED
    BY <2>1, <2>2
<1> QED
  BY <1>1, <1>2, <1>3, LatestFrom

(* A flag keeps it: it decides over the flags before it and over the       *)
(* variables.                                                              *)
LEMMA FlagKeepsLoadInv == LoadInv /\ Launched /\ ParseFlag => LoadInv'
<1> SUFFICES ASSUME LoadInv, Launched, ParseFlag PROVE LoadInv'
  OBVIOUS
<1>1. PICK name, raw : name = args[arg][1] /\ raw = args[arg][2]
  OBVIOUS
<1> USE <1>1
<1>2. /\ loading = "arguments" /\ EnvironmentRead /\ FlagsRead /\ Configured
      /\ arg <= Len(args) /\ args[arg] # Operand
      /\ UNCHANGED <<environment, args>>
  BY DEF LoadInv, ParseFlag
<1>3. /\ IsSequence(args) /\ args \in Seq({args[i] : i \in DOMAIN args})
      /\ DOMAIN args = 1 .. Len(args) /\ Len(args) \in Nat
      /\ \A i \in 1 .. Len(args) : args[i][2] \in Raws
  BY ArgsType DEF Launched
<1>4. arg \in 1 .. Len(args) /\ arg + 1 \in 1 .. Len(args) + 1 /\ (arg + 1) - 1 = arg
      /\ \A i \in 1 .. arg : i = arg \/ i \in 1 .. arg - 1
  BY <1>2, <1>3 DEF FlagsRead
<1>5. /\ \A v : Given(v)' = Given(v) /\ \A s : FromEnvironment(s)' = FromEnvironment(s)
      /\ Raws' = Raws /\ HasConfigDir' = HasConfigDir
  BY <1>2, Unmoved
<1>6. CASE ~Acceptable(name, raw)
  <2>1. \A i \in 1 .. arg : args[i] # Operand
    BY <1>2, <1>4 DEF FlagsRead
  <2>2. \A i \in 1 .. arg : i \in DOMAIN Flags /\ Flags[i] = args[i]
    BY <1>3, <1>4, <2>1, FlagsAre
  <2>3. BadFlag
    BY <1>4, <1>6, <2>2 DEF BadFlag
  <2> QED
    BY <1>2, <1>6, <2>3, RefusalKeepsLoadInv DEF ParseFlag
<1>7. CASE Acceptable(name, raw)
  <2> DEFINE after == Collect(SoFar, args[arg])
  <2>1. arg' = arg + 1 /\ loading' = "arguments"
    BY <1>2, <1>7 DEF ParseFlag
  <2>2. SoFar' = after
    <3> DEFINE W == {args[i] : i \in DOMAIN args}
    <3>1. args \in Seq(W) /\ args[arg] \in W
      BY <1>3, <1>4
    <3> HIDE DEF W
    <3>2. /\ SubSeq(args, 1, arg - 1) \in Seq(W)
          /\ SubSeq(args, 1, arg) = Append(SubSeq(args, 1, arg - 1), args[arg])
      BY <1>4, <3>1, PrefixAppend
    <3>3. Collecting!Fold(NoValues, SubSeq(args, 1, arg)) = after
      <4>1. \A l \in Seq(W), e \in W :
              Collecting!Fold(NoValues, Append(l, e)) = Collect(Collecting!Fold(NoValues, l), e)
        BY Collecting!FoldAppend
      <4> QED
        BY <3>1, <3>2, <4>1 DEF SoFar
    <3>4. SubSeq(args, 1, arg - 1)' = SubSeq(args, 1, arg)
      BY <1>2, <1>4, <2>1
    <3> QED
      BY <3>3, <3>4 DEF SoFar
  <2>3. name \in Names /\ raw \in Raws /\ SoFar \in [Names -> Seq(Raws)]
    BY <1>2, <1>3, <1>4, <1>7, AcceptableFacts DEF FlagsRead
  <2>4. /\ after = [n \in Names |-> IF n = name THEN Append(SoFar[n], raw) ELSE SoFar[n]]
    BY <2>3 DEF Collect
  <2>5. after[name] = Append(SoFar[name], raw) /\ \A n \in Names \ {name} : after[n] = SoFar[n]
    BY <2>3, <2>4
  <2>6. /\ Append(SoFar[name], raw) \in Seq(Raws)
        /\ Len(Append(SoFar[name], raw)) = Len(SoFar[name]) + 1
        /\ Append(SoFar[name], raw)[Len(SoFar[name]) + 1] = raw
        /\ \A k \in 1 .. Len(SoFar[name]) : Append(SoFar[name], raw)[k] = SoFar[name][k]
        /\ Len(SoFar[name]) \in Nat
    <3>1. SoFar[name] \in Seq(Raws)
      BY <2>3
    <3> QED
      BY <2>3, <3>1, AppendProperties
  <2>7. after \in [Names -> Seq(Raws)]
    BY <2>3, <2>4, <2>6
  <2>8. after[name] # <<>> /\ Last(after[name]) = raw
    BY <2>5, <2>6 DEF Last
  <2> HIDE DEF after
  <2>9. ASSUME NEW n \in Names, NEW k \in 1 .. Len(after[n])
        PROVE  \E i \in 1 .. arg : args[i][1] = n /\ args[i][2] = after[n][k]
    <3>1. CASE n = name
      <4>1. k = Len(SoFar[name]) + 1 \/ k \in 1 .. Len(SoFar[name])
        BY <2>5, <2>6, <3>1
      <4>2. CASE k = Len(SoFar[name]) + 1
        BY <1>4, <2>5, <2>6, <3>1, <4>2
      <4>3. CASE k \in 1 .. Len(SoFar[name])
        <5>1. PICK i \in 1 .. arg - 1 : args[i][1] = name /\ args[i][2] = SoFar[name][k]
          BY <1>2, <2>3, <4>3 DEF FlagsRead
        <5>2. i \in 1 .. arg
          BY <1>4
        <5> QED
          BY <2>5, <2>6, <3>1, <4>3, <5>1, <5>2
      <4> QED
        BY <4>1, <4>2, <4>3
    <3>2. CASE n # name
      <4>1. PICK i \in 1 .. arg - 1 : args[i][1] = n /\ args[i][2] = SoFar[n][k]
        BY <1>2, <2>5, <3>2 DEF FlagsRead
      <4>2. i \in 1 .. arg
        BY <1>4
      <4> QED
        BY <2>5, <3>2, <4>1, <4>2
    <3> QED
      BY <3>1, <3>2
  <2>10. \A i \in 1 .. arg : args[i] # Operand /\ Acceptable(args[i][1], args[i][2])
    BY <1>2, <1>4, <1>7 DEF FlagsRead
  <2>11. /\ arg' \in 1 .. Len(args') + 1
         /\ \A i \in 1 .. arg' - 1 : args'[i] # Operand /\ Acceptable(args'[i][1], args'[i][2])
         /\ SoFar' \in [Names -> Seq(Raws')]
         /\ \A n \in Names : \A k \in 1 .. Len(SoFar'[n]) :
              \E i \in 1 .. arg' - 1 : args'[i][1] = n /\ args'[i][2] = SoFar'[n][k]
    <3>1. arg' = arg + 1 /\ arg' - 1 = arg /\ args' = args
      BY <1>2, <1>4, <2>1
    <3>2. arg' \in 1 .. Len(args') + 1
      BY <1>4, <3>1
    <3>3. \A i \in 1 .. arg' - 1 : args'[i] # Operand /\ Acceptable(args'[i][1], args'[i][2])
      BY <2>10, <3>1
    <3>4. SoFar' \in [Names -> Seq(Raws')]
      BY <1>5, <2>2, <2>7
    <3>5. \A n \in Names : \A k \in 1 .. Len(SoFar'[n]) :
            \E i \in 1 .. arg' - 1 : args'[i][1] = n /\ args'[i][2] = SoFar'[n][k]
      BY <2>2, <2>9, <3>1
    <3> QED
      BY <3>2, <3>3, <3>4, <3>5
  <2>12. SoFar["mail-receiver"] \in Seq(Raws)
    BY <2>3, NamesFacts
  <2>13. CASE name = "mail-receiver"
    <3>1. /\ receivers' = Append(IF changed THEN receivers ELSE <<>>, TrimSpace(raw))
          /\ changed' = TRUE /\ cfg' = cfg
      BY <1>7, <2>13 DEF ParseFlag, ReceiversAfter
    <3>2. (IF changed THEN receivers ELSE <<>>) = ParseCSVList(SoFar[name])
      <4>1. ParseCSVList(<<>>) = <<>>
        BY CsvStep, EmptySeq
      <4> QED
        BY <1>2, <2>13, <4>1 DEF FlagsRead, Configured, Chosen
    <3>3. ParseCSVList(after[name]) = AppendPart(ParseCSVList(SoFar[name]), raw)
      BY <2>3, <2>5, <2>12, <2>13, CsvStep
    <3>4. ~Blank(raw)
      BY <1>7, <2>13, AcceptableFacts
    <3>5. receivers' = ParseCSVList(after[name])
      BY <3>1, <3>2, <3>3, <3>4 DEF AppendPart
    <3>6. receivers' = ParseCSVList(Chosen(SoFar)')
      BY <2>2, <2>8, <2>13, <3>5 DEF Chosen
    <3>7. \A s \in Scalars : Latest(SoFar, s)' = Latest(SoFar, s)
      <4>1. \A s \in Scalars : s \in Names \ {name}
        BY <2>13, NamesFacts
      <4> QED
        BY <1>5, <2>2, <2>5, <4>1 DEF Latest
    <3>8. Configured'
      BY <1>2, <3>1, <3>6, <3>7 DEF Configured
    <3>9. changed' \in BOOLEAN /\ (changed' <=> after["mail-receiver"] # <<>>)
      BY <2>8, <2>13, <3>1
    <3>10. FlagsRead'
      BY <2>2, <2>11, <3>9 DEF FlagsRead
    <3> QED
      BY <1>2, <1>5, <2>1, <3>8, <3>10 DEF LoadInv, EnvironmentRead, PrecedenceHolds, LoadErrorIsEarned
  <2>14. CASE name # "mail-receiver"
    <3>1. /\ cfg' = [cfg EXCEPT ![name] = raw] /\ receivers' = receivers /\ changed' = changed
      BY <1>7, <2>14 DEF ParseFlag
    <3>2. name \in Scalars
      BY <2>3, <2>14 DEF Names
    <3>3. /\ Latest(SoFar, name)' = raw
          /\ \A s \in Scalars \ {name} : Latest(SoFar, s)' = Latest(SoFar, s)
      <4>1. \A s \in Scalars \ {name} : s \in Names \ {name}
        BY NamesFacts
      <4> QED
        BY <1>5, <2>2, <2>5, <2>8, <4>1 DEF Latest
    <3>4. cfg' = [s \in Scalars |-> Latest(SoFar, s)']
      BY <1>2, <3>1, <3>2, <3>3 DEF Configured
    <3>5. SoFar'["mail-receiver"] = SoFar["mail-receiver"]
      BY <2>2, <2>5, <2>14, NamesFacts
    <3>6. Chosen(SoFar)' = Chosen(SoFar)
      BY <1>2, <1>5, <3>5 DEF Chosen
    <3>7. Configured'
      BY <1>2, <3>1, <3>4, <3>6 DEF Configured
    <3>8. changed' \in BOOLEAN /\ (changed' <=> after["mail-receiver"] # <<>>)
      BY <1>2, <2>2, <3>1, <3>5 DEF FlagsRead
    <3>9. FlagsRead'
      BY <2>2, <2>11, <3>8 DEF FlagsRead
    <3> QED
      BY <1>2, <1>5, <2>1, <3>7, <3>9 DEF LoadInv, EnvironmentRead, PrecedenceHolds, LoadErrorIsEarned
  <2> QED
    BY <2>13, <2>14
<1> QED
  BY <1>6, <1>7

(* A sequence over any set is a sequence over its own elements.            *)
LEMMA OwnElements ==
  ASSUME NEW S, NEW s \in Seq(S)
  PROVE  IsSequence(s)
<1> DEFINE T == {s[i] : i \in DOMAIN s}
<1>1. \A i \in 1 .. Len(s) : s[i] \in T
  OBVIOUS
<1> HIDE DEF T
<1>2. s \in Seq(T)
  BY <1>1
<1> QED
  BY <1>2 DEF T, IsSequence

(* The receivers that are chosen are a finite sequence.                    *)
LEMMA ChosenType ==
  ASSUME Launched, NEW values \in [Names -> Seq(Raws)]
  PROVE  \E S : Chosen(values) \in Seq(S)
<1>1. values["mail-receiver"] \in Seq(Raws)
  BY NamesFacts
<1>2. Given("mail-receiver") =>
        environment["mail-receiver"]
          \in Seq({environment["mail-receiver"][i] : i \in DOMAIN environment["mail-receiver"]})
  BY DEF Launched, Given, IsSequence
<1>3. <<>> \in Seq(Raws)
  BY EmptySeq
<1> QED
  BY <1>1, <1>2, <1>3 DEF Chosen

(* The last validations of Load keep it.                                   *)
LEMMA FinishKeepsLoadInv == LoadInv /\ Launched /\ FinishLoad => LoadInv'
<1> SUFFICES ASSUME LoadInv, Launched, FinishLoad PROVE LoadInv'
  OBVIOUS
<1>1. /\ loading = "arguments" /\ EnvironmentRead /\ FlagsRead /\ Configured
      /\ arg <= Len(args) => args[arg] = Operand
      /\ UNCHANGED <<environment, args, receivers>>
  BY DEF LoadInv, FinishLoad
<1>2. /\ Flags = SubSeq(args, 1, arg - 1)
      /\ \A i \in 1 .. arg - 1 : i \in DOMAIN Flags /\ Flags[i] = args[i]
  BY <1>1, FlagsAre DEF FlagsRead, Launched
<1>3. Values = SoFar
  BY <1>2, ValuesAreFold DEF Values, SoFar
<1>4. Values \in [Names -> Seq(Raws)]
  BY <1>1, <1>3 DEF FlagsRead
<1>5. \A s \in Scalars : cfg[s] = Last(Said(s))
  BY <1>1, <1>3, <1>4, LastSaid DEF Configured
<1>6. CASE cfg["startup-jitter"] < 0 \/ Level(cfg["log-level"]) \notin Levels
  <2>1. BadJitter \/ BadLevel
    BY <1>6, <1>5, NamesFacts DEF BadJitter, BadLevel
  <2> QED
    BY <1>1, <1>6, <2>1, RefusalKeepsLoadInv DEF FinishLoad
<1>7. CASE ~(cfg["startup-jitter"] < 0 \/ Level(cfg["log-level"]) \notin Levels)
  <2>1. loading' = "loaded" /\ cfg' = [cfg EXCEPT !["log-level"] = Raw(Level(@), FALSE)]
    BY <1>7 DEF FinishLoad
  <2>2. /\ Flags' = Flags /\ Values' = Values /\ Raws' = Raws
        /\ \A v : Given(v)' = Given(v) /\ \A s : Said(s)' = Said(s)
    BY <1>1, Unmoved
  <2>3. /\ \A s \in Scalars \ {"log-level"} : cfg'[s] = Last(Said(s))
        /\ cfg'["log-level"].name = Level(Last(Said("log-level")))
    <3>1. DOMAIN cfg = Scalars
      BY <1>1 DEF Configured
    <3> QED
      BY <2>1, <1>5, <3>1, NamesFacts DEF Raw
  <2>4. /\ NamesOf(receivers) = NamesOf(Chosen(Values)) \ {NoName}
        /\ Len(receivers) = Cardinality(NamedAt(Chosen(Values)))
        /\ RealReceivers /\ IsSequence(receivers)
    <3>1. PICK S : Chosen(Values) \in Seq(S)
      BY <1>4, ChosenType
    <3>2. receivers = ParseCSVList(Chosen(Values))
      BY <1>1, <1>3 DEF Configured
    <3>3. receivers \in Seq({TrimSpace(raw) : raw \in S})
      BY <3>1, <3>2, CsvFacts
    <3> QED
      BY <3>1, <3>2, <3>3, CsvFacts, OwnElements DEF RealReceivers
  <2>5. PrecedenceHolds'
    <3>1. /\ {receivers[i].name : i \in DOMAIN receivers}
               = {Chosen(Values)[i].name : i \in DOMAIN Chosen(Values)} \ {NoName}
          /\ Len(receivers) = Cardinality({i \in DOMAIN Chosen(Values) : Chosen(Values)[i].name # NoName})
      BY <2>4 DEF NamesOf, NamedAt
    <3>2. Chosen(Values)' = Chosen(Values)
      BY <1>1, <2>2 DEF Chosen
    <3> DEFINE given == Chosen(Values)
    <3>3. given' = given /\ receivers' = receivers
      BY <1>1, <3>2
    <3>4. given' = IF Values'["mail-receiver"] # <<>> THEN Values'["mail-receiver"]
                   ELSE IF Given("mail-receiver")' THEN environment'["mail-receiver"] ELSE <<>>
      BY DEF Chosen
    <3> HIDE DEF given
    <3>5. /\ {receivers'[i].name : i \in DOMAIN receivers'}
               = {given'[i].name : i \in DOMAIN given'} \ {NoName}
          /\ Len(receivers') = Cardinality({i \in DOMAIN given' : given'[i].name # NoName})
      BY <3>1, <3>3 DEF given
    <3>6. \A s \in Scalars \ {"log-level"} : cfg'[s] = Last(Said(s))'
      BY <2>2, <2>3
    <3>7. cfg'["log-level"].name = Level(Last(Said("log-level")))'
      BY <2>2, <2>3
    <3> QED
      BY <3>4, <3>5, <3>6, <3>7 DEF PrecedenceHolds
  <2>6. ~BadVariable
    <3>1. HasConfigDir /\ \A s \in Scalars : FromEnvironment(s) # Unparsable
      BY <1>1 DEF EnvironmentRead
    <3>2. ASSUME NEW v \in DOMAIN environment, environment[v] = Unparsable PROVE FALSE
      <4>1. v \in Numbers \cup Switches
        <5>1. v # XDGConfigHome
          BY <3>1, <3>2, DefaultsAssumption DEF HasConfigDir, Given
        <5> QED
          BY <3>2, <5>1 DEF Launched
      <4>2. v \in Scalars /\ Given(v)
        BY <3>2, <4>1, NamesFacts, DefaultsAssumption DEF Given
      <4> QED
        BY <3>1, <3>2, <4>2, FromEnvironmentIs
    <3> QED
      BY <3>1, <3>2 DEF BadVariable, HasConfigDir
  <2>7. ~BadFlag
    <3>1. arg \in 1 .. Len(args) + 1 /\ Len(args) \in Nat /\ args \in Seq({args[i] : i \in DOMAIN args})
      BY <1>1, ArgsType DEF FlagsRead, Launched
    <3>2. DOMAIN Flags = 1 .. arg - 1
      <4> DEFINE W == {args[i] : i \in DOMAIN args}
      <4> HIDE DEF W
      <4>1. args \in Seq(W)
        BY <3>1 DEF W
      <4>2. SubSeq(args, 1, arg - 1) \in Seq(W) /\ Len(SubSeq(args, 1, arg - 1)) = arg - 1
        BY <3>1, <4>1, SubSeqProperties
      <4> QED
        BY <1>2, <4>2
    <3> QED
      BY <1>1, <1>2, <3>2 DEF BadFlag, FlagsRead
  <2>8. cfg'["startup-jitter"] >= 0 /\ cfg'["log-level"].name \in Levels
    <3>1. cfg["startup-jitter"] \in Int /\ cfg'["startup-jitter"] = cfg["startup-jitter"]
      BY <1>1, <2>1, JitterFrom, NamesFacts DEF Configured
    <3>2. cfg'["log-level"].name = Level(cfg["log-level"])
      BY <1>1, <2>1, NamesFacts DEF Raw, Configured
    <3> QED
      BY <1>7, <3>1, <3>2
  <2>9. LoadErrorIsEarned'
    <3>1. BadVariable' = BadVariable /\ BadFlag' = BadFlag
      BY <1>1, <2>2 DEF BadVariable, BadFlag
    <3>2. ~BadVariable' /\ ~BadFlag'
      BY <2>6, <2>7, <3>1
    <3> QED
      BY <2>1, <2>8, <3>2 DEF LoadErrorIsEarned, BadVariable, BadFlag
  <2>10. RealReceivers' /\ IsSequence(receivers)'
    BY <1>1, <2>4 DEF RealReceivers
  <2> QED
    BY <2>1, <1>4, <2>2, <2>5, <2>9, <2>10 DEF LoadInv
<1> QED
  BY <1>6, <1>7

(* What leaves the configuration alone keeps it.                           *)
LEMMA QuietKeepsLoadInv == LoadInv /\ UNCHANGED configVars => LoadInv'
<1> SUFFICES ASSUME LoadInv, UNCHANGED configVars PROVE LoadInv'
  OBVIOUS
<1>1. UNCHANGED <<environment, args, loading, arg, cfg, receivers, changed>>
  BY DEF configVars
<1>2. /\ Flags' = Flags /\ Values' = Values /\ Raws' = Raws
      /\ \A v : Given(v)' = Given(v) /\ \A s : Said(s)' = Said(s)
      /\ \A s : FromEnvironment(s)' = FromEnvironment(s)
      /\ HasConfigDir' = HasConfigDir
  BY <1>1, Unmoved
<1>3. SoFar' = SoFar
  BY <1>1 DEF SoFar
<1>4. FlagsRead' = FlagsRead
  BY <1>1, <1>2, <1>3 DEF FlagsRead
<1>5. Configured' = Configured
  BY <1>1, <1>2, <1>3 DEF Configured, Latest, Chosen
<1>6. PrecedenceHolds'
  <2> DEFINE given == IF Values["mail-receiver"] # <<>> THEN Values["mail-receiver"]
                      ELSE IF Given("mail-receiver") THEN environment["mail-receiver"] ELSE <<>>
  <2> SUFFICES ASSUME loading' = "loaded"
               PROVE  /\ \A s \in Scalars \ {"log-level"} : cfg'[s] = Last(Said(s))'
                      /\ cfg'["log-level"].name = Level(Last(Said("log-level")))'
                      /\ {receivers'[i].name : i \in DOMAIN receivers'}
                           = {given'[i].name : i \in DOMAIN given'} \ {NoName}
                      /\ Len(receivers') = Cardinality({i \in DOMAIN given' : given'[i].name # NoName})
    BY DEF PrecedenceHolds
  <2>1. given' = given
    BY <1>1, <1>2
  <2>2. /\ \A s \in Scalars \ {"log-level"} : cfg[s] = Last(Said(s))
        /\ cfg["log-level"].name = Level(Last(Said("log-level")))
        /\ {receivers[i].name : i \in DOMAIN receivers}
             = {given[i].name : i \in DOMAIN given} \ {NoName}
        /\ Len(receivers) = Cardinality({i \in DOMAIN given : given[i].name # NoName})
    BY <1>1 DEF LoadInv, PrecedenceHolds
  <2> HIDE DEF given
  <2> QED
    BY <1>1, <1>2, <2>1, <2>2
<1>7. LoadErrorIsEarned' = LoadErrorIsEarned
  BY <1>1, <1>2 DEF LoadErrorIsEarned
<1> QED
  BY <1>1, <1>2, <1>4, <1>5, <1>6, <1>7 DEF LoadInv, EnvironmentRead, RealReceivers

(* Every step of Load keeps it.                                            *)
LEMMA LoadNextKeepsLoadInv == LoadInv /\ Launched /\ LoadNext => LoadInv' /\ Launched'
<1> SUFFICES ASSUME LoadInv, Launched, LoadNext PROVE LoadInv' /\ Launched'
  OBVIOUS
<1>1. LoadInv'
  BY EnvironmentKeepsLoadInv, FlagKeepsLoadInv, FinishKeepsLoadInv DEF LoadNext
<1>2. UNCHANGED <<environment, args>>
  BY DEF LoadNext, ReadEnvironment, ParseFlag, FinishLoad
<1> QED
  BY <1>1, <1>2 DEF Launched

-------------------------------------------------------------------------------
(* main, from its first line to serving or gone.                           *)

(* Each of told is of the receiver whose turn it was, and no Send that was *)
(* not tried came before the deadline or before one that was.              *)
Told ==
  /\ told \in Seq([to: {RecipientsToTell[i] : i \in DOMAIN RecipientsToTell},
                   result: {"sent", "failed", "untried"}])
  /\ Len(told) <= Len(RecipientsToTell)
  /\ \A i \in 1 .. Len(told) :
       /\ told[i].to = RecipientsToTell[i]
       /\ told[i].result = "untried" =>
            sendExpired /\ \A j \in i .. Len(told) : told[j].result = "untried"

MainInv ==
  /\ main = "load" => phase = "resolve"
  /\ main \in {"load", "parse", "server", "serving"} => told = <<>>
  /\ main \in {"parse", "notify", "server", "serving"} => loading = "loaded" /\ mailOn = MailNew
  /\ main = "notify" => phase = "rejected" /\ Told
  /\ main \in {"server", "serving"} => phase = "accepted"
  /\ main = "exited" /\ loading = "loaded" => phase \in {"accepted", "rejected"}
  /\ ParseFailureIsTold
  /\ NeverOpenByMistake

StartupInv == ParseInv /\ Launched /\ LoadInv /\ MainInv

(* The process starts in its invariant.                                    *)
LEMMA InitStartupInv == StartupInit => StartupInv
<1> SUFFICES ASSUME StartupInit PROVE StartupInv
  OBVIOUS
<1>1. ParseInv /\ files \in Directories /\ phase = "resolve"
  BY InitParseInv DEF StartupInit, Init, Unparsed
<1>2. Launched
  <2>1. PICK launch \in Launches(files) : environment = launch[1] /\ args = launch[2]
    BY DEF StartupInit
  <2> QED
    BY <1>1, <2>1, LaunchesAssumption DEF Launched
<1>3. LoadInv
  BY DEF StartupInit, LoadInit, LoadInv, PrecedenceHolds, LoadErrorIsEarned
<1>4. MainInv
  BY <1>1 DEF StartupInit, MainInv, ParseFailureIsTold, NeverOpenByMistake
<1> QED
  BY <1>1, <1>2, <1>3, <1>4 DEF StartupInv

(* What the two settings of basic authentication are in the end.           *)
LEMMA AuthSaid ==
  ASSUME LoadInv, loading = "loaded",
         NEW s \in {"http-basic-auth-username", "http-basic-auth-password"}
  PROVE  cfg[s] # Empty <=> IF Values[s] # <<>> THEN Last(Values[s]) # Empty ELSE Given(s)
<1>1. s \in Scalars /\ s # "log-level" /\ Defaults[s] = Empty
  <2>1. s \in Texts /\ s # "log-level"
    BY DEF Texts
  <2>2. CASE s = "http-basic-auth-username"
    BY <2>1, <2>2 DEF Scalars, Defaults
  <2>3. CASE s = "http-basic-auth-password"
    BY <2>1, <2>3 DEF Scalars, Defaults
  <2> QED
    BY <2>2, <2>3
<1>2. cfg[s] = Latest(Values, s)
  BY <1>1, LastSaid DEF LoadInv, PrecedenceHolds
<1>3. FromEnvironment(s) # Empty <=> Given(s)
  BY <1>1, FromEnvironmentIs DEF Given
<1> QED
  BY <1>2, <1>3 DEF Latest

(* The service is built exactly when README.md calls mail configured.      *)
LEMMA MailNewIsConfigured ==
  ASSUME LoadInv, loading = "loaded"
  PROVE  MailNew <=> MailIsConfigured
<1>1. \A i \in DOMAIN receivers : receivers[i] # Raw(NoName, FALSE)
  BY DEF LoadInv, RealReceivers
<1>2. {"mail-endpoint", "mail-username", "mail-password", "mail-sender"} \subseteq Texts
  BY DEF Texts
<1> QED
  BY <1>1, <1>2 DEF MailNew, MailIsConfigured

(* The steps that leave the configuration and the specs alone.             *)
LEMMA MainOnly ==
  ASSUME UNCHANGED <<vars, configVars>>
  PROVE  /\ MailNew' = MailNew /\ MailIsConfigured' = MailIsConfigured
         /\ Values' = Values /\ \A v : Given(v)' = Given(v)
         /\ phase' = phase /\ loading' = loading /\ receivers' = receivers
<1>1. UNCHANGED <<environment, args, phase, loading, cfg, receivers>>
  BY DEF vars, configVars
<1>2. MailNew' = MailNew /\ MailIsConfigured' = MailIsConfigured
  BY <1>1 DEF MailNew, MailIsConfigured
<1> QED
  BY <1>1, <1>2, Unmoved

(* Those to be told of a parse failure are a finite sequence.              *)
LEMMA RecipientsType ==
  ASSUME LoadInv, loading = "loaded"
  PROVE  /\ RecipientsToTell \in Seq({RecipientsToTell[i] : i \in DOMAIN RecipientsToTell})
         /\ Len(RecipientsToTell) \in Nat
         /\ \A i \in 1 .. Len(RecipientsToTell) : i \in DOMAIN RecipientsToTell
<1>1. receivers \in Seq({receivers[i] : i \in DOMAIN receivers})
  BY DEF LoadInv, IsSequence
<1>2. CASE mailOn
  BY <1>1, <1>2 DEF RecipientsToTell
<1>3. CASE ~mailOn
  <2>1. RecipientsToTell = <<>>
    BY <1>3 DEF RecipientsToTell
  <2> QED
    BY <2>1, EmptySeq
<1> QED
  BY <1>2, <1>3

(* Steps of Load keep the invariant of main.                               *)
LEMMA LoadKeepsStartupInv == StartupInv /\ LoadConfiguration => StartupInv'
<1> SUFFICES ASSUME StartupInv, LoadConfiguration PROVE StartupInv'
  OBVIOUS
<1>1. UNCHANGED vars /\ UNCHANGED mainVars /\ main = "load" /\ LoadNext
  BY DEF LoadConfiguration
<1>2. ParseInv' /\ LoadInv' /\ Launched'
  BY <1>1, NextKeepsParseInv, LoadNextKeepsLoadInv DEF StartupInv
<1>3. MainInv'
  BY <1>1 DEF StartupInv, MainInv, vars, mainVars, noticeVars, ParseFailureIsTold, NeverOpenByMistake
<1> QED
  BY <1>2, <1>3 DEF StartupInv

(* Steps of Parse keep it.                                                 *)
LEMMA ParseKeepsStartupInv == StartupInv /\ ParseSpecs => StartupInv'
<1> SUFFICES ASSUME StartupInv, ParseSpecs PROVE StartupInv'
  OBVIOUS
<1>1. UNCHANGED configVars /\ UNCHANGED mainVars /\ main = "parse" /\ Next
  BY DEF ParseSpecs
<1>2. ParseInv' /\ LoadInv' /\ Launched'
  BY <1>1, NextKeepsParseInv, QuietKeepsLoadInv DEF StartupInv, Launched, configVars
<1>3. MailNew' = MailNew /\ loading' = loading
  BY <1>1 DEF MailNew, configVars
<1>4. MainInv'
  BY <1>1, <1>3 DEF StartupInv, MainInv, mainVars, noticeVars, ParseFailureIsTold, NeverOpenByMistake
<1> QED
  BY <1>2, <1>4 DEF StartupInv

(* Every other step is main's own.                                         *)
LEMMA MainKeepsStartupInv ==
  ASSUME StartupInv, UNCHANGED <<vars, configVars>>, MainInv'
  PROVE  StartupInv'
<1>1. ParseInv' /\ LoadInv' /\ Launched'
  BY NextKeepsParseInv, QuietKeepsLoadInv DEF StartupInv, Launched, configVars
<1> QED
  BY <1>1 DEF StartupInv

(* One more receiver has its turn, the next one in order.                  *)
LEMMA NotifyKeepsMainInv == StartupInv /\ NotifySpecParseFailure => MainInv'
<1> SUFFICES ASSUME StartupInv, NotifySpecParseFailure PROVE MainInv'
  OBVIOUS
<1> DEFINE R == RecipientsToTell
           T == [to: {R[i] : i \in DOMAIN R}, result: {"sent", "failed", "untried"}]
           Late(t) == t.result = "untried"
<1>1. /\ main = "notify" /\ Len(told) < Len(R)
      /\ UNCHANGED <<vars, configVars, main, mailOn, sendExpired, protected>>
  BY DEF NotifySpecParseFailure
<1>2. PICK one \in T : /\ told' = Append(told, one) /\ one.to = R[Len(told) + 1]
                       /\ Late(one) <=> sendExpired
  <2>1. PICK result \in SendResults :
          told' = Append(told, [to |-> R[Len(told) + 1], result |-> result])
    BY DEF NotifySpecParseFailure
  <2>2. result \in {"sent", "failed", "untried"} /\ (result = "untried" <=> sendExpired)
    BY <2>1 DEF SendResults
  <2>3. Len(told) + 1 \in DOMAIN R
    <3>1. Told /\ LoadInv /\ loading = "loaded"
      BY <1>1 DEF StartupInv, MainInv
    <3>2. Len(told) \in Nat
      BY <3>1, LenProperties DEF Told
    <3> QED
      BY <1>1, <3>1, <3>2, RecipientsType
  <2>4. R[Len(told) + 1] \in {R[i] : i \in DOMAIN R}
    BY <2>3
  <2> HIDE DEF R
  <2> QED
    BY <2>1, <2>2, <2>4
<1>3. /\ phase = "rejected" /\ Told /\ loading = "loaded" /\ LoadInv /\ mailOn = MailNew
  BY <1>1 DEF StartupInv, MainInv
<1>4. Len(R) \in Nat
  BY <1>3, RecipientsType
<1>5. R' = R
  BY <1>1 DEF RecipientsToTell, configVars
<1>6. T' = T
  BY <1>5
<1>7. told \in Seq(T) /\ Len(told) \in Nat
  BY <1>3, LenProperties DEF Told
<1>8. \A i \in 1 .. Len(told) :
        /\ told[i].to = R[i]
        /\ Late(told[i]) => sendExpired /\ \A j \in i .. Len(told) : Late(told[j])
  BY <1>3 DEF Told
<1> HIDE DEF R, T, Late
<1>9. /\ told' \in Seq(T) /\ Len(told') = Len(told) + 1 /\ told'[Len(told) + 1] = one
      /\ \A i \in 1 .. Len(told) : told'[i] = told[i]
  BY <1>2, <1>7, AppendProperties
<1>10. \A i \in 1 .. Len(told') : i = Len(told) + 1 \/ i \in 1 .. Len(told)
  BY <1>7, <1>9
<1>11. ASSUME NEW i \in 1 .. Len(told')
       PROVE  /\ told'[i].to = R[i]
              /\ Late(told'[i]) => sendExpired /\ \A j \in i .. Len(told') : Late(told'[j])
  <2>1. told'[i].to = R[i]
    BY <1>2, <1>8, <1>9, <1>10, <1>11
  <2>2. Late(told'[i]) => sendExpired
    BY <1>2, <1>8, <1>9, <1>10, <1>11
  <2>3. ASSUME Late(told'[i]), NEW j \in i .. Len(told') PROVE Late(told'[j])
    <3>1. CASE j = Len(told) + 1
      BY <1>2, <1>9, <2>2, <2>3, <3>1
    <3>2. CASE j # Len(told) + 1
      <4>1. j \in i .. Len(told) /\ i \in 1 .. Len(told) /\ j \in 1 .. Len(told)
        BY <1>7, <1>9, <1>11, <2>3, <3>2
      <4> QED
        BY <1>8, <1>9, <2>3, <4>1
    <3> QED
      BY <3>1, <3>2
  <2> QED
    BY <2>1, <2>2, <2>3
<1>12. Len(told') <= Len(R)
  BY <1>1, <1>4, <1>7, <1>9
<1>13. sendExpired' = sendExpired
  BY <1>1
<1>14. Told'
  BY <1>5, <1>6, <1>9, <1>11, <1>12, <1>13 DEF Told, R, T, Late
<1>15. /\ main' = "notify" /\ phase' = "rejected" /\ loading' = "loaded" /\ mailOn' = MailNew'
  BY <1>1, <1>3, MainOnly
<1> QED
  BY <1>14, <1>15 DEF MainInv, ParseFailureIsTold, NeverOpenByMistake

(* The deadline of the mails is over.                                      *)
LEMMA DeadlineKeepsMainInv == StartupInv /\ NoticeDeadline => MainInv'
<1> SUFFICES ASSUME StartupInv, NoticeDeadline PROVE MainInv'
  OBVIOUS
<1>1. /\ main = "notify" /\ sendExpired'
      /\ UNCHANGED <<vars, configVars, main, mailOn, told, protected>>
  BY DEF NoticeDeadline
<1>2. /\ phase = "rejected" /\ Told /\ loading = "loaded" /\ mailOn = MailNew
  BY <1>1 DEF StartupInv, MainInv
<1>3. RecipientsToTell' = RecipientsToTell
  BY <1>1 DEF RecipientsToTell, configVars
<1>4. Told'
  BY <1>1, <1>2, <1>3 DEF Told
<1>5. /\ main' = "notify" /\ phase' = "rejected" /\ loading' = "loaded" /\ mailOn' = MailNew'
  BY <1>1, <1>2, MainOnly
<1> QED
  BY <1>4, <1>5 DEF MainInv, ParseFailureIsTold, NeverOpenByMistake

(* The process is gone only when every receiver has had its turn.          *)
LEMMA ExitKeepsMainInv == StartupInv /\ ExitAfterNotice => MainInv'
<1> SUFFICES ASSUME StartupInv, ExitAfterNotice PROVE MainInv'
  OBVIOUS
<1>1. /\ main = "notify" /\ Len(told) = Len(RecipientsToTell) /\ main' = "exited"
      /\ UNCHANGED <<vars, configVars, mailOn, told, sendExpired, protected>>
  BY DEF ExitAfterNotice, noticeVars
<1>2. /\ phase = "rejected" /\ Told /\ loading = "loaded" /\ LoadInv /\ mailOn = MailNew
  BY <1>1 DEF StartupInv, MainInv
<1>3. RecipientsToTell = IF MailIsConfigured THEN receivers ELSE <<>>
  BY <1>2, MailNewIsConfigured DEF RecipientsToTell
<1>4. Len(told) = IF MailIsConfigured THEN Len(receivers) ELSE 0
  BY <1>1, <1>3
<1>5. \A i \in 1 .. Len(told) : told[i].to = receivers[i]
  BY <1>2, <1>3, <1>4 DEF Told
<1>6. /\ MailIsConfigured' = MailIsConfigured /\ phase' = phase /\ loading' = loading
      /\ receivers' = receivers /\ told' = told /\ sendExpired' = sendExpired
  BY <1>1, MainOnly
<1>7. ParseFailureIsTold'
  BY <1>1, <1>2, <1>4, <1>5, <1>6 DEF ParseFailureIsTold, Told
<1> QED
  BY <1>1, <1>2, <1>6, <1>7 DEF MainInv, NeverOpenByMistake

(* The server is built protected exactly if username or password were asked*)
(* for.                                                                    *)
LEMMA ServerKeepsMainInv == StartupInv /\ NewServer => MainInv'
<1> SUFFICES ASSUME StartupInv, NewServer PROVE MainInv'
  OBVIOUS
<1> DEFINE user == "http-basic-auth-username"
           word == "http-basic-auth-password"
           Asked(s) == IF Values[s] # <<>> THEN Last(Values[s]) # Empty ELSE Given(s)
<1>1. /\ main = "server" /\ UNCHANGED <<vars, configVars, mailOn, told>>
  BY DEF NewServer, noticeVars
<1>2. /\ phase = "accepted" /\ told = <<>> /\ loading = "loaded" /\ LoadInv /\ mailOn = MailNew
  BY <1>1 DEF StartupInv, MainInv
<1>3. /\ phase' = "accepted" /\ told' = <<>> /\ loading' = "loaded" /\ mailOn' = MailNew'
      /\ Values' = Values /\ \A v : Given(v)' = Given(v)
  BY <1>1, <1>2, MainOnly
<1>4. CASE SoundServer
  <2>1. main' = "serving" /\ protected' = (cfg[user] # Empty)
    BY <1>4 DEF NewServer
  <2>2. cfg[user] # Empty <=> cfg[word] # Empty
    BY <1>4 DEF SoundServer, WantsAuth
  <2>3. /\ cfg[user] # Empty <=> Asked(user)
        /\ cfg[word] # Empty <=> Asked(word)
    BY <1>2, AuthSaid
  <2>4. protected' <=> \E s \in {user, word} : Asked(s)
    BY <2>1, <2>2, <2>3
  <2>5. \A s : Asked(s)' <=> Asked(s)
    BY <1>3
  <2>6. protected' <=> \E s \in {user, word} : Asked(s)'
    BY <2>4, <2>5
  <2>7. NeverOpenByMistake'
    BY <2>1, <2>6 DEF NeverOpenByMistake
  <2> QED
    BY <1>3, <2>1, <2>7 DEF MainInv, ParseFailureIsTold
<1>5. CASE ~SoundServer
  <2>1. main' = "exited"
    BY <1>5 DEF NewServer
  <2> QED
    BY <1>3, <2>1 DEF MainInv, ParseFailureIsTold, NeverOpenByMistake
<1> QED
  BY <1>4, <1>5

(* Every step of main keeps it.                                            *)
LEMMA NextKeepsStartupInv == StartupInv /\ [StartupNext]_startupVars => StartupInv'
<1> SUFFICES ASSUME StartupInv, [StartupNext]_startupVars PROVE StartupInv'
  OBVIOUS
<1>1. CASE LoadConfiguration
  BY <1>1, LoadKeepsStartupInv
<1>2. CASE LoadFails
  <2>1. /\ main = "load" /\ loading = "refused" /\ main' = "exited"
        /\ UNCHANGED <<vars, configVars>> /\ phase = "resolve"
    BY <1>2 DEF LoadFails, StartupInv, MainInv
  <2>2. phase' = "resolve" /\ loading' = "refused"
    BY <2>1, MainOnly
  <2>3. MainInv'
    BY <2>1, <2>2 DEF MainInv, ParseFailureIsTold, NeverOpenByMistake
  <2> QED
    BY <2>1, <2>3, MainKeepsStartupInv
<1>3. CASE InitializeMailService
  <2>1. /\ main = "load" /\ loading = "loaded" /\ main' = "parse" /\ mailOn' = MailNew
        /\ told = <<>> /\ told' = told /\ UNCHANGED <<vars, configVars>>
    BY <1>3 DEF InitializeMailService, StartupInv, MainInv, noticeVars
  <2>2. loading' = "loaded" /\ MailNew' = MailNew
    BY <2>1, MainOnly
  <2>3. MainInv'
    BY <2>1, <2>2 DEF MainInv, ParseFailureIsTold, NeverOpenByMistake
  <2> QED
    BY <2>1, <2>3, MainKeepsStartupInv
<1>4. CASE ParseSpecs
  BY <1>4, ParseKeepsStartupInv
<1>5. CASE ParseReturns
  <2>1. /\ main = "parse" /\ phase \in {"accepted", "rejected"}
        /\ main' = IF phase = "accepted" THEN "server" ELSE "notify"
        /\ UNCHANGED <<vars, configVars, mailOn, told, protected>>
        /\ loading = "loaded" /\ mailOn = MailNew /\ told = <<>> /\ LoadInv
    BY <1>5 DEF ParseReturns, StartupInv, MainInv, noticeVars
  <2>2. loading' = "loaded" /\ mailOn' = MailNew' /\ phase' = phase /\ told' = <<>>
    BY <2>1, MainOnly
  <2>3. Told'
    <3>1. Len(RecipientsToTell) \in Nat
      BY <2>1, RecipientsType
    <3>2. RecipientsToTell' = RecipientsToTell
      BY <2>1 DEF RecipientsToTell, configVars
    <3>3. Len(told') = 0 /\ Len(told') <= Len(RecipientsToTell') /\ \A i \in 1 .. Len(told') : FALSE
      BY <2>2, <3>1, <3>2
    <3>4. told' \in Seq([to: {RecipientsToTell'[i] : i \in DOMAIN RecipientsToTell'},
                         result: {"sent", "failed", "untried"}])
      BY <2>2, EmptySeq
    <3> QED
      BY <3>3, <3>4 DEF Told
  <2>4. MainInv'
    BY <2>1, <2>2, <2>3 DEF MainInv, ParseFailureIsTold, NeverOpenByMistake
  <2> QED
    BY <2>1, <2>4, MainKeepsStartupInv
<1>6. CASE NotifySpecParseFailure
  BY <1>6, NotifyKeepsMainInv, MainKeepsStartupInv DEF NotifySpecParseFailure
<1>7. CASE NoticeDeadline
  BY <1>7, DeadlineKeepsMainInv, MainKeepsStartupInv DEF NoticeDeadline
<1>8. CASE ExitAfterNotice
  BY <1>8, ExitKeepsMainInv, MainKeepsStartupInv DEF ExitAfterNotice
<1>9. CASE NewServer
  BY <1>9, ServerKeepsMainInv, MainKeepsStartupInv DEF NewServer
<1>10. CASE UNCHANGED startupVars
  <2>1. UNCHANGED <<vars, configVars>> /\ UNCHANGED <<main, mailOn, told, sendExpired, protected>>
    BY <1>10 DEF startupVars, mainVars, noticeVars
  <2>2. RecipientsToTell' = RecipientsToTell
    BY <2>1 DEF RecipientsToTell, configVars
  <2>3. Told' = Told
    BY <2>1, <2>2 DEF Told
  <2>4. NeverOpenByMistake'
    <3> DEFINE Asked(s) == IF Values[s] # <<>> THEN Last(Values[s]) # Empty ELSE Given(s)
               auth == {"http-basic-auth-username", "http-basic-auth-password"}
    <3>1. \A s : Asked(s)' <=> Asked(s)
      BY <2>1, MainOnly
    <3>2. main = "serving" => protected = \E s \in auth : Asked(s)
      BY DEF StartupInv, MainInv, NeverOpenByMistake
    <3>3. main' = "serving" => protected' = \E s \in auth : Asked(s)'
      BY <2>1, <3>1, <3>2
    <3> QED
      BY <3>3 DEF NeverOpenByMistake
  <2>5. ParseFailureIsTold'
    BY <2>1, MainOnly DEF StartupInv, MainInv, ParseFailureIsTold
  <2>6. MainInv'
    BY <2>1, <2>3, <2>4, <2>5, MainOnly DEF StartupInv, MainInv
  <2> QED
    BY <2>1, <2>6, MainKeepsStartupInv
<1> QED
  BY <1>1, <1>2, <1>3, <1>4, <1>5, <1>6, <1>7, <1>8, <1>9, <1>10 DEF StartupNext

-------------------------------------------------------------------------------
(* The theorems.                                                           *)

(* Any specs Parse accepts, out of any number of files and documents, have *)
(* names, pairwise different identities and no negative interval: the      *)
(* assumption under which Runner models one goroutine and one entry of the *)
(* store per spec.                                                         *)
THEOREM AcceptedSpecsSuitRunner == Spec => []AcceptedSuitsRunner
  BY ParseInvariance, IInvSuits, PTL

(* The invariant holds of any launch: any spec files, any environment and  *)
(* any command line.                                                       *)
THEOREM StartupInvariance == StartupSpec => []StartupInv
  BY InitStartupInv, NextKeepsStartupInv, PTL DEF StartupSpec

(* The same of the specs a process is started with, whatever its           *)
(* configuration (main, Parse).                                            *)
THEOREM StartupSuitsRunner == StartupSpec => []AcceptedSuitsRunner
<1>1. StartupInv => AcceptedSuitsRunner
  BY IInvSuits DEF StartupInv, ParseInv
<1> QED
  BY <1>1, StartupInvariance, PTL

(* What is accepted of any files is all they say: every document that is   *)
(* not empty, in the order of the files (parseSpecFile, Parse).            *)
THEOREM EveryDocumentIsKept == StartupSpec => []NothingIsLost
<1>1. StartupInv => NothingIsLost
  BY DEF StartupInv, ParseInv, ReadInv, NothingIsLost
<1> QED
  BY <1>1, StartupInvariance, PTL

(* Of any number of flags and variables the last flag decides, else the    *)
(* variable, else the default, and receivers are never mixed (Load).       *)
THEOREM PrecedenceAlwaysHolds == StartupSpec => []PrecedenceHolds
<1>1. StartupInv => PrecedenceHolds
  BY DEF StartupInv, LoadInv
<1> QED
  BY <1>1, StartupInvariance, PTL

(* No configuration and no spec file is refused that has nothing wrong     *)
(* with it, and none is loaded that has (Load, Parse).                     *)
THEOREM RefusalsAreEarned == StartupSpec => []RefusalIsEarned
<1>1. StartupInv => RefusalIsEarned
  BY DEF StartupInv, ParseInv, ReadInv, LoadInv, RefusalIsEarned
<1> QED
  BY <1>1, StartupInvariance, PTL

(* Before a process is gone for its spec files every receiver there is has *)
(* had its turn, once and in order, if mail is configured at all, and none *)
(* of them goes untried before the one deadline that all the mails share   *)
(* (main, notifySpecParseFailure, Send).                                   *)
THEOREM ParseFailuresAreTold == StartupSpec => []ParseFailureIsTold
<1>1. StartupInv => ParseFailureIsTold
  BY DEF StartupInv, MainInv
<1> QED
  BY <1>1, StartupInvariance, PTL

(* Whatever is said of username and password, in whatever place: who says  *)
(* anything gets a page that asks for both, or none (main, WithBasicAuth). *)
THEOREM NoOpenPageByMistake == StartupSpec => []NeverOpenByMistake
<1>1. StartupInv => NeverOpenByMistake
  BY DEF StartupInv, MainInv
<1> QED
  BY <1>1, StartupInvariance, PTL
==============================================================================
