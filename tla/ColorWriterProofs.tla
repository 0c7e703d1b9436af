-------------------------- MODULE ColorWriterProofs --------------------------
(***************************************************************************)
(* For every sequence of records and every way in which the target may     *)
(* fail, the coloured log is complete and in order, the queue is no longer *)
(* than the calls that have failed in a row, and every line that arrives   *)
(* whole reads as it was logged.                                           *)
(*                                                                         *)
(* The last of these is about the code that splits a rendered line again:  *)
(* by induction over the symbols of a value and the attributes of a record *)
(* (SequenceFolds), the scanner is at a token's end exactly where an       *)
(* attribute ends, whatever quotes, blanks and backslashes are in between. *)
(***************************************************************************)
EXTENDS ColorWriter, SequenceTheorems, TLAPS

Texts == {Rendered(record) : record \in UNION {Records[n] : n \in Nat}}
Forms(line) == {line, ColorizeSlogTextLine(line)}
Written == UNION {Forms(line) : line \in Texts}
Beginnings == UNION {{SubSeq(whole, 1, k) : k \in Cuts} : whole \in Written}
Parts == Written \union Beginnings
Chunks == [n : Nat, text : Parts, whole : BOOLEAN]

Types ==
  /\ logged \in Seq(Texts)
  /\ pending \in Seq(Texts)
  /\ stream \in Seq(Chunks)
  /\ writing \in BOOLEAN
  /\ result \in {"nil", "error"}
  /\ failures \in Nat

InTurn ==
  \A i \in DOMAIN stream : stream[i].n = IF i = 1 THEN 1 ELSE LineAfter(stream[i - 1])

QueueIsRest ==
  /\ Due \in 1..(Len(logged) + 1)
  /\ pending = SubSeq(logged, Due, Len(logged))

Complete ==
  \A n \in 1..(Due - 1) : \E i \in DOMAIN stream : stream[i].n = n /\ stream[i].whole

(* What the three properties need of each other: a nil leaves the queue    *)
(* empty, and then Due has passed every line.                              *)
QueueInv ==
  /\ Types
  /\ colorize => InTurn /\ QueueIsRest /\ Complete
  /\ ~colorize => Len(pending) =< IF writing THEN 1 ELSE 0
  /\ ~writing /\ result = "nil" => pending = <<>>
  /\ BacklogIsFailures

(* What a line becomes is something that can be written.                   *)
LEMMA OutIsWritten ==
  ASSUME NEW line \in Texts
  PROVE  Out(line) \in Written
BY DEF Out, Written, Forms

(* And a part of it is a beginning of that.                                *)
LEMMA BeginningTyped ==
  ASSUME NEW text \in Written, NEW taken \in Cuts
  PROVE  SubSeq(text, 1, taken) \in Beginnings
<1> DEFINE Of(whole) == {SubSeq(whole, 1, k) : k \in Cuts}
<1>1. SubSeq(text, 1, taken) \in Of(text)
  OBVIOUS
<1>2. Of(text) \in {Of(whole) : whole \in Written}
  <2> HIDE DEF Of
  <2> QED
    OBVIOUS
<1> QED
  BY <1>1, <1>2 DEF Beginnings

(* The writer starts in the invariant.                                     *)
LEMMA InitQueue == Init => QueueInv
<1> SUFFICES ASSUME Init PROVE QueueInv
  OBVIOUS
<1>1. Types
  <2>1. <<>> \in Seq(Texts) /\ <<>> \in Seq(Chunks)
    OBVIOUS
  <2> QED
    BY <2>1 DEF Init, Types
<1>2. InTurn /\ QueueIsRest /\ Complete
  <2>1. Due = 1 /\ Len(logged) = 0
    BY DEF Init, Due
  <2>2. SubSeq(logged, 1, 0) = <<>>
    BY DEF Init
  <2> QED
    BY <2>1, <2>2 DEF Init, InTurn, QueueIsRest, Complete
<1> QED
  BY <1>1, <1>2 DEF Init, QueueInv, BacklogIsFailures

(* The rest of a sequence without its head is the rest from one further on.*)
LEMMA RestOf ==
  ASSUME NEW S, NEW s \in Seq(S), NEW m \in 1..Len(s)
  PROVE  /\ Len(SubSeq(s, m, Len(s))) = Len(s) - m + 1
         /\ Tail(SubSeq(s, m, Len(s))) = SubSeq(s, m + 1, Len(s))
<1>1. Len(s) \in m..Len(s) /\ m \in Int /\ Len(s) \in Int
  BY LenProperties
<1>2. \A i \in m..Len(s) : s[i] \in S
  BY ElementOfSeq, <1>1
<1> QED
  BY <1>1, <1>2, SubSeqProperties, HeadTailOfSubSeq

(* The rest of a longer sequence ends with what was appended.              *)
LEMMA RestGrows ==
  ASSUME NEW S, NEW s \in Seq(S), NEW e \in S, NEW m \in 1 .. Len(s) + 1
  PROVE  SubSeq(Append(s, e), m, Len(s) + 1) = Append(SubSeq(s, m, Len(s)), e)
OBVIOUS

(* A record that is logged keeps the invariant.                            *)
LEMMA WriteKeeps ==
  ASSUME QueueInv, NEW record \in Records[Len(logged) + 1], Write(record)
  PROVE  QueueInv'
<1> DEFINE line == Rendered(record)
<1>1. line \in Texts
  <2>1. Len(logged) + 1 \in Nat
    BY DEF QueueInv, Types
  <2>2. record \in UNION {Records[n] : n \in Nat}
    BY <2>1
  <2> QED
    BY <2>2 DEF Texts
<1>2. Types'
  BY <1>1 DEF QueueInv, Types, Write
<1>3. colorize' = colorize /\ Due' = Due
  BY DEF Write, colorize, Due
<1>4. ASSUME colorize PROVE (InTurn /\ QueueIsRest /\ Complete)'
  <2>1. InTurn' /\ Complete'
    BY <1>3, <1>4 DEF QueueInv, Write, InTurn, Complete
  <2>2. SubSeq(Append(logged, line), Due, Len(logged) + 1)
          = Append(SubSeq(logged, Due, Len(logged)), line)
    <3>1. logged \in Seq(Texts) /\ Due \in 1 .. Len(logged) + 1
      BY <1>4 DEF QueueInv, Types, QueueIsRest
    <3>2. \A s \in Seq(Texts), e \in Texts : \A m \in 1 .. Len(s) + 1 :
            SubSeq(Append(s, e), m, Len(s) + 1) = Append(SubSeq(s, m, Len(s)), e)
      BY RestGrows
    <3> HIDE DEF line
    <3> QED
      BY <1>1, <3>1, <3>2, Zenon
  <2>3. QueueIsRest'
    BY <2>2, <1>1, <1>3, <1>4 DEF QueueInv, Types, QueueIsRest, Write
  <2> QED
    BY <2>1, <2>3
<1>5. Len(pending') = Len(pending) + 1
  BY <1>1 DEF QueueInv, Types, Write
<1> QED
  BY <1>2, <1>3, <1>4, <1>5 DEF QueueInv, Types, Write, BacklogIsFailures

(* A chunk of the line in hand, at the end of the stream. *)
LEMMA StreamGrows ==
  ASSUME Types, NEW chunk \in Chunks, stream' = Append(stream, chunk)
  PROVE  /\ stream' \in Seq(Chunks)
         /\ Due' = LineAfter(chunk)
         /\ InTurn /\ chunk.n = Due => InTurn'
         /\ \A n \in Nat : (\E i \in DOMAIN stream : stream[i].n = n /\ stream[i].whole)
              => \E i \in DOMAIN stream' : stream'[i].n = n /\ stream'[i].whole
         /\ \E i \in DOMAIN stream' : stream'[i] = chunk
<1>1. /\ stream' \in Seq(Chunks)
      /\ Len(stream') = Len(stream) + 1
      /\ DOMAIN stream' = 1..(Len(stream) + 1)
      /\ DOMAIN stream = 1..Len(stream)
      /\ Len(stream) \in Nat
      /\ stream'[Len(stream) + 1] = chunk
      /\ \A i \in 1..Len(stream) : stream'[i] = stream[i]
  BY DEF Types
<1>2. stream' # <<>>
  BY <1>1
<1>3. Due' = LineAfter(chunk)
  BY <1>1, <1>2 DEF Due, Last, LineAfter
<1>4. ASSUME InTurn, chunk.n = Due PROVE InTurn'
  <2> SUFFICES ASSUME NEW i \in 1..(Len(stream) + 1)
               PROVE  stream'[i].n = IF i = 1 THEN 1 ELSE LineAfter(stream'[i - 1])
    BY <1>1 DEF InTurn, LineAfter
  <2>1. CASE i =< Len(stream)
    <3>1. i \in 1..Len(stream) /\ (i # 1 => i - 1 \in 1..Len(stream))
      BY <2>1, <1>1
    <3> QED
      BY <3>1, <1>1, <1>4 DEF InTurn, LineAfter
  <2>2. CASE i = Len(stream) + 1 /\ stream = <<>>
    BY <2>2, <1>1, <1>4 DEF Due
  <2>3. CASE i = Len(stream) + 1 /\ stream # <<>>
    <3>1. Len(stream) \in 1..Len(stream) /\ i # 1 /\ i - 1 = Len(stream)
      BY <2>3, <1>1 DEF Types
    <3>2. Due = LineAfter(stream[Len(stream)])
      BY <2>3 DEF Due, Last
    <3> QED
      BY <3>1, <3>2, <2>3, <1>1, <1>4 DEF LineAfter
  <2> QED
    BY <2>1, <2>2, <2>3, <1>1
<1> QED
  BY <1>1, <1>3, <1>4

(* The line that is written next is the one that is due.                   *)
LEMMA CurrentIsDue ==
  ASSUME QueueInv, colorize, pending # <<>>
  PROVE  Current = Due /\ Due \in 1..Len(logged)
<1>1. Len(logged) \in Nat /\ Due \in 1..(Len(logged) + 1)
  BY DEF QueueInv, Types, QueueIsRest
<1>2. Len(pending) = Len(logged) - Due + 1
  <2>1. CASE Due = Len(logged) + 1
    BY <1>1, <2>1 DEF QueueInv, QueueIsRest, Types
  <2>2. CASE Due \in 1..Len(logged)
    BY <1>1, <2>2, RestOf DEF QueueInv, QueueIsRest, Types
  <2> QED
    BY <1>1, <2>1, <2>2
<1>3. Len(pending) # 0
  BY DEF QueueInv, Types
<1> QED
  BY <1>1, <1>2, <1>3 DEF Current

(* What the target takes, whole or in part, is a chunk.                    *)
LEMMA ChunkTyped ==
  ASSUME QueueInv, pending # <<>>
  PROVE  /\ Head(pending) \in Texts
         /\ Current \in Nat
         /\ [n |-> Current, text |-> Out(Head(pending)), whole |-> TRUE] \in Chunks
         /\ \A taken \in Cuts :
              [n |-> Current, whole |-> FALSE,
               text |-> SubSeq(Out(Head(pending)), 1, taken)] \in Chunks
<1>1. Head(pending) \in Texts
  BY DEF QueueInv, Types
<1>2. Out(Head(pending)) \in Written
  BY <1>1, OutIsWritten
<1>3. Current \in Nat
  <2>1. CASE colorize
    BY <2>1, CurrentIsDue DEF QueueInv, Types
  <2>2. CASE ~colorize
    <3>1. Len(pending) \in Nat /\ Len(pending) =< 1 /\ Len(logged) \in Nat
      BY <2>2 DEF QueueInv, Types
    <3> QED
      BY <3>1 DEF Current
  <2> QED
    BY <2>1, <2>2
<1> QED
  <2>1. \A taken \in Cuts : SubSeq(Out(Head(pending)), 1, taken) \in Parts
    BY <1>2, BeginningTyped DEF Parts
  <2>2. Out(Head(pending)) \in Parts
    BY <1>2 DEF Parts
  <2> QED
    BY <1>1, <2>1, <2>2, <1>3 DEF Chunks

(* A line that is written whole keeps it.                                  *)
LEMMA TargetTakesLineKeeps == QueueInv /\ TargetTakesLine => QueueInv'
<1> SUFFICES ASSUME QueueInv, TargetTakesLine PROVE QueueInv'
  OBVIOUS
<1> DEFINE chunk == [n |-> Current, text |-> Out(Head(pending)), whole |-> TRUE]
<1>1. pending # <<>> /\ stream' = Append(stream, chunk) /\ pending' = Tail(pending)
  BY DEF TargetTakesLine
<1>2. chunk \in Chunks
  BY <1>1, ChunkTyped
<1>3. Types
  BY DEF QueueInv
<1> HIDE DEF chunk
<1>4. /\ stream' \in Seq(Chunks)
      /\ Due' = LineAfter(chunk)
      /\ InTurn /\ chunk.n = Due => InTurn'
      /\ \A n \in Nat : (\E i \in DOMAIN stream : stream[i].n = n /\ stream[i].whole)
           => \E i \in DOMAIN stream' : stream'[i].n = n /\ stream'[i].whole
      /\ \E i \in DOMAIN stream' : stream'[i] = chunk
  BY <1>1, <1>2, <1>3, StreamGrows
<1>5. colorize' = colorize
  BY DEF TargetTakesLine, colorize
<1>6. pending' \in Seq(Texts) /\ Len(pending') = Len(pending) - 1 /\ Len(pending) \in Nat
  BY <1>1, <1>3 DEF Types
<1>7. Types'
  BY <1>3, <1>4, <1>6 DEF Types, TargetTakesLine
<1>8. ASSUME colorize PROVE (InTurn /\ QueueIsRest /\ Complete)'
  <2>1. Current = Due /\ Due \in 1..Len(logged)
    BY <1>1, <1>8, CurrentIsDue
  <2>2. Due' = Due + 1 /\ chunk.n = Due /\ chunk.whole
    BY <2>1, <1>4 DEF chunk, LineAfter
  <2>3. InTurn'
    BY <2>2, <1>4, <1>8 DEF QueueInv
  <2>4. QueueIsRest'
    <3>1. pending' = SubSeq(logged, Due + 1, Len(logged))
      <4>1. pending = SubSeq(logged, Due, Len(logged)) /\ logged \in Seq(Texts)
        BY <1>3, <1>8 DEF QueueInv, QueueIsRest, Types
      <4> QED
        BY <4>1, <1>1, <2>1, RestOf
    <3> QED
      <4>1. logged' = logged /\ Len(logged) \in Nat
        BY <1>3 DEF TargetTakesLine, Types
      <4>2. Due' \in 1..(Len(logged) + 1)
        BY <4>1, <2>1, <2>2
      <4> QED
        BY <3>1, <4>1, <4>2, <2>2 DEF QueueIsRest
  <2>5. Complete'
    <3> SUFFICES ASSUME NEW n \in 1..(Due' - 1)
                 PROVE  \E i \in DOMAIN stream' : stream'[i].n = n /\ stream'[i].whole
      BY DEF Complete
    <3>1. n \in Nat /\ (n \in 1..(Due - 1) \/ n = Due)
      BY <2>1, <2>2
    <3>2. CASE n \in 1..(Due - 1)
      BY <3>1, <3>2, <1>4, <1>8 DEF QueueInv, Complete
    <3>3. CASE n = Due
      BY <3>3, <2>2, <1>4
    <3> QED
      BY <3>1, <3>2, <3>3
  <2> QED
    BY <2>3, <2>4, <2>5
<1>9. writing /\ writing' = writing /\ failures' = failures
  BY DEF TargetTakesLine
<1> QED
  BY <1>5, <1>6, <1>7, <1>8, <1>9, <1>3 DEF QueueInv, BacklogIsFailures, Types

(* A line that is broken off keeps it.                                     *)
LEMMA TargetFailsKeeps ==
  ASSUME QueueInv, NEW taken \in Cuts, TargetFails(taken)
  PROVE  QueueInv'
<1> DEFINE chunk == [n |-> Current, whole |-> FALSE,
                     text |-> SubSeq(Out(Head(pending)), 1, taken)]
<1>1. /\ pending # <<>> /\ stream' = Append(stream, chunk)
      /\ pending' = IF colorize THEN pending ELSE <<>>
  BY DEF TargetFails
<1>2. chunk \in Chunks
  BY <1>1, ChunkTyped
<1>3. Types
  BY DEF QueueInv
<1> HIDE DEF chunk
<1>4. /\ stream' \in Seq(Chunks)
      /\ Due' = LineAfter(chunk)
      /\ InTurn /\ chunk.n = Due => InTurn'
      /\ \A n \in Nat : (\E i \in DOMAIN stream : stream[i].n = n /\ stream[i].whole)
           => \E i \in DOMAIN stream' : stream'[i].n = n /\ stream'[i].whole
  BY <1>1, <1>2, <1>3, StreamGrows
<1>5. colorize' = colorize
  BY DEF TargetFails, colorize
<1>6. Types'
  <2>1. pending' \in Seq(Texts)
    BY <1>1, <1>3 DEF Types
  <2> QED
    <3>1. /\ logged' = logged /\ writing' = FALSE
          /\ result' = "error" /\ failures' = failures + 1
      BY DEF TargetFails
    <3>2. stream' \in Seq(Chunks) /\ logged \in Seq(Texts) /\ failures \in Nat
      BY <1>3, <1>4 DEF Types
    <3>3. writing' \in BOOLEAN /\ result' \in {"nil", "error"} /\ failures' \in Nat
      <4>1. writing' \in BOOLEAN
        BY <3>1, Zenon
      <4>2. result' \in {"nil", "error"}
        BY <3>1, Zenon
      <4>3. failures' \in Nat
        BY <3>1, <3>2, SMT
      <4> QED
        BY <4>1, <4>2, <4>3
    <3> QED
      BY <2>1, <3>1, <3>2, <3>3 DEF Types
<1>7. ASSUME colorize PROVE (InTurn /\ QueueIsRest /\ Complete)'
  <2>1. Current = Due /\ Due \in 1..Len(logged)
    BY <1>1, <1>7, CurrentIsDue
  <2>2. Due' = Due /\ chunk.n = Due
    BY <2>1, <1>4 DEF chunk, LineAfter
  <2>3. InTurn'
    BY <2>2, <1>4, <1>7 DEF QueueInv
  <2>4. QueueIsRest'
    BY <1>1, <1>7, <2>2 DEF QueueInv, QueueIsRest, TargetFails
  <2>5. Complete'
    <3> SUFFICES ASSUME NEW n \in 1..(Due - 1)
                 PROVE  \E i \in DOMAIN stream' : stream'[i].n = n /\ stream'[i].whole
      BY <2>2 DEF Complete
    <3> QED
      BY <2>1, <1>4, <1>7 DEF QueueInv, Complete
  <2> QED
    BY <2>3, <2>4, <2>5
<1>8. writing /\ writing' = FALSE /\ failures' = failures + 1 /\ result' = "error"
  BY DEF TargetFails
<1> QED
  BY <1>1, <1>3, <1>5, <1>6, <1>7, <1>8 DEF QueueInv, BacklogIsFailures, Types

(* The return of Write keeps it.                                           *)
LEMMA WriteReturnsKeeps == QueueInv /\ WriteReturns => QueueInv'
<1> SUFFICES ASSUME QueueInv, WriteReturns PROVE QueueInv'
  OBVIOUS
<1>1. /\ UNCHANGED <<env, logged, pending, stream>>
      /\ pending = <<>> /\ writing' = FALSE /\ result' = "nil" /\ failures' = 0
  BY DEF WriteReturns
<1>2. Types' /\ colorize' = colorize /\ Due' = Due
  BY <1>1 DEF QueueInv, Types, colorize, Due
<1>3. colorize => (InTurn /\ QueueIsRest /\ Complete)'
  BY <1>1, <1>2 DEF QueueInv, InTurn, QueueIsRest, Complete
<1> QED
  BY <1>1, <1>2, <1>3 DEF QueueInv, BacklogIsFailures

(* And so does a step that changes nothing.                                *)
LEMMA StutterKeeps == QueueInv /\ UNCHANGED vars => QueueInv'
<1> SUFFICES ASSUME QueueInv, UNCHANGED vars PROVE QueueInv'
  OBVIOUS
<1>1. Types' /\ colorize' = colorize /\ Due' = Due
  BY DEF vars, QueueInv, Types, colorize, Due
<1>2. colorize => (InTurn /\ QueueIsRest /\ Complete)'
  BY <1>1 DEF vars, QueueInv, InTurn, QueueIsRest, Complete
<1> QED
  BY <1>1, <1>2 DEF vars, QueueInv, BacklogIsFailures

(* The queue always holds exactly the lines that have not left whole. *)
THEOREM QueueInvariance == Spec => []QueueInv
<1>1. QueueInv /\ [Next]_vars => QueueInv'
  BY WriteKeeps, TargetTakesLineKeeps, TargetFailsKeeps, WriteReturnsKeeps, StutterKeeps
  DEF Next
<1> QED
  BY <1>1, InitQueue, PTL DEF Spec

(* Whatever lines there are and however often the target fails, the        *)
(* coloured log gets every line, once and in order, after beginnings of    *)
(* the same line (keyValueColorWriter.Write).                              *)
THEOREM NothingIsEverLost == Spec => []NothingLost
<1>1. QueueInv => NothingLost
  BY DEF QueueInv, NothingLost, InTurn, QueueIsRest
<1> QED
  BY <1>1, QueueInvariance, PTL

(* A nil means that every line so far is out, retried ones included.       *)
THEOREM NilIsComplete == Spec => []NilMeansComplete
<1>1. QueueInv => NilMeansComplete
  <2> SUFFICES ASSUME QueueInv, colorize, ~writing, result = "nil", NEW n \in DOMAIN logged
               PROVE  \E i \in DOMAIN stream : stream[i].n = n /\ stream[i].whole
    BY DEF NilMeansComplete
  <2>1. /\ Due \in 1..(Len(logged) + 1) /\ Len(logged) \in Nat
        /\ DOMAIN logged = 1..Len(logged)
    BY DEF QueueInv, QueueIsRest, Types
  <2>2. pending = <<>> /\ pending = SubSeq(logged, Due, Len(logged))
    BY DEF QueueInv, QueueIsRest
  <2>3. Due = Len(logged) + 1
    <3>1. CASE Due \in 1..Len(logged)
      <4>1. Len(SubSeq(logged, Due, Len(logged))) = Len(logged) - Due + 1
        BY <3>1, <2>1 DEF QueueInv, Types
      <4> QED
        BY <4>1, <2>2, <3>1, <2>1
    <3> QED
      BY <3>1, <2>1
  <2> QED
    BY <2>1, <2>3 DEF QueueInv, Complete
<1> QED
  BY <1>1, QueueInvariance, PTL

(* The queue is no longer than the run of failed calls, plus the line in   *)
(* hand: the first call that succeeds empties it.                          *)
THEOREM BacklogBounded == Spec => []BacklogIsFailures
<1>1. QueueInv => BacklogIsFailures
  BY DEF QueueInv
<1> QED
  BY <1>1, QueueInvariance, PTL

-------------------------------------------------------------------------------
(* How a line is scanned.                                                  *)

Scanning == INSTANCE SequenceFolds WITH op <- Scan

Symbols == STRING \cup Codes \cup {Space, Equals, Quote, Backslash, Newline, "n"}
Text    == Seq(Symbols)

(* The state of the scanner. *)
At(out, token, inQuote) ==
  [out |-> out, token |-> token, inQuote |-> inQuote, escaped |-> FALSE]

Run(st, text) == Scanning!Fold(st, text)

(* The community modules as this module sees them and as SequenceFolds     *)
(* does are the same.                                                      *)
LEMMA SameFolds ==
  /\ \A st, text : FoldLeft(Scan, st, text) = Run(st, text)
  /\ \A seqs : FlattenSeq(seqs) = Scanning!FlattenSeq(seqs)
<1>1. \A st, text : FoldLeft(Scan, st, text) = Run(st, text)
  BY DEF Run, Scanning!Fold, FoldLeft, Scanning!FoldLeft, MapThenFoldSet,
         Scanning!MapThenFoldSet, Max, Scanning!Max
<1>2. \A seqs : FlattenSeq(seqs) = Scanning!FlattenSeq(seqs)
  BY DEF FlattenSeq, Scanning!FlattenSeq
<1> QED
  BY <1>1, <1>2

(* The scanner takes one symbol after the other.                           *)
LEMMA RunConcat ==
  ASSUME NEW st, NEW u \in Text, NEW v \in Text
  PROVE  Run(st, u \o v) = Run(Run(st, u), v)
<1>1. u \in Seq(Symbols) /\ v \in Seq(Symbols)
  BY DEF Text
<1> QED
  BY <1>1, Scanning!FoldConcat DEF Run

(* All that the scanner does.                                              *)
LEMMA RunFacts ==
  /\ \A st : Run(st, <<>>) = st
  /\ \A st : \A s \in Symbols : Run(st, <<s>>) = Scan(st, s)
  /\ \A st : \A u \in Text, s \in Symbols : Run(st, Append(u, s)) = Scan(Run(st, u), s)
  /\ \A st : \A u, v \in Text : Run(st, u \o v) = Run(Run(st, u), v)
<1>1. ASSUME NEW st PROVE Run(st, <<>>) = st
  BY Scanning!FoldEmpty DEF Run
<1>2. ASSUME NEW st, NEW u \in Text, NEW s \in Symbols
      PROVE  Run(st, Append(u, s)) = Scan(Run(st, u), s)
  BY Scanning!FoldAppend DEF Run, Text
<1>3. ASSUME NEW st, NEW u \in Text, NEW v \in Text
      PROVE  Run(st, u \o v) = Run(Run(st, u), v)
  BY <1>3, RunConcat
<1>4. ASSUME NEW st, NEW s \in Symbols PROVE Run(st, <<s>>) = Scan(st, s)
  <2>1. <<>> \in Text /\ <<s>> = Append(<<>>, s)
    BY DEF Text
  <2>2. Run(st, Append(<<>>, s)) = Scan(Run(st, <<>>), s)
    BY <1>2, <2>1
  <2> QED
    BY <1>1, <2>1, <2>2
<1> QED
  BY <1>1, <1>2, <1>3, <1>4

(* A function applied to a longer sequence.                                *)
LEMMA MapAppend ==
  ASSUME NEW S, NEW T, NEW f \in [S -> T], NEW s \in Seq(S), NEW e \in S
  PROVE  /\ [i \in 1 .. Len(s) |-> f[s[i]]] \in Seq(T)
         /\ f[e] \in T
         /\ [i \in 1 .. Len(Append(s, e)) |-> f[Append(s, e)[i]]]
              = Append([i \in 1 .. Len(s) |-> f[s[i]]], f[e])
<1> DEFINE n == Len(s)
           m == [i \in 1 .. n |-> f[s[i]]]
           a == Append(s, e)
           l == [i \in 1 .. Len(a) |-> f[a[i]]]
<1>1. n \in Nat /\ Len(a) = n + 1 /\ a[n + 1] = e /\ \A i \in 1 .. n : s[i] \in S /\ a[i] = s[i]
  BY AppendProperties
<1>2. m \in Seq(T) /\ Len(m) = n /\ f[e] \in T
  BY <1>1
<1>3. l \in Seq(T) /\ Len(l) = n + 1
  <2>1. \A i \in 1 .. n + 1 : a[i] \in S
    BY <1>1
  <2> HIDE DEF a, n
  <2> QED
    BY <1>1, <2>1
<1>4. /\ Append(m, f[e]) \in Seq(T) /\ Len(Append(m, f[e])) = n + 1
      /\ Append(m, f[e])[n + 1] = f[e]
      /\ \A i \in 1 .. n : Append(m, f[e])[i] = m[i]
  BY <1>2, AppendProperties
<1>5. \A i \in 1 .. n + 1 : l[i] = Append(m, f[e])[i]
  <2>1. \A i \in 1 .. n + 1 : i \in 1 .. n \/ i = n + 1
    BY <1>1
  <2>2. \A i \in 1 .. n + 1 : l[i] = f[a[i]]
    BY <1>1
  <2>3. \A i \in 1 .. n : m[i] = f[s[i]]
    OBVIOUS
  <2> HIDE DEF l, m, a, n
  <2> QED
    BY <1>1, <1>4, <2>1, <2>2, <2>3
<1> HIDE DEF l, m, a, n
<1>6. l = Append(m, f[e])
  BY <1>3, <1>4, <1>5, SeqEqual
<1> QED
  BY <1>2, <1>6 DEF l, m, a, n

-------------------------------------------------------------------------------
(* Quoting. *)

EscapedSymbol(s) == CASE s \in {Quote, Backslash} -> <<Backslash, s>>
                      [] s = Newline -> <<Backslash, "n">>
                      [] OTHER -> <<s>>

(* The marks of a line are symbols, and no two are the same.               *)
LEMMA SymbolFacts ==
  /\ Space \in Symbols /\ Equals \in Symbols /\ Quote \in Symbols
  /\ Backslash \in Symbols /\ Newline \in Symbols /\ "n" \in Symbols
  /\ Quote # Space /\ Quote # Equals /\ Quote # Backslash /\ Quote # Newline
  /\ Backslash # Space /\ Backslash # Equals /\ Backslash # Newline
  /\ Space # Equals /\ Space # Newline /\ Equals # Newline
  /\ \A w \in {Space, Equals, Quote, Newline, Backslash} :
       w \notin {"DEBUG", "INFO", "WARN", "ERROR", "success", "SUCCESS", "n"} /\ w \notin KeyWords
  /\ {"level", "result", "name", "n"} \subseteq KeyWords
<1>1. /\ Space \in Symbols /\ Equals \in Symbols /\ Quote \in Symbols
      /\ Backslash \in Symbols /\ Newline \in Symbols /\ "n" \in Symbols
  BY DEF Symbols
<1> QED
  BY <1>1 DEF Space, Equals, Quote, Backslash, Newline, KeyWords

(* The three kinds of escapes.                                             *)
LEMMA EscapedIs ==
  ASSUME NEW s \in Symbols
  PROVE  /\ EscapedSymbol(s) \in Text
         /\ \/ s \in {Quote, Backslash} /\ EscapedSymbol(s) = <<Backslash, s>>
            \/ s = Newline /\ EscapedSymbol(s) = <<Backslash, "n">>
            \/ s \notin {Quote, Backslash, Newline} /\ EscapedSymbol(s) = <<s>>
BY SymbolFacts DEF EscapedSymbol, Text

(* One symbol more is one escape more.                                     *)
LEMMA EscapeAppend ==
  /\ Escape(<<>>) = <<>>
  /\ \A v \in Text, s \in Symbols : Escape(v) \in Text /\ Escape(Append(v, s)) = Escape(v) \o EscapedSymbol(s)
<1> DEFINE f == [s \in Symbols |-> EscapedSymbol(s)]
           Map(v) == [i \in 1 .. Len(v) |-> f[v[i]]]
<1>1. f \in [Symbols -> Text]
  BY EscapedIs
<1>2. \A v : Escape(v) = FlattenSeq([i \in 1 .. Len(v) |-> EscapedSymbol(v[i])])
  BY DEF Escape, EscapedSymbol
<1>3. \A v \in Text : Escape(v) = FlattenSeq(Map(v))
  <2> SUFFICES ASSUME NEW v \in Text PROVE Escape(v) = FlattenSeq(Map(v))
    OBVIOUS
  <2>1. \A i \in 1 .. Len(v) : v[i] \in Symbols
    BY DEF Text
  <2>2. [i \in 1 .. Len(v) |-> EscapedSymbol(v[i])] = Map(v)
    BY <2>1
  <2> QED
    BY <1>2, <2>2
<1>4. Escape(<<>>) = <<>>
  <2>1. Map(<<>>) = <<>>
    OBVIOUS
  <2>2. Scanning!FlattenSeq(<<>>) = <<>>
    BY Scanning!FlattenEmpty
  <2>3. <<>> \in Text
    BY DEF Text
  <2> QED
    BY <1>3, <2>1, <2>2, <2>3, SameFolds
<1>5. ASSUME NEW v \in Text, NEW s \in Symbols
      PROVE  Escape(v) \in Text /\ Escape(Append(v, s)) = Escape(v) \o EscapedSymbol(s)
  <2> HIDE DEF f
  <2>1. /\ Map(v) \in Seq(Text) /\ f[s] \in Text
        /\ Map(Append(v, s)) = Append(Map(v), f[s])
    BY <1>1, MapAppend DEF Text
  <2>2. f[s] = EscapedSymbol(s)
    BY DEF f
  <2> HIDE DEF Map
  <2>3. /\ Scanning!FlattenSeq(Append(Map(v), f[s])) = Scanning!FlattenSeq(Map(v)) \o f[s]
        /\ Scanning!FlattenSeq(Map(v)) \in Text
    BY <2>1, Scanning!FlattenAppend, Scanning!FlattenType DEF Text
  <2>4. Append(v, s) \in Text
    BY AppendProperties DEF Text
  <2> QED
    BY <1>3, <2>1, <2>2, <2>3, <2>4, SameFolds
<1> QED
  BY <1>4, <1>5

(* In quotes the escape of a symbol ends neither the quote nor the token.  *)
LEMMA ScanInQuote ==
  ASSUME NEW o, NEW t \in Text, NEW s \in Symbols
  PROVE  Run(At(o, t, TRUE), EscapedSymbol(s)) = At(o, t \o EscapedSymbol(s), TRUE)
<1> DEFINE st == At(o, t, TRUE)
<1>1. ASSUME NEW a \in Symbols, NEW b \in Symbols
      PROVE  Run(st, <<a, b>>) = Scan(Scan(st, a), b)
  <2> DEFINE u == <<a>>
  <2>1. u \in Text /\ <<a, b>> = Append(u, b)
    BY DEF Text
  <2>2. Run(st, u) = Scan(st, a)
    BY RunFacts
  <2> HIDE DEF u, st
  <2>3. Run(st, Append(u, b)) = Scan(Run(st, u), b)
    BY <2>1, RunFacts
  <2> QED
    BY <2>1, <2>2, <2>3
<1>2. ASSUME NEW a \in Symbols, a # Quote, a # Backslash
      PROVE  Scan(At(o, t, TRUE), a) = At(o, Append(t, a), TRUE)
  BY <1>2 DEF Scan, At
<1>3. ASSUME NEW a \in Symbols
      PROVE  Scan(Scan(At(o, t, TRUE), Backslash), a) = At(o, Append(Append(t, Backslash), a), TRUE)
  <2>1. Scan(At(o, t, TRUE), Backslash)
          = [out |-> o, token |-> Append(t, Backslash), inQuote |-> TRUE, escaped |-> TRUE]
    BY SymbolFacts DEF Scan, At
  <2> QED
    BY <2>1 DEF Scan, At
<1>4. \A a \in Symbols : t \o <<a>> = Append(t, a)
  BY DEF Text
<1>5. \A a, b \in Symbols : t \o <<a, b>> = Append(Append(t, a), b)
  BY DEF Text
<1>6. CASE s \in {Quote, Backslash, Newline}
  <2>1. PICK a \in Symbols : EscapedSymbol(s) = <<Backslash, a>>
    BY <1>6, EscapedIs, SymbolFacts
  <2>2. Backslash \in Symbols
    BY SymbolFacts
  <2>3. Run(st, <<Backslash, a>>) = Scan(Scan(st, Backslash), a)
    BY <1>1, <2>2
  <2>4. Scan(Scan(st, Backslash), a) = At(o, Append(Append(t, Backslash), a), TRUE)
    BY <1>3
  <2>5. t \o <<Backslash, a>> = Append(Append(t, Backslash), a)
    BY <1>5, <2>2
  <2> QED
    BY <2>1, <2>3, <2>4, <2>5
<1>7. CASE s \notin {Quote, Backslash, Newline}
  <2>1. EscapedSymbol(s) = <<s>> /\ s # Quote /\ s # Backslash
    BY <1>7, EscapedIs
  <2>2. Run(st, <<s>>) = Scan(st, s)
    BY RunFacts
  <2>3. Scan(st, s) = At(o, Append(t, s), TRUE)
    BY <1>2, <2>1
  <2>4. t \o <<s>> = Append(t, s)
    BY <1>4
  <2> QED
    BY <2>1, <2>2, <2>3, <2>4
<1> QED
  BY <1>6, <1>7

(* Texts are joined in any order.                                          *)
LEMMA TextsAssociate ==
  ASSUME NEW t \in Text, NEW u \in Text, NEW v \in Text
  PROVE  (t \o u) \o v = t \o (u \o v)
<1>1. t \in Seq(Symbols) /\ u \in Seq(Symbols) /\ v \in Seq(Symbols)
  BY DEF Text
<1> HIDE DEF Symbols
<1> QED
  BY <1>1, ConcatAssociative

(* So the scanner is still in the quote after all of a value.              *)
LEMMA RunEscape ==
  ASSUME NEW o, NEW t \in Text, NEW v \in Text
  PROVE  Run(At(o, t, TRUE), Escape(v)) = At(o, t \o Escape(v), TRUE)
<1> DEFINE P == {u \in Text : Run(At(o, t, TRUE), Escape(u)) = At(o, t \o Escape(u), TRUE)}
<1>1. <<>> \in P
  <2>1. Run(At(o, t, TRUE), <<>>) = At(o, t, TRUE)
    BY RunFacts
  <2>2. t \o <<>> = t /\ <<>> \in Text
    BY ConcatEmptySeq DEF Text
  <2> QED
    BY <2>1, <2>2, EscapeAppend
<1>2. ASSUME NEW u \in Text, NEW s \in Symbols, u \in P PROVE Append(u, s) \in P
  <2> DEFINE e == Escape(u)
             x == EscapedSymbol(s)
  <2>1. Append(u, s) \in Text /\ e \in Text /\ x \in Text /\ Escape(Append(u, s)) = e \o x
    BY EscapeAppend, EscapedIs, AppendProperties DEF Text
  <2>2. Run(At(o, t, TRUE), e) = At(o, t \o e, TRUE)
    BY <1>2
  <2> HIDE DEF e, x
  <2>3. Run(At(o, t, TRUE), e \o x) = Run(Run(At(o, t, TRUE), e), x)
    BY <2>1, RunConcat
  <2>4. t \o e \in Text
    BY <2>1, ConcatProperties DEF Text
  <2>5. Run(At(o, t \o e, TRUE), x) = At(o, (t \o e) \o x, TRUE)
    BY <2>4, ScanInQuote DEF x
  <2>6. (t \o e) \o x = t \o (e \o x)
    BY <2>1, Zenon, TextsAssociate
  <2> QED
    BY <2>1, <2>2, <2>3, <2>5, <2>6
<1> HIDE DEF P
<1>3. Text \subseteq P
  BY <1>1, <1>2, Scanning!SeqIsInductive DEF Text
<1> QED
  BY <1>3 DEF P

(* Outside quotes, a text without blanks and quotes goes to the token.     *)
Plain == Symbols \ {Space, Newline, Quote}

LEMMA RunPlain ==
  ASSUME NEW o, NEW t \in Text, NEW v \in Seq(Plain)
  PROVE  Run(At(o, t, FALSE), v) = At(o, t \o v, FALSE)
<1> DEFINE P == {u \in Seq(Plain) : Run(At(o, t, FALSE), u) = At(o, t \o u, FALSE)}
<1>1. <<>> \in P
  <2>1. Run(At(o, t, FALSE), <<>>) = At(o, t, FALSE)
    BY RunFacts
  <2>2. t \o <<>> = t /\ <<>> \in Seq(Plain)
    BY ConcatEmptySeq DEF Text
  <2> QED
    BY <2>1, <2>2
<1>2. ASSUME NEW u \in Seq(Plain), NEW s \in Plain, u \in P PROVE Append(u, s) \in P
  <2>1. Append(u, s) \in Seq(Plain) /\ u \in Text /\ s \in Symbols
    BY AppendProperties DEF Text, Plain
  <2>2. Run(At(o, t, FALSE), Append(u, s)) = Scan(Run(At(o, t, FALSE), u), s)
    <3> DEFINE st == At(o, t, FALSE)
    <3> HIDE DEF st
    <3>1. s \in Symbols
      BY DEF Plain
    <3>2. Run(st, Append(u, s)) = Scan(Run(st, u), s)
      BY <2>1, <3>1, RunFacts
    <3> QED
      BY <3>2 DEF st
  <2>3. Run(At(o, t, FALSE), u) = At(o, t \o u, FALSE)
    BY <1>2
  <2>4. t \o Append(u, s) = Append(t \o u, s)
    BY <2>1 DEF Text
  <2>5. s # Space /\ s # Newline /\ s # Quote
    BY DEF Plain
  <2>6. Scan(At(o, t \o u, FALSE), s) = At(o, Append(t \o u, s), FALSE)
    <3> DEFINE w == t \o u
    <3> HIDE DEF w
    <3>1. Scan(At(o, w, FALSE), s) = At(o, Append(w, s), FALSE)
      BY <2>5 DEF Scan, At
    <3> QED
      BY <3>1 DEF w
  <2> QED
    BY <2>1, <2>2, <2>3, <2>4, <2>6
<1> HIDE DEF P
<1>3. Seq(Plain) \subseteq P
  BY <1>1, <1>2, Scanning!SeqIsInductive
<1> QED
  BY <1>3 DEF P
(* A value goes to the token as it is rendered, quotes and all.            *)
LEMMA ScanQuote ==
  ASSUME NEW o, NEW t \in Text
  PROVE  /\ Scan(At(o, t, FALSE), Quote) = At(o, Append(t, Quote), TRUE)
         /\ Scan(At(o, t, TRUE), Quote) = At(o, Append(t, Quote), FALSE)
BY SymbolFacts DEF Scan, At

(* A value that is not quoted has no blanks and no quotes.                 *)
LEMMA RenderedIs ==
  ASSUME NEW v \in Text
  PROVE  /\ RenderedValue(v) \in Text
         /\ ~NeedsQuoting(v) => RenderedValue(v) = v /\ v \in Seq(Plain) /\ v # <<>>
         /\ NeedsQuoting(v) => RenderedValue(v) = Append(<<Quote>> \o Escape(v), Quote)
<1>1. Escape(v) \in Text /\ Quote \in Symbols
  BY EscapeAppend, SymbolFacts
<1> DEFINE e == Escape(v)
<1> HIDE DEF e
<1>2. (<<Quote>> \o e) \o <<Quote>> = Append(<<Quote>> \o e, Quote)
      /\ Append(<<Quote>> \o e, Quote) \in Text
  BY <1>1 DEF Text, e
<1>3. ASSUME ~NeedsQuoting(v) PROVE v \in Seq(Plain) /\ v # <<>>
  <2>1. v # <<>> /\ \A i \in 1 .. Len(v) : v[i] \notin {Space, Equals, Quote, Newline}
    BY <1>3 DEF NeedsQuoting, Contains
  <2>2. \A i \in 1 .. Len(v) : v[i] \in Plain
    BY <2>1 DEF Plain, Text
  <2> QED
    BY <2>1, <2>2 DEF Text
<1> QED
  BY <1>2, <1>3 DEF RenderedValue, e

(* Quoted or not, a value goes to the token whole.                         *)
LEMMA RunValue ==
  ASSUME NEW o, NEW t \in Text, NEW v \in Text
  PROVE  Run(At(o, t, FALSE), RenderedValue(v)) = At(o, t \o RenderedValue(v), FALSE)
<1>1. CASE ~NeedsQuoting(v)
  BY <1>1, RenderedIs, RunPlain
<1>2. CASE NeedsQuoting(v)
  <2> DEFINE e == Escape(v)
             q == <<Quote>>
             st == At(o, t, FALSE)
  <2>1. e \in Text /\ q \in Text /\ Quote \in Symbols
    BY EscapeAppend, SymbolFacts DEF Text
  <2>2. Run(st, q) = At(o, Append(t, Quote), TRUE)
    BY <2>1, RunFacts, ScanQuote
  <2>3. RenderedValue(v) = Append(q \o e, Quote)
    BY <1>2, RenderedIs
  <2>4. Append(t, Quote) \in Text /\ Append(t, Quote) \o e \in Text
    BY <2>1 DEF Text
  <2>5. Run(At(o, Append(t, Quote), TRUE), e) = At(o, Append(t, Quote) \o e, TRUE)
    BY <2>4, RunEscape
  <2>6. /\ q \o e \in Text
        /\ t \o Append(q \o e, Quote) = Append(Append(t, Quote) \o e, Quote)
    <3> HIDE DEF e
    <3>1. q \o e \in Text
      BY <2>1 DEF Text
    <3>2. t \o Append(q \o e, Quote) = Append(t \o (q \o e), Quote)
      BY <2>1, <3>1 DEF Text
    <3>3. t \o q = Append(t, Quote)
      BY <2>1 DEF Text
    <3>4. t \o (q \o e) = (t \o q) \o e
      <4> HIDE DEF q
      <4> QED
        BY <2>1, Zenon, TextsAssociate
    <3> QED
      BY <3>1, <3>2, <3>3, <3>4
  <2> HIDE DEF e, q, st
  <2>7. Run(st, Append(q \o e, Quote)) = Scan(Run(Run(st, q), e), Quote)
    BY <2>1, <2>6, RunFacts
  <2>8. Scan(At(o, Append(t, Quote) \o e, TRUE), Quote)
          = At(o, Append(Append(t, Quote) \o e, Quote), FALSE)
    BY <2>4, ScanQuote
  <2> QED
    BY <2>2, <2>3, <2>5, <2>6, <2>7, <2>8 DEF st
<1> QED
  BY <1>1, <1>2

-------------------------------------------------------------------------------
(* Attributes.                                                             *)

Attributes ==
  {a \in [key : Symbols, value : Text] : a.key \notin {Space, Equals, Quote, Newline}}

RenderedAttribute(a) == <<a.key, Equals>> \o RenderedValue(a.value)

(* An attribute that begins after a blank becomes one token.               *)
LEMMA RunAttribute ==
  ASSUME NEW o, NEW a \in Attributes
  PROVE  /\ RenderedAttribute(a) \in Text
         /\ RenderedAttribute(a) # <<>>
         /\ Run(At(o, <<>>, FALSE), RenderedAttribute(a)) = At(o, RenderedAttribute(a), FALSE)
<1> DEFINE head == <<a.key, Equals>>
           text == RenderedValue(a.value)
           st == At(o, <<>>, FALSE)
<1>1. a.key \in Plain /\ Equals \in Plain /\ a.value \in Text
  BY SymbolFacts DEF Attributes, Plain
<1>2. head \in Seq(Plain) /\ head \in Text /\ <<>> \in Text
  BY <1>1 DEF Plain, Text
<1>3. text \in Text
  BY <1>1, RenderedIs
<1>4. <<>> \o head = head
  OBVIOUS
<1>5. Len(head \o text) = Len(text) + 2 /\ Len(text) \in Nat /\ head \o text \in Text
  <2> HIDE DEF text
  <2> QED
    BY <1>2, <1>3 DEF Text
<1>6. head \o text # <<>>
  BY <1>5 DEF Text
<1> HIDE DEF head, text, st
<1>7. Run(st, head) = At(o, head, FALSE)
  BY <1>2, <1>4, RunPlain DEF st
<1>8. Run(st, head \o text) = Run(Run(st, head), text)
  BY <1>2, <1>3, RunFacts
<1>9. Run(At(o, head, FALSE), text) = At(o, head \o text, FALSE)
  BY <1>1, <1>2, RunValue DEF text
<1> QED
  BY <1>5, <1>6, <1>7, <1>8, <1>9 DEF RenderedAttribute, head, text, st

(* The least number of a set is what Min chooses, and Max the greatest.    *)
LEMMA MinMax ==
  ASSUME NEW n \in Nat, NEW I \in SUBSET (1 .. n), I # {}
  PROVE  /\ Min(I) \in I /\ \A i \in I : Min(I) <= i
         /\ Max(I) \in I /\ \A i \in I : i <= Max(I)
<1>1. \E m \in I : \A i \in I : m <= i
  <2>1. I \subseteq Nat
    OBVIOUS
  <2>2. \A T : T \subseteq Nat /\ T # {} => \E m \in T : \A i \in T : m <= i
    BY Scanning!LeastNat
  <2> QED
    BY <2>1, <2>2
<1>2. \E m \in I : \A i \in I : i <= m
  <2> DEFINE D == {n - i : i \in I}
  <2>1. D \subseteq Nat /\ D # {}
    <3>1. \A i \in I : n - i \in Nat
      OBVIOUS
    <3>2. PICK i \in I : TRUE
      OBVIOUS
    <3>3. n - i \in D
      OBVIOUS
    <3> QED
      BY <3>1, <3>3
  <2>2. PICK d \in D : \A c \in D : d <= c
    BY <2>1, Scanning!LeastNat
  <2>3. PICK m \in I : d = n - m
    BY <2>2
  <2>4. \A i \in I : n - m <= n - i
    BY <2>2, <2>3
  <2> QED
    BY <2>3, <2>4
<1> QED
  BY <1>1, <1>2 DEF Min, Max

(* A token is split at the = after its key.                                *)
LEMMA TokenIs ==
  ASSUME NEW k \in Symbols, k # Equals, NEW text \in Text
  PROVE  ColorizeToken(<<k, Equals>> \o text)
           = IF k \in KeyWords
             THEN Wrap(<<k>>, Base1) \o Wrap(<<Equals>>, Base1) \o ColorizeValueForKey(<<k>>, text)
             ELSE <<k, Equals>> \o text
<1> DEFINE token == <<k, Equals>> \o text
           n == Len(token)
           I == {i \in 1 .. Len(token) : token[i] = Equals}
<1>1. /\ token \in Text /\ Len(text) \in Nat /\ n = Len(text) + 2
      /\ token[1] = k /\ token[2] = Equals
      /\ \A i \in 1 .. Len(text) : token[i + 2] = text[i]
  BY SymbolFacts DEF Text
<1> HIDE DEF token
<1>2. n \in Nat /\ I \in SUBSET (1 .. n) /\ 2 \in I /\ 1 \notin I /\ 1 \in 1 .. n /\ 2 \in 1 .. n
  BY <1>1
<1>3. Contains(token, Equals)
  BY <1>1, <1>2 DEF Contains
<1>4. Min(I) = 2
  <2>1. Min(I) \in I /\ Min(I) <= 2
    BY <1>2, MinMax
  <2> QED
    BY <1>1, <1>2, <2>1
<1>5. SelectInSeq(token, LAMBDA s : s = Equals) = 2
  BY <1>2, <1>4 DEF SelectInSeq
<1>6. SubSeq(token, 1, 1) = <<k>>
  <2>1. 1 \in 1 .. n + 1 /\ 1 \in 0 .. n /\ 1 \in 1 .. n
    BY <1>1
  <2>2. /\ SubSeq(token, 1, 1) \in Text /\ Len(SubSeq(token, 1, 1)) = 1
        /\ SubSeq(token, 1, 1)[1] = k
    BY <1>1, <2>1, SubSeqProperties DEF Text
  <2>3. <<k>> \in Text /\ Len(<<k>>) = 1 /\ <<k>>[1] = k
    BY DEF Text
  <2>4. \A i \in 1 .. 1 : i = 1
    OBVIOUS
  <2> DEFINE p == SubSeq(token, 1, 1)
             q == <<k>>
  <2> HIDE DEF p, q
  <2>5. p = q
    <3>1. p \in Seq(Symbols) /\ q \in Seq(Symbols) /\ Len(p) = Len(q)
          /\ \A i \in 1 .. Len(p) : p[i] = q[i]
      BY <2>2, <2>3, <2>4 DEF p, q, Text
    <3> QED
      BY <3>1, SeqEqual
  <2> QED
    BY <2>5 DEF p, q
<1>7. SubSeq(token, 3, n) = text
  <2>1. 3 \in 1 .. n + 1 /\ n \in 3 - 1 .. n
    BY <1>1
  <2>2. /\ SubSeq(token, 3, n) \in Text /\ Len(SubSeq(token, 3, n)) = Len(text)
        /\ \A i \in 1 .. Len(text) : SubSeq(token, 3, n)[i] = token[(3 + i) - 1]
    <3> HIDE DEF n
    <3>1. \A s \in Text : \A m \in 3 .. Len(s) + 1, l \in Nat :
            (l <= Len(s) /\ m <= l + 1) =>
              /\ SubSeq(s, m, l) \in Text /\ Len(SubSeq(s, m, l)) = (l - m) + 1
              /\ \A i \in 1 .. (l - m) + 1 : SubSeq(s, m, l)[i] = s[(m + i) - 1]
      BY SubSeqProperties DEF Text
    <3>2. n = Len(token) /\ 3 \in 3 .. Len(token) + 1 /\ n \in Nat /\ (n - 3) + 1 = Len(text)
      BY <1>1 DEF n
    <3> QED
      BY <1>1, <3>1, <3>2
  <2>3. \A i \in 1 .. Len(text) : (3 + i) - 1 = i + 2
    BY <1>1
  <2> QED
    BY <1>1, <2>2, <2>3, SeqEqual DEF Text
<1>8. IsKeyToken(<<k>>) <=> k \in KeyWords
  BY DEF IsKeyToken, ToSet
<1>9. ColorizeToken(token) = IF k \in KeyWords
             THEN Wrap(<<k>>, Base1) \o Wrap(<<Equals>>, Base1) \o ColorizeValueForKey(<<k>>, text)
             ELSE token
  <2> DEFINE eq == SelectInSeq(token, LAMBDA s : s = Equals)
  <2>1. ColorizeToken(token) =
          IF IsKeyToken(SubSeq(token, 1, eq - 1))
          THEN Wrap(SubSeq(token, 1, eq - 1), Base1) \o Wrap(<<Equals>>, Base1)
                 \o ColorizeValueForKey(SubSeq(token, 1, eq - 1), SubSeq(token, eq + 1, n))
          ELSE token
    BY <1>3, Zenon DEF ColorizeToken
  <2>2. eq - 1 = 1 /\ eq + 1 = 3
    <3> HIDE DEF eq
    <3>1. eq = 2
      BY <1>5 DEF eq
    <3> QED
      BY <3>1
  <2> HIDE DEF eq, n
  <2> QED
    BY <1>6, <1>7, <1>8, <2>1, <2>2
<1> QED
  BY <1>9 DEF token
(* Every symbol of a value is in its escapes, or a backslash is.           *)
LEMMA EscapeHas ==
  ASSUME NEW v \in Text
  PROVE  \A i \in 1 .. Len(v) : \E j \in 1 .. Len(Escape(v)) :
           Escape(v)[j] = EscapedSymbol(v[i])[1]
<1> DEFINE Has(u) == \A i \in 1 .. Len(u) : \E j \in 1 .. Len(Escape(u)) :
                       Escape(u)[j] = EscapedSymbol(u[i])[1]
           P == {u \in Text : Has(u)}
<1>1. <<>> \in P
  BY DEF Text
<1>2. ASSUME NEW u \in Text, NEW s \in Symbols, u \in P PROVE Append(u, s) \in P
  <2> DEFINE e == Escape(u)
             x == EscapedSymbol(s)
             a == Append(u, s)
  <2>1. e \in Text /\ x \in Text /\ Escape(a) = e \o x
    BY EscapeAppend, EscapedIs
  <2>2. Len(x) >= 1
    BY EscapedIs
  <2>3. /\ a \in Text /\ Len(a) = Len(u) + 1 /\ Len(u) \in Nat
        /\ a[Len(u) + 1] = s /\ \A i \in 1 .. Len(u) : a[i] = u[i]
    BY AppendProperties DEF Text
  <2> HIDE DEF e, x, a
  <2>4. /\ Len(e \o x) = Len(e) + Len(x) /\ Len(e) \in Nat /\ Len(x) \in Nat
        /\ \A j \in 1 .. Len(e) : (e \o x)[j] = e[j]
        /\ (e \o x)[Len(e) + 1] = x[1]
    BY <2>1, <2>2 DEF Text
  <2>5. ASSUME NEW i \in 1 .. Len(u) + 1
        PROVE  \E j \in 1 .. Len(e) + Len(x) : (e \o x)[j] = EscapedSymbol(a[i])[1]
    <3>1. CASE i \in 1 .. Len(u)
      <4>1. PICK j \in 1 .. Len(e) : e[j] = EscapedSymbol(u[i])[1]
        BY <1>2, <3>1 DEF e
      <4>2. j \in 1 .. Len(e) + Len(x)
        BY <2>4
      <4> QED
        BY <2>3, <2>4, <3>1, <4>1, <4>2
    <3>2. CASE i = Len(u) + 1
      <4>1. Len(e) + 1 \in 1 .. Len(e) + Len(x)
        BY <2>2, <2>4
      <4> QED
        BY <2>3, <2>4, <3>2, <4>1 DEF x
    <3> QED
      BY <2>3, <3>1, <3>2
  <2> QED
    BY <2>1, <2>3, <2>4, <2>5 DEF a
<1> HIDE DEF P
<1>3. Text \subseteq P
  BY <1>1, <1>2, Scanning!SeqIsInductive DEF Text
<1> QED
  BY <1>3 DEF P

(* What is between the quotes of a text: all of it, when it has none, and  *)
(* at least every symbol that is none.                                     *)
LEMMA TrimQuotesIs ==
  ASSUME NEW v \in Text
  PROVE  /\ (\A i \in 1 .. Len(v) : v[i] = Quote) => TrimQuotes(v) = <<>>
         /\ v # <<>> /\ (\A i \in 1 .. Len(v) : v[i] # Quote) => TrimQuotes(v) = v
         /\ \A i \in 1 .. Len(v) : v[i] # Quote =>
              \E j \in 1 .. Len(TrimQuotes(v)) : TrimQuotes(v)[j] = v[i]
<1> DEFINE n == Len(v)
           kept == {i \in DOMAIN v : v[i] # Quote}
<1>1. n \in Nat /\ DOMAIN v = 1 .. n /\ kept \in SUBSET (1 .. n)
  BY DEF Text
<1>2. TrimQuotes(v) = IF kept = {} THEN <<>> ELSE SubSeq(v, Min(kept), Max(kept))
  BY DEF TrimQuotes
<1>3. ASSUME kept # {}
      PROVE  /\ Min(kept) \in kept /\ Max(kept) \in kept
             /\ \A i \in kept : Min(kept) <= i /\ i <= Max(kept)
  BY <1>1, <1>3, MinMax
<1>4. ASSUME v # <<>>, \A i \in 1 .. n : v[i] # Quote PROVE TrimQuotes(v) = v
  <2>1. n \in 1 .. n /\ 1 \in 1 .. n
    BY <1>1, <1>4 DEF Text
  <2>2. 1 \in kept /\ n \in kept
    BY <1>1, <1>4, <2>1
  <2>3. /\ Min(kept) \in 1 .. n /\ Max(kept) \in 1 .. n
        /\ Min(kept) <= 1 /\ n <= Max(kept)
    BY <1>1, <1>3, <2>2
  <2> HIDE DEF kept
  <2>4. Min(kept) = 1 /\ Max(kept) = n
    BY <1>1, <2>3
  <2>5. SubSeq(v, 1, n) = v
    BY DEF Text
  <2> QED
    BY <1>2, <2>2, <2>4, <2>5
<1>5. ASSUME NEW i \in 1 .. n, v[i] # Quote
      PROVE  \E j \in 1 .. Len(TrimQuotes(v)) : TrimQuotes(v)[j] = v[i]
  <2> DEFINE lo == Min(kept)
             hi == Max(kept)
             cut == SubSeq(v, lo, hi)
             j == (i - lo) + 1
  <2>1. i \in kept
    BY <1>1, <1>5
  <2>2. lo \in 1 .. n /\ hi \in 1 .. n /\ lo <= i /\ i <= hi
    BY <1>1, <1>3, <2>1
  <2>3. TrimQuotes(v) = cut
    BY <1>2, <2>1
  <2> HIDE DEF kept, lo, hi
  <2>4. j \in 1 .. (hi - lo) + 1 /\ (lo + j) - 1 = i
    BY <1>1, <2>2
  <2>5. Len(cut) = (hi - lo) + 1 /\ \A l \in 1 .. (hi - lo) + 1 : cut[l] = v[(lo + l) - 1]
    <3>1. lo \in 1 .. n + 1 /\ hi \in lo - 1 .. n
      BY <1>1, <2>2
    <3> QED
      BY <2>2, <3>1, SubSeqProperties DEF Text
  <2> HIDE DEF cut, j
  <2>6. cut[j] = v[i] /\ j \in 1 .. Len(cut)
    BY <2>4, <2>5
  <2> QED
    BY <2>3, <2>6
<1>6. ASSUME \A i \in 1 .. n : v[i] = Quote PROVE TrimQuotes(v) = <<>>
  BY <1>1, <1>2, <1>6
<1> QED
  BY <1>4, <1>5, <1>6

(* So the colour of a value can be told from its text.                     *)
LEMMA BareIs ==
  ASSUME NEW v \in Text
  PROVE  LET bare == ToUpper(TrimQuotes(RenderedValue(v)))
         IN  /\ \A w \in {"DEBUG", "INFO", "WARN", "ERROR"} : bare = <<w>> <=> v = <<w>>
             /\ bare = <<"SUCCESS">> <=> v \in {<<"success">>, <<"SUCCESS">>}
<1> DEFINE words == {"DEBUG", "INFO", "WARN", "ERROR", "success", "SUCCESS"}
           r == RenderedValue(v)
<1>1. CASE ~NeedsQuoting(v)
  <2>1. r = v /\ v # <<>> /\ \A i \in 1 .. Len(v) : v[i] # Quote
    BY <1>1, RenderedIs DEF Plain
  <2>2. TrimQuotes(r) = v
    BY <2>1, TrimQuotesIs
  <2>3. ToUpper(v) = IF v = <<"success">> THEN <<"SUCCESS">> ELSE v
    BY DEF ToUpper
  <2> QED
    BY <2>2, <2>3
<1>2. CASE NeedsQuoting(v)
  <2> DEFINE e == Escape(v)
             bare == TrimQuotes(r)
  <2>1. /\ e \in Text /\ Quote \in Symbols /\ r \in Text
        /\ r = Append(<<Quote>> \o e, Quote)
    BY <1>2, EscapeAppend, SymbolFacts, RenderedIs
  <2> HIDE DEF e, r
  <2>2. /\ Len(r) = Len(e) + 2 /\ Len(e) \in Nat
        /\ r[1] = Quote /\ r[Len(e) + 2] = Quote
        /\ \A i \in 1 .. Len(e) : r[i + 1] = e[i]
    BY <2>1 DEF Text
  <2>3. \A w \in words : bare # <<w>> /\ v # <<w>>
    <3> HIDE DEF bare
    <3>0. /\ (\A i \in 1 .. Len(r) : r[i] = Quote) => bare = <<>>
          /\ \A i \in 1 .. Len(r) : r[i] # Quote =>
               \E k \in 1 .. Len(bare) : bare[k] = r[i]
      BY <2>1, TrimQuotesIs DEF bare
    <3>1. CASE v = <<>>
      <4>1. Len(e) = 0
        BY <3>1, EscapeAppend DEF e
      <4>2. \A i \in 1 .. Len(r) : i = 1 \/ i = 2
        BY <2>2, <4>1
      <4>3. bare = <<>>
        BY <2>2, <3>0, <4>1, <4>2
      <4> QED
        BY <3>1, <4>3
    <3>2. CASE v # <<>>
      <4>1. PICK s \in {Space, Equals, Quote, Newline} : Contains(v, s)
        BY <1>2, <3>2 DEF NeedsQuoting
      <4>2. PICK i \in 1 .. Len(v) : v[i] = s
        BY <4>1 DEF Contains
      <4>3. PICK j \in 1 .. Len(e) : e[j] = EscapedSymbol(s)[1]
        BY <4>2, EscapeHas DEF e
      <4>4. s \in Symbols /\ EscapedSymbol(s)[1] \in {Space, Equals, Backslash}
        BY EscapedIs, SymbolFacts
      <4>5. j + 1 \in 1 .. Len(r) /\ r[j + 1] = e[j] /\ r[j + 1] # Quote
        BY <2>2, <4>3, <4>4, SymbolFacts
      <4>6. PICK k \in 1 .. Len(bare) : bare[k] = EscapedSymbol(s)[1]
        BY <3>0, <4>3, <4>5
      <4>7. \A w \in words : EscapedSymbol(s)[1] # w /\ s # w
        BY <4>4, SymbolFacts
      <4> HIDE DEF words
      <4>8. ASSUME NEW w \in words PROVE bare # <<w>> /\ v # <<w>>
        <5>1. Len(<<w>>) = 1 /\ <<w>>[1] = w /\ \A l \in 1 .. 1 : l = 1
          OBVIOUS
        <5>2. ASSUME bare = <<w>> PROVE FALSE
          <6>1. k \in 1 .. 1
            BY <5>1, <5>2
          <6>2. k = 1
            BY <5>1, <6>1
          <6> QED
            BY <4>6, <4>7, <5>1, <5>2, <6>2
        <5>3. ASSUME v = <<w>> PROVE FALSE
          <6>1. i \in 1 .. 1
            BY <5>1, <5>3
          <6>2. i = 1
            BY <5>1, <6>1
          <6> QED
            BY <4>2, <4>7, <5>1, <5>3, <6>2
        <5> QED
          BY <5>2, <5>3
      <4> QED
        BY <4>8
    <3> QED
      BY <3>1, <3>2
  <2>4. ToUpper(bare) = bare
    BY <2>3 DEF ToUpper
  <2> HIDE DEF bare
  <2> QED
    BY <2>3, <2>4 DEF bare, r
<1> QED
  BY <1>1, <1>2

(* A coloured token is what a reader of its attribute expects.             *)
LEMMA ColouredAttribute ==
  ASSUME NEW a \in Attributes
  PROVE  ColorizeToken(RenderedAttribute(a)) = ExpectedAttribute(a)
<1> DEFINE k == a.key
           v == a.value
           text == RenderedValue(v)
           bare == ToUpper(TrimQuotes(text))
<1>1. k \in Symbols /\ k # Equals /\ v \in Text /\ text \in Text
  BY RenderedIs DEF Attributes
<1>2. /\ \A w \in {"DEBUG", "INFO", "WARN", "ERROR"} : bare = <<w>> <=> v = <<w>>
      /\ bare = <<"SUCCESS">> <=> v \in {<<"success">>, <<"SUCCESS">>}
  BY <1>1, BareIs
<1>3. ColorizeToken(RenderedAttribute(a))
        = IF k \in KeyWords
          THEN Wrap(<<k>>, Base1) \o Wrap(<<Equals>>, Base1) \o ColorizeValueForKey(<<k>>, text)
          ELSE <<k, Equals>> \o text
  BY <1>1, TokenIs DEF RenderedAttribute
<1>4. ColorizeValueForKey(<<k>>, text) = ExpectedValue(a)
  <2>1. /\ <<k>> = <<"level">> <=> k = "level"
        /\ <<k>> = <<"result">> <=> k = "result"
        /\ <<k>> = <<"name">> <=> k = "name"
    OBVIOUS
  <2>2. /\ bare = <<"DEBUG">> <=> v = <<"DEBUG">>
        /\ bare = <<"INFO">> <=> v = <<"INFO">>
        /\ bare = <<"WARN">> <=> v = <<"WARN">>
        /\ bare = <<"ERROR">> <=> v = <<"ERROR">>
    BY <1>2
  <2>3. CASE k = "level"
    BY <2>1, <2>2, <2>3 DEF ColorizeValueForKey, ExpectedValue
  <2>4. CASE k = "result"
    BY <1>2, <2>1, <2>4 DEF ColorizeValueForKey, ExpectedValue
  <2>5. CASE k = "name"
    BY <2>1, <2>5 DEF ColorizeValueForKey, ExpectedValue
  <2>6. CASE k \notin {"level", "result", "name"}
    BY <2>1, <2>6 DEF ColorizeValueForKey, ExpectedValue
  <2> QED
    BY <2>3, <2>4, <2>5, <2>6
<1> QED
  BY <1>3, <1>4 DEF ExpectedAttribute
-------------------------------------------------------------------------------
(* Lines.                                                                  *)

JoinText(line, text) == IF line = <<>> THEN text ELSE line \o <<Space>> \o text

Joining == INSTANCE SequenceFolds WITH op <- JoinText

Body(record) ==
  Joining!Fold(<<>>, [i \in 1 .. Len(record) |-> RenderedAttribute(record[i])])

ExpectedBody(record) ==
  Joining!Fold(<<>>, [i \in 1 .. Len(record) |-> ExpectedAttribute(record[i])])

(* A line is its body and the end of the line.                             *)
LEMMA LineIs ==
  ASSUME NEW record
  PROVE  /\ Rendered(record) = Body(record) \o <<Newline>>
         /\ Expected(record) = ExpectedBody(record) \o <<Newline>>
<1>1. \A texts : Joined(texts) = Joining!Fold(<<>>, texts) \o <<Newline>>
  BY DEF Joined, JoinText, Joining!Fold, FoldLeft, Joining!FoldLeft, MapThenFoldSet,
         Joining!MapThenFoldSet, Max, Joining!Max
<1> QED
  BY <1>1 DEF Rendered, Expected, Body, ExpectedBody, RenderedAttribute

(* What is expected of an attribute is a text.                             *)
LEMMA ExpectedTyped ==
  ASSUME NEW a \in Attributes
  PROVE  ExpectedAttribute(a) \in Text /\ ExpectedAttribute(a) # <<>>
<1>1. a.key \in Symbols /\ Equals \in Symbols /\ a.value \in Text
  BY SymbolFacts DEF Attributes
<1>2. RenderedValue(a.value) \in Text
  BY <1>1, RenderedIs
<1>3. {Base1, Base01, Blue, Green, Yellow, BoldYellow, Red, BoldRed, Violet, Reset} \subseteq Symbols
  BY DEF Symbols, Codes
<1>4. ASSUME NEW text \in Text, NEW code \in Symbols PROVE Wrap(text, code) \in Text
  BY <1>3, <1>4 DEF Wrap, Text
<1>5. ExpectedValue(a) \in Text
  <2> DEFINE v == a.value
             level == CASE v = <<"DEBUG">> -> Base01
                        [] v = <<"INFO">> -> Blue
                        [] v = <<"WARN">> -> BoldYellow
                        [] v = <<"ERROR">> -> BoldRed
                        [] OTHER -> Violet
             res == IF v \in {<<"success">>, <<"SUCCESS">>} THEN Green ELSE Red
             text == RenderedValue(v)
  <2>1. level \in Symbols /\ res \in Symbols /\ Yellow \in Symbols
    BY <1>3
  <2>2. ExpectedValue(a) \in {Wrap(text, level), Wrap(text, res), Wrap(text, Yellow), text}
    BY DEF ExpectedValue
  <2> HIDE DEF level, res, text
  <2>3. text \in Text
    BY <1>2 DEF text
  <2> QED
    BY <1>4, <2>1, <2>2, <2>3
<1>6. CASE a.key \in KeyWords
  <2> DEFINE k == Wrap(<<a.key>>, Base1)
             q == Wrap(<<Equals>>, Base1)
             v == ExpectedValue(a)
  <2>1. <<a.key>> \in Text /\ <<Equals>> \in Text
    BY <1>1 DEF Text
  <2>2. k \in Text /\ q \in Text /\ v \in Text
    BY <1>3, <1>4, <1>5, <2>1
  <2>3. Len(k) >= 1
    BY <1>1, <1>3 DEF Wrap
  <2>4. ExpectedAttribute(a) = (k \o q) \o v
    BY <1>6 DEF ExpectedAttribute
  <2> HIDE DEF k, q, v
  <2>5. (k \o q) \o v \in Text /\ Len((k \o q) \o v) >= 1
    BY <2>2, <2>3 DEF Text
  <2> QED
    BY <2>4, <2>5
<1>7. CASE a.key \notin KeyWords
  BY <1>7, RunAttribute DEF ExpectedAttribute, RenderedAttribute
<1> QED
  BY <1>6, <1>7

(* One attribute more.                                                     *)
LEMMA BodyAppend ==
  /\ Body(<<>>) = <<>> /\ ExpectedBody(<<>>) = <<>>
  /\ \A r \in Seq(Attributes), a \in Attributes :
       /\ Body(Append(r, a)) = JoinText(Body(r), RenderedAttribute(a))
       /\ ExpectedBody(Append(r, a)) = JoinText(ExpectedBody(r), ExpectedAttribute(a))
<1> DEFINE f == [a \in Attributes |-> RenderedAttribute(a)]
           g == [a \in Attributes |-> ExpectedAttribute(a)]
           Map(h, r) == [i \in 1 .. Len(r) |-> h[r[i]]]
<1>1. f \in [Attributes -> Text] /\ g \in [Attributes -> Text]
  BY RunAttribute, ExpectedTyped
<1>2. ASSUME NEW r \in Seq(Attributes)
      PROVE  /\ Body(r) = Joining!Fold(<<>>, Map(f, r))
             /\ ExpectedBody(r) = Joining!Fold(<<>>, Map(g, r))
  <2>1. \A i \in 1 .. Len(r) : r[i] \in Attributes
    OBVIOUS
  <2>2. /\ [i \in 1 .. Len(r) |-> RenderedAttribute(r[i])] = Map(f, r)
        /\ [i \in 1 .. Len(r) |-> ExpectedAttribute(r[i])] = Map(g, r)
    BY <2>1
  <2> QED
    BY <2>2 DEF Body, ExpectedBody
<1>3. Body(<<>>) = <<>> /\ ExpectedBody(<<>>) = <<>>
  <2>1. <<>> \in Seq(Attributes) /\ Map(f, <<>>) = <<>> /\ Map(g, <<>>) = <<>>
    OBVIOUS
  <2>2. Joining!Fold(<<>>, <<>>) = <<>>
    BY Joining!FoldEmpty
  <2> HIDE DEF Map
  <2> QED
    BY <1>2, <2>1, <2>2
<1>4. ASSUME NEW r \in Seq(Attributes), NEW a \in Attributes
      PROVE  /\ Body(Append(r, a)) = JoinText(Body(r), RenderedAttribute(a))
             /\ ExpectedBody(Append(r, a)) = JoinText(ExpectedBody(r), ExpectedAttribute(a))
  <2>1. f[a] = RenderedAttribute(a) /\ g[a] = ExpectedAttribute(a)
    OBVIOUS
  <2> HIDE DEF f, g
  <2>2. ASSUME NEW h \in [Attributes -> Text]
        PROVE  /\ Map(h, r) \in Seq(Text) /\ h[a] \in Text
               /\ Map(h, Append(r, a)) = Append(Map(h, r), h[a])
    BY MapAppend
  <2> HIDE DEF Map
  <2>3. ASSUME NEW h \in [Attributes -> Text]
        PROVE  Joining!Fold(<<>>, Map(h, Append(r, a))) = JoinText(Joining!Fold(<<>>, Map(h, r)), h[a])
    <3>1. ASSUME NEW m \in Seq(Text), NEW z \in Text
          PROVE  Joining!Fold(<<>>, Append(m, z)) = JoinText(Joining!Fold(<<>>, m), z)
      BY Joining!FoldAppend
    <3> QED
      BY <2>2, <3>1
  <2>4. Append(r, a) \in Seq(Attributes)
    BY AppendProperties
  <2> QED
    BY <1>1, <1>2, <2>1, <2>3, <2>4
<1> QED
  BY <1>3, <1>4

(* The scanner at the end of a token.                                      *)
LEMMA ScanBlank ==
  ASSUME NEW o, NEW t, NEW c \in {Space, Newline}
  PROVE  Scan(At(o, t, FALSE), c) = At(o \o ColorizeToken(t) \o <<c>>, <<>>, FALSE)
BY DEF Scan, At

(* There is nothing to colour between two blanks.                          *)
LEMMA NoToken == ColorizeToken(<<>>) = <<>>
BY DEF ColorizeToken, Contains

(* Attribute after attribute, what the scanner has written and the token   *)
(* it has not are what is expected.                                        *)
Start == At(<<>>, <<>>, FALSE)

Scanned(r) ==
  /\ Body(r) \in Text /\ ExpectedBody(r) \in Text
  /\ Body(r) = <<>> <=> ExpectedBody(r) = <<>>
  /\ \E o, t : /\ Run(Start, Body(r)) = At(o, t, FALSE)
               /\ o \o ColorizeToken(t) = ExpectedBody(r)

(* With one attribute more it is still so.                                 *)
LEMMA ScannedAppend ==
  ASSUME NEW r \in Seq(Attributes), Scanned(r), NEW a \in Attributes
  PROVE  Scanned(Append(r, a))
<1> DEFINE b == Body(r)
           e == ExpectedBody(r)
           x == RenderedAttribute(a)
           y == ExpectedAttribute(a)
<1>1. /\ Body(Append(r, a)) = JoinText(b, x)
      /\ ExpectedBody(Append(r, a)) = JoinText(e, y)
  BY BodyAppend
<1>2. /\ x \in Text /\ x # <<>> /\ y \in Text /\ y # <<>>
      /\ \A o : Run(At(o, <<>>, FALSE), x) = At(o, x, FALSE)
      /\ ColorizeToken(x) = y
  BY RunAttribute, ExpectedTyped, ColouredAttribute
<1>3. b \in Text /\ e \in Text /\ (b = <<>> <=> e = <<>>)
  BY DEF Scanned
<1>4. PICK o, t : Run(Start, b) = At(o, t, FALSE) /\ o \o ColorizeToken(t) = e
  BY DEF Scanned
<1> HIDE DEF b, e, x, y
<1>5. CASE b = <<>>
  <2>1. Body(Append(r, a)) = x /\ ExpectedBody(Append(r, a)) = y
    BY <1>1, <1>3, <1>5 DEF JoinText
  <2>2. Run(Start, x) = At(<<>>, x, FALSE)
    BY <1>2 DEF Start
  <2>3. <<>> \o ColorizeToken(x) = y
    BY <1>2, ConcatEmptySeq DEF Text
  <2> QED
    BY <1>2, <2>1, <2>2, <2>3 DEF Scanned
<1>6. CASE b # <<>>
  <2> DEFINE s == <<Space>>
  <2>1. s \in Text /\ Space \in Symbols
    BY SymbolFacts DEF Text
  <2>2. Run(At(o, t, FALSE), s) = At(e \o s, <<>>, FALSE)
    <3>1. Run(At(o, t, FALSE), s) = Scan(At(o, t, FALSE), Space)
      BY <2>1, RunFacts
    <3> QED
      BY <1>4, <3>1, ScanBlank
  <2>3. /\ Body(Append(r, a)) = (b \o s) \o x
        /\ ExpectedBody(Append(r, a)) = (e \o s) \o y
    BY <1>1, <1>3, <1>6 DEF JoinText
  <2>4. Len(s) = 1
    OBVIOUS
  <2> HIDE DEF s
  <2>5. /\ b \o s \in Text /\ (b \o s) \o x \in Text /\ (e \o s) \o y \in Text
        /\ (b \o s) \o x # <<>> /\ (e \o s) \o y # <<>>
    <3>1. ASSUME NEW p \in Text, NEW q \in Text
          PROVE  p \o s \in Text /\ (p \o s) \o q \in Text /\ (p \o s) \o q # <<>>
      <4>0. \A l, m \in Text : /\ l \o m \in Text /\ Len(l \o m) = Len(l) + Len(m)
                               /\ Len(l) \in Nat /\ Len(m) \in Nat
        BY ConcatProperties DEF Text
      <4>1. p \o s \in Text /\ Len(p \o s) = Len(p) + 1 /\ Len(p) \in Nat
        BY <2>1, <2>4, <4>0
      <4>2. (p \o s) \o q \in Text /\ Len((p \o s) \o q) = Len(p \o s) + Len(q) /\ Len(q) \in Nat
        BY <4>0, <4>1
      <4>3. Len((p \o s) \o q) # 0
        BY <4>1, <4>2
      <4> QED
        BY <4>1, <4>2, <4>3
    <3> QED
      BY <1>2, <1>3, <3>1
  <2>6. Run(Start, (b \o s) \o x) = Run(Run(Run(Start, b), s), x)
    BY <1>2, <1>3, <2>1, <2>5, RunFacts
  <2>7. Run(Start, (b \o s) \o x) = At(e \o s, x, FALSE)
    BY <1>2, <1>4, <2>2, <2>6
  <2>8. (e \o s) \o ColorizeToken(x) = (e \o s) \o y
    BY <1>2
  <2> QED
    BY <2>3, <2>5, <2>7, <2>8 DEF Scanned
<1> QED
  BY <1>5, <1>6

(* A line of the log, coloured after its text, reads as its attributes     *)
(* were meant: for any values (colorizeSlogTextLine).                      *)
THEOREM LineReadsAsRecord ==
  ASSUME NEW record \in Seq(Attributes)
  PROVE  ColorizeSlogTextLine(Rendered(record)) = Expected(record)
<1> DEFINE P == {r \in Seq(Attributes) : Scanned(r)}
<1>1. <<>> \in P
  <2>1. Run(Start, <<>>) = At(<<>>, <<>>, FALSE)
    BY RunFacts DEF Start
  <2>2. <<>> \in Text /\ <<>> \o <<>> = <<>>
    BY DEF Text
  <2>3. Body(<<>>) = <<>> /\ ExpectedBody(<<>>) = <<>>
    BY BodyAppend
  <2>4. Scanned(<<>>)
    BY <2>1, <2>2, <2>3, NoToken DEF Scanned
  <2> QED
    BY <2>4
<1>2. ASSUME NEW r \in Seq(Attributes), NEW a \in Attributes, r \in P PROVE Append(r, a) \in P
  BY <1>2, ScannedAppend, AppendProperties
<1> HIDE DEF P
<1>3. Seq(Attributes) \subseteq P
  BY <1>1, <1>2, Scanning!SeqIsInductive
<1>4. Scanned(record)
  BY <1>3 DEF P
<1> DEFINE b == Body(record)
           e == ExpectedBody(record)
<1>5. PICK o, t : Run(Start, b) = At(o, t, FALSE) /\ o \o ColorizeToken(t) = e
  BY <1>4 DEF Scanned
<1>6. b \in Text /\ e \in Text /\ Newline \in Symbols
  BY <1>4, SymbolFacts DEF Scanned
<1>7. Rendered(record) = b \o <<Newline>> /\ Expected(record) = e \o <<Newline>>
  BY LineIs
<1> DEFINE l == <<Newline>>
<1>8. l \in Text
  BY <1>6 DEF Text
<1>9. Run(At(o, t, FALSE), l) = At(e \o l, <<>>, FALSE)
  <2>1. Run(At(o, t, FALSE), l) = Scan(At(o, t, FALSE), Newline)
    BY <1>6, RunFacts
  <2> QED
    BY <1>5, <2>1, ScanBlank
<1> HIDE DEF b, e, l
<1>10. Run(Start, b \o l) = At(e \o l, <<>>, FALSE)
  <2>1. Run(Start, b \o l) = Run(Run(Start, b), l)
    BY <1>6, <1>8, RunFacts
  <2> QED
    BY <1>5, <1>9, <2>1
<1>11. ColorizeSlogTextLine(Rendered(record))
         = Run(Start, b \o l).out \o ColorizeToken(Run(Start, b \o l).token)
  <2>1. \A line : ColorizeSlogTextLine(line) = Run(Start, line).out \o ColorizeToken(Run(Start, line).token)
    BY SameFolds DEF ColorizeSlogTextLine, Start, At
  <2> QED
    BY <1>7, <2>1 DEF l
<1>12. (e \o l) \o <<>> = e \o l
  BY <1>6, <1>8, ConcatEmptySeq, ConcatProperties DEF Text
<1>13. Run(Start, b \o l).out = e \o l /\ Run(Start, b \o l).token = <<>>
  BY <1>10 DEF At
<1> QED
  BY <1>7, <1>11, <1>12, <1>13, NoToken DEF l

-------------------------------------------------------------------------------
(* The lines of the log.                                                   *)

(* What is logged is what the calls may log.                               *)
Logged ==
  /\ env \in Environments
  /\ Len(logged) <= Len(Records)
  /\ \A n \in 1 .. Len(logged) : \E record \in Records[n] : logged[n] = Rendered(record)

(* The queue is the last of it.                                            *)
QueueIsLast ==
  /\ Len(pending) <= Len(logged)
  /\ \A k \in 1 .. Len(pending) : pending[k] = logged[(Len(logged) - Len(pending)) + k]

(* What the target has taken whole is what has become of a logged line.    *)
SentWhole ==
  \A i \in 1 .. Len(stream) : stream[i].whole =>
    /\ stream[i].n \in 1 .. Len(logged)
    /\ stream[i].text = Out(logged[stream[i].n])

LinesInv == Types /\ Logged /\ QueueIsLast /\ SentWhole

(* The log starts in the invariant.                                        *)
LEMMA InitLines == Init => LinesInv
<1> SUFFICES ASSUME Init PROVE LinesInv
  OBVIOUS
<1>1. Types
  BY InitQueue DEF QueueInv
<1>2. Len(logged) = 0 /\ Len(pending) = 0 /\ Len(stream) = 0
  BY DEF Init
<1>3. env \in Environments /\ Len(Records) \in Nat
  BY ColorWriterAssumption DEF Init
<1> QED
  BY <1>1, <1>2, <1>3 DEF LinesInv, Logged, QueueIsLast, SentWhole

(* A record that is logged keeps it.                                       *)
LEMMA WriteLines ==
  ASSUME LinesInv, QueueInv', Len(logged) < Len(Records),
         NEW record \in Records[Len(logged) + 1], Write(record)
  PROVE  LinesInv'
<1> DEFINE line == Rendered(record)
           l == Len(logged)
           p == Len(pending)
<1>1. /\ logged' = Append(logged, line) /\ pending' = Append(pending, line)
      /\ UNCHANGED <<env, stream>>
  BY DEF Write
<1>2. l \in Nat /\ p \in Nat /\ Len(Records) \in Nat
  BY ColorWriterAssumption DEF LinesInv, Types
<1>3. /\ Len(logged') = l + 1 /\ logged'[l + 1] = line
      /\ \A n \in 1 .. l : logged'[n] = logged[n]
      /\ Len(pending') = p + 1 /\ pending'[p + 1] = line
      /\ \A k \in 1 .. p : pending'[k] = pending[k]
  <2>1. ASSUME NEW S, NEW s \in Seq(S), NEW e
        PROVE  /\ Len(Append(s, e)) = Len(s) + 1 /\ Append(s, e)[Len(s) + 1] = e
               /\ \A i \in 1 .. Len(s) : Append(s, e)[i] = s[i]
    OBVIOUS
  <2>2. logged \in Seq(Texts) /\ pending \in Seq(Texts)
    BY DEF LinesInv, Types
  <2> HIDE DEF line
  <2> QED
    BY <1>1, <2>1, <2>2
<1> HIDE DEF line, l, p
<1>4. Logged'
  <2>1. \A n \in 1 .. l + 1 : n \in 1 .. l \/ n = l + 1
    BY <1>2
  <2>2. \A n \in 1 .. l : \E r \in Records[n] : logged[n] = Rendered(r)
    BY DEF LinesInv, Logged, l
  <2>3. l + 1 <= Len(Records)
    BY <1>2 DEF l
  <2>4. \E r \in Records[l + 1] : logged'[l + 1] = Rendered(r)
    BY <1>3 DEF l, line
  <2>5. env' \in Environments
    BY <1>1 DEF LinesInv, Logged
  <2> QED
    BY <1>3, <2>1, <2>2, <2>3, <2>4, <2>5 DEF Logged
<1>5. QueueIsLast'
  <2>1. p <= l /\ \A k \in 1 .. p : pending[k] = logged[(l - p) + k]
    BY DEF LinesInv, QueueIsLast, l, p
  <2>2. ASSUME NEW k \in 1 .. p + 1 PROVE pending'[k] = logged'[((l + 1) - (p + 1)) + k]
    <3>1. ((l + 1) - (p + 1)) + k = (l - p) + k
      BY <1>2
    <3>2. CASE k \in 1 .. p
      <4>1. (l - p) + k \in 1 .. l
        BY <1>2, <2>1, <3>2
      <4> QED
        BY <1>3, <2>1, <3>1, <3>2, <4>1
    <3>3. CASE k = p + 1
      <4>1. (l - p) + k = l + 1
        BY <1>2, <3>3
      <4> QED
        BY <1>3, <3>1, <3>3, <4>1
    <3> QED
      BY <1>2, <3>2, <3>3
  <2>3. p + 1 <= l + 1
    BY <1>2, <2>1
  <2> QED
    BY <1>3, <2>2, <2>3 DEF QueueIsLast
<1>6. SentWhole'
  <2>1. ASSUME NEW i \in 1 .. Len(stream), stream[i].whole
        PROVE  /\ stream[i].n \in 1 .. l + 1
               /\ stream[i].text = Out(logged[stream[i].n]) /\ logged'[stream[i].n] = logged[stream[i].n]
    <3>1. stream[i].n \in 1 .. l /\ stream[i].text = Out(logged[stream[i].n])
      BY <2>1 DEF LinesInv, SentWhole, l
    <3> QED
      BY <1>2, <1>3, <3>1
  <2>2. \A x : Out(x)' = Out(x)
    BY <1>1 DEF Out, colorize
  <2> QED
    BY <1>1, <1>3, <2>1, <2>2 DEF SentWhole, Out, colorize
<1> QED
  BY <1>4, <1>5, <1>6 DEF LinesInv, QueueInv

(* A line that is taken is the first of the queue, so the one it says.     *)
LEMMA TakesLines ==
  ASSUME LinesInv, QueueInv', TargetTakesLine
  PROVE  LinesInv'
<1> DEFINE l == Len(logged)
           p == Len(pending)
           chunk == [n |-> Current, text |-> Out(Head(pending)), whole |-> TRUE]
<1>1. /\ pending # <<>> /\ stream' = Append(stream, chunk) /\ pending' = Tail(pending)
      /\ UNCHANGED <<env, logged>>
  BY DEF TargetTakesLine
<1>2. l \in Nat /\ p \in Nat \ {0} /\ pending \in Seq(Texts) /\ stream \in Seq(Chunks)
  BY <1>1 DEF LinesInv, Types
<1>3. p <= l /\ \A k \in 1 .. p : pending[k] = logged[(l - p) + k]
  BY DEF LinesInv, QueueIsLast
<1>4. Current \in 1 .. l /\ Head(pending) = logged[Current]
  <2>1. Current = (l - p) + 1 /\ 1 \in 1 .. p
    BY <1>2 DEF Current
  <2>2. Head(pending) = pending[1]
    BY <1>2
  <2> QED
    BY <1>2, <1>3, <2>1, <2>2
<1>5. Len(pending') = p - 1 /\ \A k \in 1 .. p - 1 : pending'[k] = pending[k + 1]
  BY <1>1, <1>2
<1>6. /\ Len(stream') = Len(stream) + 1 /\ Len(stream) \in Nat
      /\ stream'[Len(stream) + 1] = chunk
      /\ \A i \in 1 .. Len(stream) : stream'[i] = stream[i]
  <2>1. ASSUME NEW S, NEW s \in Seq(S), NEW e
        PROVE  /\ Len(Append(s, e)) = Len(s) + 1 /\ Append(s, e)[Len(s) + 1] = e
               /\ \A i \in 1 .. Len(s) : Append(s, e)[i] = s[i]
    OBVIOUS
  <2> HIDE DEF chunk
  <2> QED
    BY <1>1, <1>2, <2>1
<1>7. Logged'
  BY <1>1 DEF LinesInv, Logged
<1>8. QueueIsLast'
  <2>1. ASSUME NEW k \in 1 .. p - 1 PROVE pending'[k] = logged[(l - (p - 1)) + k]
    <3>1. k + 1 \in 1 .. p /\ (l - p) + (k + 1) = (l - (p - 1)) + k
      BY <1>2
    <3> QED
      BY <1>3, <1>5, <3>1
  <2>2. p - 1 <= l
    BY <1>2, <1>3
  <2> QED
    BY <1>1, <1>5, <2>1, <2>2 DEF QueueIsLast
<1>9. SentWhole'
  <2>1. \A x : Out(x)' = Out(x)
    BY <1>1 DEF Out, colorize
  <2>2. chunk.n \in 1 .. l /\ chunk.text = Out(logged[chunk.n])
    BY <1>4
  <2> HIDE DEF chunk
  <2>3. ASSUME NEW i \in 1 .. Len(stream) + 1, stream'[i].whole
        PROVE  stream'[i].n \in 1 .. l /\ stream'[i].text = Out(logged[stream'[i].n])
    <3>1. CASE i \in 1 .. Len(stream)
      BY <1>6, <2>3, <3>1 DEF LinesInv, SentWhole
    <3>2. CASE i = Len(stream) + 1
      BY <1>6, <2>2, <3>2
    <3> QED
      BY <1>6, <3>1, <3>2
  <2> QED
    BY <1>1, <1>6, <2>1, <2>3 DEF SentWhole, Out, colorize
<1> QED
  BY <1>7, <1>8, <1>9 DEF LinesInv, QueueInv

(* A line that is broken off stays in the queue, or the queue is dropped.  *)
LEMMA FailsLines ==
  ASSUME LinesInv, QueueInv', NEW taken \in Cuts, TargetFails(taken)
  PROVE  LinesInv'
<1> DEFINE chunk == [n |-> Current, whole |-> FALSE,
                     text |-> SubSeq(Out(Head(pending)), 1, taken)]
<1>1. /\ stream' = Append(stream, chunk)
      /\ pending' = pending \/ pending' = <<>>
      /\ UNCHANGED <<env, logged>>
  BY DEF TargetFails
<1>2. chunk.whole = FALSE
  OBVIOUS
<1> HIDE DEF chunk
<1>3. Logged'
  BY <1>1 DEF LinesInv, Logged
<1>4. QueueIsLast'
  <2>1. Len(logged) \in Nat /\ Len(<<>>) = 0
    BY DEF LinesInv, Types
  <2>2. CASE pending' = pending
    BY <1>1, <2>2 DEF LinesInv, QueueIsLast
  <2>3. CASE pending' = <<>>
    <3>1. Len(pending') = 0 /\ Len(logged') \in Nat
      BY <1>1, <2>1, <2>3
    <3> QED
      BY <3>1 DEF QueueIsLast
  <2> QED
    BY <1>1, <2>2, <2>3
<1>5. SentWhole'
  <2>1. stream \in Seq(Chunks)
    BY DEF LinesInv, Types
  <2>2. /\ Len(stream') = Len(stream) + 1 /\ Len(stream) \in Nat
        /\ stream'[Len(stream) + 1] = chunk
        /\ \A i \in 1 .. Len(stream) : stream'[i] = stream[i]
    BY <1>1, <2>1
  <2>3. \A x : Out(x)' = Out(x)
    BY <1>1 DEF Out, colorize
  <2>4. ASSUME NEW i \in 1 .. Len(stream) + 1, stream'[i].whole
        PROVE  stream'[i].n \in 1 .. Len(logged) /\ stream'[i].text = Out(logged[stream'[i].n])
    <3>1. i \in 1 .. Len(stream)
      BY <1>2, <2>2, <2>4
    <3> QED
      BY <2>2, <2>4, <3>1 DEF LinesInv, SentWhole
  <2> QED
    BY <1>1, <2>2, <2>3, <2>4 DEF SentWhole, Out, colorize
<1> QED
  BY <1>3, <1>4, <1>5 DEF LinesInv, QueueInv

(* And so does every step.                                                 *)
LEMMA NextLines == LinesInv /\ QueueInv' /\ [Next]_vars => LinesInv'
<1> SUFFICES ASSUME LinesInv, QueueInv', [Next]_vars PROVE LinesInv'
  OBVIOUS
<1>1. ASSUME UNCHANGED <<env, logged, pending, stream>> PROVE LinesInv'
  BY <1>1 DEF LinesInv, QueueInv, Logged, QueueIsLast, SentWhole, Out, colorize
<1>2. CASE WriteReturns \/ UNCHANGED vars
  BY <1>1, <1>2 DEF WriteReturns, vars
<1>3. CASE \E taken \in Cuts : TargetFails(taken)
  BY <1>3, FailsLines
<1>4. CASE TargetTakesLine
  BY <1>4, TakesLines
<1>5. CASE /\ Len(logged) < Len(Records)
           /\ \E record \in Records[Len(logged) + 1] : Write(record)
  BY <1>5, WriteLines
<1> QED
  BY <1>2, <1>3, <1>4, <1>5 DEF Next

(* Whether there are colours is what a reader of the three variables and   *)
(* the terminal would say.                                                 *)
LEMMA ColorsAreWanted ==
  ASSUME env \in Environments PROVE colorize <=> WantsColors
BY DEF Environments, colorize, ShouldColorizeOutput, WantsColors

(* The records are sequences of attributes.                                *)
LEMMA RecordsTyped ==
  ASSUME NEW n \in 1 .. Len(Records), NEW record \in Records[n]
  PROVE  record \in Seq(Attributes)
<1>1. /\ record \in Seq([key : STRING, value : Seq(STRING)])
      /\ \A i \in DOMAIN record : record[i].key \notin {Space, Equals, Quote, Newline}
  BY ColorWriterAssumption
<1>2. Seq(STRING) \subseteq Text
  <2>1. ASSUME NEW S, NEW T, S \subseteq T PROVE Seq(S) \subseteq Seq(T)
    BY <2>1
  <2>2. STRING \subseteq Symbols
    BY DEF Symbols
  <2> QED
    BY <2>1, <2>2 DEF Text
<1>3. STRING \subseteq Symbols
  BY DEF Symbols
<1>4. [key : STRING, value : Seq(STRING)] \subseteq [key : Symbols, value : Text]
  BY <1>2, <1>3
<1>5. ASSUME NEW S, NEW T, S \subseteq T, NEW s \in Seq(S), \A i \in DOMAIN s : s[i].key \notin {Space, Equals, Quote, Newline}
      PROVE  s \in Seq({a \in T : a.key \notin {Space, Equals, Quote, Newline}})
  BY <1>5
<1> QED
  BY <1>1, <1>4, <1>5 DEF Attributes

(* Whatever is logged, on whatever output and however often it fails: each *)
(* line that arrives whole reads as it was logged, with its colours if the *)
(* output wants them and without one escape code if not.                   *)
THEOREM LinesAlwaysRead == Spec => []LinesReadAsLogged
<1>1. Init => LinesInv
  BY InitLines
<1>2. LinesInv /\ QueueInv' /\ [Next]_vars => LinesInv'
  BY NextLines
<1>3. LinesInv => LinesReadAsLogged
  <2> SUFFICES ASSUME LinesInv, NEW i \in DOMAIN stream, stream[i].whole
               PROVE  \E record \in Records[stream[i].n] :
                        /\ logged[stream[i].n] = Rendered(record)
                        /\ stream[i].text = IF WantsColors THEN Expected(record) ELSE Rendered(record)
    BY DEF LinesReadAsLogged
  <2> DEFINE n == stream[i].n
  <2>1. i \in 1 .. Len(stream)
    BY DEF LinesInv, Types
  <2>2. n \in 1 .. Len(logged) /\ stream[i].text = Out(logged[n])
    BY <2>1 DEF LinesInv, SentWhole
  <2>3. Len(logged) \in Nat /\ Len(Records) \in Nat /\ Len(logged) <= Len(Records)
    BY ColorWriterAssumption DEF LinesInv, Logged, Types
  <2> HIDE DEF n
  <2>4. n \in 1 .. Len(Records)
    BY <2>2, <2>3
  <2>5. PICK record \in Records[n] : logged[n] = Rendered(record)
    BY <2>2 DEF LinesInv, Logged
  <2>6. record \in Seq(Attributes)
    BY <2>4, RecordsTyped
  <2>7. ColorizeSlogTextLine(Rendered(record)) = Expected(record)
    BY <2>6, LineReadsAsRecord
  <2>8. colorize <=> WantsColors
    BY ColorsAreWanted DEF LinesInv, Logged
  <2> QED
    BY <2>2, <2>5, <2>7, <2>8 DEF n, Out
<1> QED
  BY <1>1, <1>2, <1>3, QueueInvariance, PTL DEF Spec
=============================================================================
