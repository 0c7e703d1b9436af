---------------------------- MODULE SequenceFolds ----------------------------
(***************************************************************************)
(* What FoldLeft and FlattenSeq of the community modules compute, and      *)
(* induction over sequences, stated so that they can be cited: the         *)
(* property to be shown is a set, and the operator that is folded is the   *)
(* parameter of this module, for INSTANCE ... WITH op <- ... to name.      *)
(***************************************************************************)
EXTENDS Integers, SequencesExt, SequenceTheorems, WellFoundedInduction, TLAPS

CONSTANT op(_, _)

Fold(base, seq) == FoldLeft(op, base, seq)

-----------------------------------------------------------------------------
(* A set of natural numbers that is not empty has a least element.         *)
LEMMA LeastNat ==
  ASSUME NEW T, T \subseteq Nat, T # {}
  PROVE  \E n \in T : \A m \in T : n =< m
<1> DEFINE R == OpToRel(<, Nat)
<1>1. IsWellFoundedOn(R, Nat)
  BY NatLessThanWellFounded
<1>2. \A m, n \in Nat : <<m, n>> \in R <=> m < n
  BY DEF OpToRel
<1> HIDE DEF R
<1>3. PICK n \in T : \A m \in T : ~(<<m, n>> \in R)
  BY <1>1, WFMin
<1>4. ASSUME NEW m \in T PROVE n =< m
  <2>1. m \in Nat /\ n \in Nat
    OBVIOUS
  <2>2. ~(m < n)
    BY <1>2, <1>3, <2>1
  <2> QED
    BY <2>1, <2>2
<1> QED
  BY <1>4

(* A set that has 0 and with n also n + 1 has every natural number:        *)
(* induction with a set in place of the predicate.                         *)
LEMMA NatIsInductive ==
  ASSUME NEW P, 0 \in P, \A n \in Nat : n \in P => n + 1 \in P
  PROVE  Nat \subseteq P
<1> SUFFICES ASSUME Nat \ P # {} PROVE FALSE
  OBVIOUS
<1>1. PICK n \in Nat \ P : \A m \in Nat \ P : n =< m
  BY LeastNat
<1>2. n # 0
  OBVIOUS
<1>3. n - 1 \in Nat /\ n - 1 \in P
  BY <1>1, <1>2
<1>4. (n - 1) + 1 = n
  BY <1>1
<1> QED
  BY <1>1, <1>3, <1>4

(* s is n elements and one after them.                                     *)
EndsInOne(S, s, n) == \E t \in Seq(S), e \in S : Len(t) = n /\ s = Append(t, e)

(* Every sequence that is not empty is.                                    *)
LEMMA FrontAndLast ==
  ASSUME NEW S, NEW s \in Seq(S), NEW n \in Nat, Len(s) = n + 1
  PROVE  EndsInOne(S, s, n)
<1> DEFINE t == SubSeq(s, 1, n)
<1>1. t \in Seq(S) /\ Len(t) = n /\ \A i \in 1 .. n : t[i] = s[i]
  BY SubSeqProperties
<1>2. s[n + 1] \in S
  OBVIOUS
<1>3. s = Append(t, s[n + 1])
  <2> HIDE DEF t
  <2>1. \A q \in Seq(S), e \in S :
          /\ Append(q, e) \in Seq(S) /\ Len(Append(q, e)) = Len(q) + 1
          /\ \A i \in 1 .. Len(q) : Append(q, e)[i] = q[i]
          /\ Append(q, e)[Len(q) + 1] = e
    BY AppendProperties
  <2>2. \A i \in 1 .. n + 1 : i \in 1 .. n \/ i = n + 1
    OBVIOUS
  <2>3. /\ Append(t, s[n + 1]) \in Seq(S) /\ Len(Append(t, s[n + 1])) = Len(s)
        /\ \A i \in 1 .. n + 1 : Append(t, s[n + 1])[i] = s[i]
    BY <1>1, <1>2, <2>1, <2>2
  <2> QED
    BY <2>3, SeqEqual
<1> QED
  BY <1>1, <1>2, <1>3 DEF EndsInOne

(* P has the empty sequence, and with s also every Append(s, e).           *)
Inductive(S, P) ==
  /\ <<>> \in P
  /\ \A s \in Seq(S), e \in S : s \in P => Append(s, e) \in P

(* Such a set has every sequence, by induction on the length.              *)
LEMMA InductiveHasAll ==
  ASSUME NEW S, NEW P, Inductive(S, P)
  PROVE  Seq(S) \subseteq P
<1> DEFINE Q == {n \in Nat : \A s \in Seq(S) : Len(s) = n => s \in P}
<1>1. 0 \in Q
  BY EmptySeq DEF Inductive
<1>2. ASSUME NEW n \in Nat, n \in Q PROVE n + 1 \in Q
  <2> SUFFICES ASSUME NEW s \in Seq(S), Len(s) = n + 1 PROVE s \in P
    OBVIOUS
  <2>1. PICK t \in Seq(S), e \in S : Len(t) = n /\ s = Append(t, e)
    <3> HIDE DEF Q
    <3>1. EndsInOne(S, s, n)
      BY FrontAndLast
    <3> QED
      BY <3>1 DEF EndsInOne
  <2>2. t \in P
    BY <1>2, <2>1
  <2> QED
    BY <2>1, <2>2 DEF Inductive
<1> HIDE DEF Q
<1>3. Nat \subseteq Q
  BY <1>1, <1>2, NatIsInductive
<1>4. \A s \in Seq(S) : Len(s) \in Nat
  OBVIOUS
<1> QED
  BY <1>3, <1>4 DEF Q

(* The same, for citing.                                                   *)
LEMMA SeqIsInductive ==
  ASSUME NEW S, NEW P, <<>> \in P,
         \A s \in Seq(S), e \in S : s \in P => Append(s, e) \in P
  PROVE  Seq(S) \subseteq P
BY InductiveHasAll DEF Inductive

-----------------------------------------------------------------------------
(* FoldLeft takes the last element off a set of indices, again and again:  *)
(* g is the function by which it is defined, for the first n elements.     *)
Folds(g, base, seq, n) ==
  g = [s \in SUBSET (1 .. n) |->
         IF s = {} THEN base ELSE op(g[s \ {Max(s)}], seq[Max(s)])]

(* The step by which FoldLeft goes from the first n indices to the first n *)
(* - 1.                                                                    *)
LEMMA MaxIsLast ==
  ASSUME NEW n \in Nat, NEW s \in SUBSET (1 .. n), n \in s
  PROVE  Max(s) = n /\ s \ {n} \in SUBSET (1 .. (n - 1))
<1>1. \A x \in s : n >= x
  OBVIOUS
<1>2. \A x \in s : (\A y \in s : x >= y) => x = n
  OBVIOUS
<1>3. Max(s) = n
  BY <1>1, <1>2 DEF Max
<1> QED
  BY <1>1, <1>3

(* There is such a function for every n: what FoldLeft chooses exists.     *)
LEMMA FoldsExists ==
  ASSUME NEW base, NEW seq
  PROVE  \A n \in Nat : \E g : Folds(g, base, seq, n)
<1> DEFINE P == {n \in Nat : \E g : Folds(g, base, seq, n)}
<1>1. 0 \in P
  <2>1. SUBSET (1 .. 0) = {{}}
    OBVIOUS
  <2>2. Folds([s \in {{}} |-> base], base, seq, 0)
    BY <2>1 DEF Folds
  <2> QED
    BY <2>2
<1>2. ASSUME NEW n \in Nat, n \in P PROVE n + 1 \in P
  <2>1. PICK g : Folds(g, base, seq, n)
    BY <1>2
  <2> DEFINE h == [s \in SUBSET (1 .. n + 1) |->
                     IF n + 1 \in s THEN op(g[s \ {n + 1}], seq[n + 1]) ELSE g[s]]
  <2>2. \A s \in SUBSET (1 .. n) : s \in SUBSET (1 .. n + 1) /\ n + 1 \notin s
    OBVIOUS
  <2>3. \A s \in SUBSET (1 .. n) : h[s] = g[s]
    BY <2>2
  <2>4. ASSUME NEW s \in SUBSET (1 .. n + 1)
        PROVE  h[s] = IF s = {} THEN base ELSE op(h[s \ {Max(s)}], seq[Max(s)])
    <3>1. CASE n + 1 \in s
      <4>1. Max(s) = n + 1 /\ s \ {n + 1} \in SUBSET (1 .. n)
        <5>1. n + 1 \in Nat /\ (n + 1) - 1 = n
          OBVIOUS
        <5> QED
          BY <3>1, <5>1, MaxIsLast
      <4>2. h[s \ {n + 1}] = g[s \ {n + 1}]
        BY <2>3, <4>1
      <4>3. h[s] = op(g[s \ {n + 1}], seq[n + 1])
        BY <3>1
      <4> QED
        BY <3>1, <4>1, <4>2, <4>3
    <3>2. CASE n + 1 \notin s
      <4>1. s \in SUBSET (1 .. n)
        BY <3>2
      <4>2. g[s] = IF s = {} THEN base ELSE op(g[s \ {Max(s)}], seq[Max(s)])
        BY <2>1, <4>1 DEF Folds
      <4>3. s \ {Max(s)} \in SUBSET (1 .. n)
        BY <4>1
      <4>4. h[s] = g[s] /\ h[s \ {Max(s)}] = g[s \ {Max(s)}]
        BY <2>3, <4>1, <4>3
      <4> QED
        BY <4>2, <4>4
    <3> QED
      BY <3>1, <3>2
  <2>5. h = [s \in SUBSET (1 .. n + 1) |->
               IF s = {} THEN base ELSE op(h[s \ {Max(s)}], seq[Max(s)])]
    BY <2>4
  <2>6. Folds(h, base, seq, n + 1)
    BY <2>5 DEF Folds
  <2> QED
    BY <2>6
<1> HIDE DEF P
<1>3. Nat \subseteq P
  BY <1>1, <1>2, NatIsInductive
<1> QED
  BY <1>3 DEF P

(* What that function has at the beginnings of the sequence.               *)
LEMMA FoldsStep ==
  ASSUME NEW base, NEW seq, NEW n \in Nat, NEW g, Folds(g, base, seq, n)
  PROVE  /\ g[1 .. 0] = base
         /\ \A k \in 1 .. n : g[1 .. k] = op(g[1 .. (k - 1)], seq[k])
<1>1. g[1 .. 0] = base
  BY DEF Folds
<1>2. ASSUME NEW k \in 1 .. n
      PROVE  g[1 .. k] = op(g[1 .. (k - 1)], seq[k])
  <2>1. 1 .. k \in SUBSET (1 .. n) /\ 1 .. k # {}
    OBVIOUS
  <2>2. Max(1 .. k) = k /\ (1 .. k) \ {k} = 1 .. (k - 1)
    <3>1. k \in Nat /\ k \in 1 .. k
      OBVIOUS
    <3>2. Max(1 .. k) = k
      BY <3>1, MaxIsLast
    <3> QED
      BY <3>1, <3>2
  <2> QED
    BY <2>1, <2>2 DEF Folds
<1> QED
  BY <1>1, <1>2

(* Of a longer sequence only its beginning counts. *)
LEMMA FoldsAgree ==
  ASSUME NEW base, NEW p, NEW q, NEW m \in Nat, NEW n \in Nat, m =< n,
         \A i \in 1 .. m : p[i] = q[i],
         NEW g, Folds(g, base, p, m), NEW h, Folds(h, base, q, n)
  PROVE  g[1 .. m] = h[1 .. m]
<1> DEFINE P == {k \in Nat : k =< m => g[1 .. k] = h[1 .. k]}
<1>1. ASSUME NEW f, NEW r, NEW l \in Nat, Folds(f, base, r, l)
      PROVE  f[1 .. 0] = base /\ \A j \in 1 .. l : f[1 .. j] = op(f[1 .. (j - 1)], r[j])
  BY <1>1, FoldsStep
<1>2. /\ g[1 .. 0] = base
      /\ \A j \in 1 .. m : g[1 .. j] = op(g[1 .. (j - 1)], p[j])
  BY <1>1
<1>3. /\ h[1 .. 0] = base
      /\ \A j \in 1 .. n : h[1 .. j] = op(h[1 .. (j - 1)], q[j])
  BY <1>1
<1>4. 0 \in P
  BY <1>2, <1>3
<1>5. ASSUME NEW k \in Nat, k \in P PROVE k + 1 \in P
  <2> SUFFICES ASSUME k + 1 =< m PROVE g[1 .. (k + 1)] = h[1 .. (k + 1)]
    OBVIOUS
  <2>1. k + 1 \in 1 .. m /\ k + 1 \in 1 .. n /\ (k + 1) - 1 = k /\ k =< m
    OBVIOUS
  <2>2. g[1 .. k] = h[1 .. k]
    BY <1>5, <2>1
  <2> QED
    BY <1>2, <1>3, <2>1, <2>2
<1> HIDE DEF P
<1>6. Nat \subseteq P
  BY <1>4, <1>5, NatIsInductive
<1> QED
  BY <1>6 DEF P

(* A fold is what that function has at all the indices of the sequence.    *)
LEMMA FoldIs ==
  ASSUME NEW base, NEW seq, NEW n \in Nat, DOMAIN seq = 1 .. n
  PROVE  Fold(base, seq) = (CHOOSE g : Folds(g, base, seq, n))[1 .. n]
BY Zenon DEF Fold, FoldLeft, MapThenFoldSet, Folds

(* The two equations of a fold over a sequence. *)
THEOREM FoldEmpty ==
  ASSUME NEW base
  PROVE  Fold(base, <<>>) = base
<1> DEFINE g == CHOOSE g : Folds(g, base, <<>>, 0)
<1>1. Folds(g, base, <<>>, 0)
  BY FoldsExists
<1>2. DOMAIN <<>> = 1 .. 0
  OBVIOUS
<1>3. Fold(base, <<>>) = g[1 .. 0]
  BY <1>2, FoldIs
<1> HIDE DEF g
<1> QED
  BY <1>1, <1>3, FoldsStep

(* One element more is one application of op more.                         *)
THEOREM FoldAppend ==
  ASSUME NEW base, NEW S, NEW s \in Seq(S), NEW e \in S
  PROVE  Fold(base, Append(s, e)) = op(Fold(base, s), e)
<1> DEFINE n == Len(s)
           t == Append(s, e)
           g == CHOOSE f : Folds(f, base, s, n)
           h == CHOOSE f : Folds(f, base, t, n + 1)
<1>1. n \in Nat /\ DOMAIN s = 1 .. n
  OBVIOUS
<1>2. /\ DOMAIN t = 1 .. (n + 1) /\ t[n + 1] = e
      /\ \A i \in 1 .. n : s[i] = t[i]
  <2>1. t \in Seq(S) /\ Len(t) = n + 1
    BY AppendProperties
  <2> QED
    BY <2>1, AppendProperties
<1> HIDE DEF n, t
<1>3. Folds(g, base, s, n) /\ Folds(h, base, t, n + 1)
  <2>1. \E f : Folds(f, base, s, n)
    BY <1>1, FoldsExists
  <2>2. \E f : Folds(f, base, t, n + 1)
    <3>1. n + 1 \in Nat
      BY <1>1
    <3> QED
      BY <3>1, FoldsExists
  <2> QED
    BY <2>1, <2>2
<1>4. Fold(base, s) = g[1 .. n] /\ Fold(base, t) = h[1 .. (n + 1)]
  BY <1>1, <1>2, FoldIs
<1> HIDE DEF g, h
<1>5. g[1 .. n] = h[1 .. n]
  BY <1>1, <1>2, <1>3, FoldsAgree
<1>6. h[1 .. (n + 1)] = op(h[1 .. n], t[n + 1])
  <2>1. n + 1 \in 1 .. (n + 1) /\ (n + 1) - 1 = n /\ n + 1 \in Nat
    BY <1>1
  <2>2. \A j \in 1 .. (n + 1) : h[1 .. j] = op(h[1 .. (j - 1)], t[j])
    <3>1. ASSUME NEW l \in Nat, NEW f, Folds(f, base, t, l)
          PROVE  \A j \in 1 .. l : f[1 .. j] = op(f[1 .. (j - 1)], t[j])
      BY <3>1, FoldsStep
    <3> QED
      BY <1>3, <2>1, <3>1
  <2> QED
    BY <2>1, <2>2
<1> QED
  BY <1>2, <1>4, <1>5, <1>6 DEF t

(* A fold over two sequences, one after the other, goes on from where the  *)
(* first ended.                                                            *)
THEOREM FoldConcat ==
  ASSUME NEW base, NEW S, NEW s \in Seq(S), NEW t \in Seq(S)
  PROVE  Fold(base, s \o t) = Fold(Fold(base, s), t)
<1> DEFINE P == {u \in Seq(S) : Fold(base, s \o u) = Fold(Fold(base, s), u)}
<1>1. <<>> \in P
  BY ConcatEmptySeq, EmptySeq, FoldEmpty
<1>2. ASSUME NEW u \in Seq(S), NEW e \in S, u \in P PROVE Append(u, e) \in P
  <2>1. s \o u \in Seq(S) /\ Append(u, e) \in Seq(S)
    BY ConcatProperties, AppendProperties
  <2>2. s \o Append(u, e) = Append(s \o u, e)
    OBVIOUS
  <2>3. Fold(base, Append(s \o u, e)) = op(Fold(base, s \o u), e)
    BY <2>1, FoldAppend
  <2>4. Fold(Fold(base, s), Append(u, e)) = op(Fold(Fold(base, s), u), e)
    BY FoldAppend
  <2> QED
    BY <1>2, <2>1, <2>2, <2>3, <2>4
<1> HIDE DEF P
<1>3. Seq(S) \subseteq P
  BY <1>1, <1>2, SeqIsInductive
<1> QED
  BY <1>3 DEF P

-----------------------------------------------------------------------------
Flattens(g, seqs, n) ==
  g = [i \in 1 .. n |-> IF i = 1 THEN seqs[i] ELSE g[i - 1] \o seqs[i]]

(* What FlattenSeq chooses exists.                                         *)
LEMMA FlattensExists ==
  ASSUME NEW seqs
  PROVE  \A n \in Nat : \E g : Flattens(g, seqs, n)
<1> DEFINE P == {n \in Nat : \E g : Flattens(g, seqs, n)}
<1>1. 0 \in P
  <2>1. Flattens([i \in 1 .. 0 |-> 0], seqs, 0)
    BY DEF Flattens
  <2> QED
    BY <2>1
<1>2. ASSUME NEW n \in Nat, n \in P PROVE n + 1 \in P
  <2>1. PICK g : Flattens(g, seqs, n)
    BY <1>2
  <2> DEFINE h == [i \in 1 .. n + 1 |->
                     IF i = n + 1 THEN IF i = 1 THEN seqs[i] ELSE g[i - 1] \o seqs[i] ELSE g[i]]
  <2>2. \A i \in 1 .. n : i \in 1 .. n + 1 /\ i # n + 1
    OBVIOUS
  <2>3. \A i \in 1 .. n : h[i] = g[i]
    BY <2>2
  <2>4. ASSUME NEW i \in 1 .. n + 1
        PROVE  h[i] = IF i = 1 THEN seqs[i] ELSE h[i - 1] \o seqs[i]
    <3>1. i = n + 1 \/ i \in 1 .. n
      OBVIOUS
    <3>2. i # 1 => i - 1 \in 1 .. n
      OBVIOUS
    <3>3. i \in 1 .. n => g[i] = IF i = 1 THEN seqs[i] ELSE g[i - 1] \o seqs[i]
      BY <2>1 DEF Flattens
    <3>4. i # 1 => h[i - 1] = g[i - 1]
      BY <2>3, <3>2
    <3>5. i = n + 1 => h[i] = IF i = 1 THEN seqs[i] ELSE g[i - 1] \o seqs[i]
      OBVIOUS
    <3> HIDE DEF h
    <3> QED
      BY <2>3, <3>1, <3>3, <3>4, <3>5
  <2>5. h = [i \in 1 .. n + 1 |-> IF i = 1 THEN seqs[i] ELSE h[i - 1] \o seqs[i]]
    BY <2>4
  <2>6. Flattens(h, seqs, n + 1)
    BY <2>5 DEF Flattens
  <2> QED
    BY <2>6
<1> HIDE DEF P
<1>3. Nat \subseteq P
  BY <1>1, <1>2, NatIsInductive
<1> QED
  BY <1>3 DEF P

(* Of a longer sequence only its beginning counts here too.                *)
LEMMA FlattensAgree ==
  ASSUME NEW p, NEW q, NEW m \in Nat \ {0}, NEW n \in Nat, m =< n,
         \A i \in 1 .. m : p[i] = q[i],
         NEW g, Flattens(g, p, m), NEW h, Flattens(h, q, n)
  PROVE  g[m] = h[m]
<1> DEFINE P == {k \in Nat : k + 1 =< m => g[k + 1] = h[k + 1]}
<1>1. \A j \in 1 .. m : g[j] = IF j = 1 THEN p[j] ELSE g[j - 1] \o p[j]
  BY DEF Flattens
<1>2. \A j \in 1 .. n : h[j] = IF j = 1 THEN q[j] ELSE h[j - 1] \o q[j]
  BY DEF Flattens
<1>3. 0 \in P
  BY <1>1, <1>2
<1>4. ASSUME NEW k \in Nat, k \in P PROVE k + 1 \in P
  <2> SUFFICES ASSUME (k + 1) + 1 =< m PROVE g[(k + 1) + 1] = h[(k + 1) + 1]
    OBVIOUS
  <2> DEFINE j == (k + 1) + 1
  <2>1. j \in 1 .. m /\ j \in 1 .. n /\ j # 1 /\ j - 1 = k + 1 /\ k + 1 =< m
    OBVIOUS
  <2>2. g[k + 1] = h[k + 1]
    BY <1>4, <2>1
  <2> HIDE DEF j
  <2>3. g[j] = h[j]
    BY <1>1, <1>2, <2>1, <2>2
  <2> QED
    BY <2>3 DEF j
<1> HIDE DEF P
<1>5. Nat \subseteq P
  BY <1>3, <1>4, NatIsInductive
<1>6. m - 1 \in P /\ (m - 1) + 1 = m
  BY <1>5
<1> QED
  BY <1>6 DEF P

(* The two equations of FlattenSeq. *)
THEOREM FlattenEmpty == FlattenSeq(<<>>) = <<>>
BY DEF FlattenSeq

(* One sequence more is one concatenation more.                            *)
THEOREM FlattenAppend ==
  ASSUME NEW S, NEW s \in Seq(Seq(S)), NEW e \in Seq(S)
  PROVE  FlattenSeq(Append(s, e)) = FlattenSeq(s) \o e
<1> DEFINE n == Len(s)
           t == Append(s, e)
           g == CHOOSE f : Flattens(f, s, n)
           h == CHOOSE f : Flattens(f, t, n + 1)
<1>1. n \in Nat
  OBVIOUS
<1>2. /\ Len(t) = n + 1 /\ t[n + 1] = e
      /\ \A i \in 1 .. n : s[i] = t[i]
  BY AppendProperties
<1>3. FlattenSeq(t) = h[n + 1]
  <2>1. Len(t) # 0
    BY <1>1, <1>2
  <2>2. FlattenSeq(t) = (CHOOSE f : Flattens(f, t, Len(t)))[Len(t)]
    <3> HIDE DEF t
    <3> QED
      BY <2>1 DEF FlattenSeq, Flattens
  <2> QED
    BY <1>2, <2>2
<1>4. n # 0 => FlattenSeq(s) = g[n]
  BY DEF FlattenSeq, Flattens
<1> HIDE DEF n, t
<1>5. Flattens(g, s, n) /\ Flattens(h, t, n + 1)
  <2>1. \E f : Flattens(f, s, n)
    BY <1>1, FlattensExists
  <2>2. \E f : Flattens(f, t, n + 1)
    <3>1. n + 1 \in Nat
      BY <1>1
    <3> QED
      BY <3>1, FlattensExists
  <2> QED
    BY <2>1, <2>2
<1> HIDE DEF g, h
<1>6. h[n + 1] = IF n + 1 = 1 THEN t[n + 1] ELSE h[n] \o t[n + 1]
  <2>1. n + 1 \in 1 .. n + 1 /\ (n + 1) - 1 = n
    BY <1>1
  <2>2. \A i \in 1 .. n + 1 : h[i] = IF i = 1 THEN t[i] ELSE h[i - 1] \o t[i]
    BY <1>5 DEF Flattens
  <2> QED
    BY <2>1, <2>2
<1>7. CASE n = 0
  <2>1. s = <<>>
    BY <1>7, EmptySeq DEF n
  <2>2. FlattenSeq(t) = e
    BY <1>2, <1>3, <1>6, <1>7
  <2>3. FlattenSeq(s) \o e = e
    BY <2>1, FlattenEmpty, ConcatEmptySeq
  <2> QED
    BY <2>2, <2>3 DEF t
<1>8. CASE n # 0
  <2>1. n \in Nat \ {0} /\ n + 1 \in Nat /\ n =< n + 1 /\ n + 1 # 1
    BY <1>1, <1>8
  <2>2. g[n] = h[n]
    BY <1>2, <1>5, <2>1, FlattensAgree
  <2> QED
    BY <1>2, <1>3, <1>4, <1>6, <1>8, <2>1, <2>2 DEF t
<1> QED
  BY <1>7, <1>8

(* Sequences over a set flatten to a sequence over that set.               *)
THEOREM FlattenType ==
  ASSUME NEW S, NEW s \in Seq(Seq(S))
  PROVE  FlattenSeq(s) \in Seq(S)
<1> DEFINE P == {u \in Seq(Seq(S)) : FlattenSeq(u) \in Seq(S)}
<1>1. <<>> \in P
  BY EmptySeq, FlattenEmpty
<1>2. ASSUME NEW u \in Seq(Seq(S)), NEW e \in Seq(S), u \in P PROVE Append(u, e) \in P
  <2>1. Append(u, e) \in Seq(Seq(S)) /\ FlattenSeq(u) \o e \in Seq(S)
    BY <1>2, AppendProperties, ConcatProperties
  <2> QED
    BY <2>1, FlattenAppend
<1> HIDE DEF P
<1>3. Seq(Seq(S)) \subseteq P
  BY <1>1, <1>2, SeqIsInductive
<1> QED
  BY <1>3 DEF P
=============================================================================
