--------------------------- MODULE SequenceLemmas ---------------------------
(***************************************************************************)
(* Facts about sequences and sets of naturals that several proofs need.    *)
(***************************************************************************)
EXTENDS SequencesExt, SequenceTheorems, FiniteSetTheorems, TLAPS

\* The intervals 1 .. k, for the members k of the set up to one of them, are
\* ordered by inclusion, so there is a smallest.
LEMMA MinOf ==
  ASSUME NEW S \in SUBSET Nat, S # {}
  PROVE  Min(S) \in S /\ \A i \in S : Min(S) <= i
  <1> PICK m \in S : TRUE
    OBVIOUS
  <1> DEFINE T == {1 .. k : k \in {i \in S : i <= m}}
  <1>1. IsWellFoundedOn(StrictSubsetOrdering(1 .. m), FiniteSubsetsOf(1 .. m))
    BY FS_StrictSubsetOrderingWellFounded
  <1>2. T \subseteq FiniteSubsetsOf(1 .. m) /\ T # {}
    <2>1. \A k \in Nat : IsFiniteSet(1 .. k)
      BY FS_Interval
    <2>2. \A k \in Nat : k <= m => 1 .. k \in SUBSET (1 .. m)
      OBVIOUS
    <2> QED
      BY <2>1, <2>2 DEF FiniteSubsetsOf
  <1>3. PICK t \in T : \A u \in T : <<u, t>> \notin StrictSubsetOrdering(1 .. m)
    BY <1>1, <1>2, WFMin
  <1>4. PICK x \in S : x <= m /\ t = 1 .. x
    OBVIOUS
  <1>5. ASSUME NEW y \in S, y < x PROVE FALSE
    <2>1. 1 .. y \in T /\ 1 .. y \in SUBSET (1 .. m) /\ 1 .. x \in SUBSET (1 .. m)
      BY <1>4, <1>5
    <2>2. 1 .. y \subseteq 1 .. x /\ 1 .. y # 1 .. x
      <3>1. x \in 1 .. x /\ x \notin 1 .. y
        BY <1>5
      <3> QED
        BY <1>5, <3>1
    <2>3. <<1 .. y, 1 .. x>> \in StrictSubsetOrdering(1 .. m)
      BY <2>1, <2>2 DEF StrictSubsetOrdering
    <2> QED
      BY <1>3, <1>4, <2>1, <2>3
  <1>6. \A y \in S : x <= y
    BY <1>5
  <1> QED
    BY <1>6 DEF Min

\* The sequence without its last element.
LEMMA FrontOf ==
  ASSUME NEW S, NEW s \in Seq(S), s # <<>>
  PROVE  /\ Front(s) \in Seq(S) /\ Len(Front(s)) = Len(s) - 1
         /\ \A i \in 1 .. Len(s) - 1 : Front(s)[i] = s[i]
  <1>1. Len(s) \in Nat \ {0} /\ \A i \in 1 .. Len(s) - 1 : s[i] \in S
    BY EmptySeq
  <1> DEFINE n == Len(s) - 1
  <1>2. 1 \in Int /\ n \in Int /\ \A i \in 1 .. n : s[i] \in S
    BY <1>1
  <1> HIDE DEF n
  <1>3. /\ SubSeq(s, 1, n) \in Seq(S) /\ Len(SubSeq(s, 1, n)) = IF 1 <= n THEN n - 1 + 1 ELSE 0
        /\ \A i \in 1 .. n - 1 + 1 : SubSeq(s, 1, n)[i] = s[1 + i - 1]
    BY <1>2, SubSeqProperties
  <1>4. n \in Nat
    BY <1>1 DEF n
  <1>5. /\ SubSeq(s, 1, n) \in Seq(S) /\ Len(SubSeq(s, 1, n)) = n
        /\ \A i \in 1 .. n : SubSeq(s, 1, n)[i] = s[i]
    <2>1. \A i \in 1 .. n : i \in 1 .. n - 1 + 1 /\ 1 + i - 1 = i
      BY <1>4
    <2>2. Len(SubSeq(s, 1, n)) = n
      BY <1>3, <1>4
    <2> QED
      BY <1>3, <2>1, <2>2
  <1>6. Front(s) = SubSeq(s, 1, n)
    BY DEF Front, n
  <1> QED
    BY <1>5, <1>6 DEF n

\* An element between two sequences.
LEMMA PutBetween ==
  ASSUME NEW S, NEW a \in Seq(S), NEW e \in S, NEW b \in Seq(S)
  PROVE  LET t == a \o <<e>> \o b
         IN  /\ t \in Seq(S) /\ Len(t) = Len(a) + 1 + Len(b)
             /\ \A i \in 1 .. Len(t) :
                    t[i] = IF i <= Len(a) THEN a[i]
                           ELSE IF i = Len(a) + 1 THEN e ELSE b[i - (Len(a) + 1)]
  <1> DEFINE c == a \o <<e>>
             t == c \o b
  <1>1. Len(a) \in Nat /\ Len(b) \in Nat
    OBVIOUS
  <1>2. /\ c \in Seq(S) /\ Len(c) = Len(a) + 1
        /\ \A i \in 1 .. Len(a) + 1 : c[i] = IF i <= Len(a) THEN a[i] ELSE e
    BY <1>1
  <1> HIDE DEF c
  <1>3. /\ t \in Seq(S) /\ Len(t) = Len(c) + Len(b)
        /\ \A i \in 1 .. Len(c) + Len(b) : t[i] = IF i <= Len(c) THEN c[i] ELSE b[i - Len(c)]
    BY <1>2, ConcatProperties
  <1> HIDE DEF t
  <1>4. ASSUME NEW i \in 1 .. Len(t)
        PROVE  t[i] = IF i <= Len(a) THEN a[i]
                      ELSE IF i = Len(a) + 1 THEN e ELSE b[i - (Len(a) + 1)]
    BY <1>1, <1>2, <1>3
  <1> QED
    BY <1>2, <1>3, <1>4 DEF c, t

\* What InsertAt returns.
LEMMA Insertion ==
  ASSUME NEW S, NEW s \in Seq(S), NEW at \in 1 .. Len(s), NEW e \in S
  PROVE  LET t == InsertAt(s, at, e)
         IN  /\ t \in Seq(S) /\ Len(t) = Len(s) + 1
             /\ \A i \in 1 .. Len(s) + 1 :
                    t[i] = IF i < at THEN s[i] ELSE IF i = at THEN e ELSE s[i - 1]
  <1> DEFINE a == SubSeq(s, 1, at - 1)
             b == SubSeq(s, at, Len(s))
  <1>0. Len(s) \in Nat /\ \A i \in 1 .. Len(s) : s[i] \in S
    OBVIOUS
  <1>1. a \in Seq(S) /\ Len(a) = at - 1 /\ \A i \in 1 .. at - 1 : a[i] = s[i]
    BY <1>0, SubSeqProperties
  <1>2. /\ b \in Seq(S) /\ Len(b) = Len(s) - at + 1
        /\ \A i \in 1 .. Len(s) - at + 1 : b[i] = s[at + i - 1]
    BY <1>0, SubSeqProperties
  <1> DEFINE t == a \o <<e>> \o b
  <1> HIDE DEF a, b
  <1>3. /\ t \in Seq(S) /\ Len(t) = Len(a) + 1 + Len(b)
        /\ \A i \in 1 .. Len(t) : t[i] = IF i <= Len(a) THEN a[i]
                                         ELSE IF i = Len(a) + 1 THEN e ELSE b[i - (Len(a) + 1)]
    <2>1. a \in Seq(S)
      BY <1>1
    <2>2. b \in Seq(S)
      BY <1>2
    <2> QED
      BY <2>1, <2>2, PutBetween
  <1> HIDE DEF t
  <1>4. Len(t) = Len(s) + 1
    BY <1>0, <1>1, <1>2, <1>3
  <1>5. \A i \in at + 1 .. Len(s) + 1 : b[i - at] = s[i - 1]
    <2> TAKE i \in at + 1 .. Len(s) + 1
    <2>1. i - at \in 1 .. Len(s) - at + 1 /\ at + (i - at) - 1 = i - 1
      BY <1>0
    <2> QED
      BY <1>2, <2>1
  <1>6. \A i \in 1 .. Len(s) + 1 :
            t[i] = IF i < at THEN s[i] ELSE IF i = at THEN e ELSE s[i - 1]
    BY <1>0, <1>1, <1>3, <1>4, <1>5
  <1> QED
    BY <1>3, <1>4, <1>6 DEF InsertAt, a, b, t

\* A prefix, element by element.
LEMMA PrefixIs ==
  ASSUME NEW S, NEW a \in Seq(S), NEW b \in Seq(S)
  PROVE  /\ IsPrefix(a, b) <=> Len(a) <= Len(b) /\ \A i \in 1 .. Len(a) : a[i] = b[i]
         /\ IsStrictPrefix(a, b) <=> Len(a) < Len(b) /\ \A i \in 1 .. Len(a) : a[i] = b[i]
  <1>1. Len(a) \in Nat /\ Len(b) \in Nat
    OBVIOUS
  <1>2. ASSUME Len(a) <= Len(b)
        PROVE  /\ SubSeq(a, 1, Len(a)) = [i \in 1 .. Len(a) |-> a[i]]
               /\ SubSeq(b, 1, Len(a)) = [i \in 1 .. Len(a) |-> b[i]]
    BY <1>1, <1>2
  <1>3. ASSUME Len(a) <= Len(b), SubSeq(a, 1, Len(a)) = SubSeq(b, 1, Len(a)),
               NEW i \in 1 .. Len(a)
        PROVE  a[i] = b[i]
    <2>1. SubSeq(a, 1, Len(a))[i] = a[i] /\ SubSeq(b, 1, Len(a))[i] = b[i]
      BY <1>2, <1>3
    <2> QED
      BY <1>3, <2>1
  <1>4. ASSUME Len(a) <= Len(b), \A i \in 1 .. Len(a) : a[i] = b[i]
        PROVE  SubSeq(a, 1, Len(a)) = SubSeq(b, 1, Len(a))
    BY <1>2, <1>4
  <1>5. IsPrefix(a, b) <=> Len(a) <= Len(b) /\ \A i \in 1 .. Len(a) : a[i] = b[i]
    BY <1>3, <1>4 DEF IsPrefix
  <1>6. ASSUME Len(a) = Len(b), \A i \in 1 .. Len(a) : a[i] = b[i] PROVE a = b
    BY <1>6, SeqEqual
  <1> QED
    BY <1>1, <1>5, <1>6 DEF IsStrictPrefix

=============================================================================
