----------------------------- MODULE XPathProofs -----------------------------
(***************************************************************************)
(* Proofs about module XPath, for any tree and any order of the names.     *)
(***************************************************************************)
EXTENDS XPath, SequenceLemmas

\* The node below which a finder searches is a prefix of what it visits.
LEMMA BelowStarts ==
  ASSUME NEW p \in Seq(DOMAIN Rank), NEW d \in Seq(DOMAIN Rank), IsStrictPrefix(p, d)
  PROVE  /\ Len(p) + 1 \in 1 .. Len(d)
         /\ \A i \in 1 .. Len(p) : d[i] = p[i]
         /\ SubSeq(d, 1, Len(p)) = p
  <1>1. /\ Len(p) \in Nat /\ Len(d) \in Nat /\ Len(p) <= Len(d) /\ p # d
        /\ SubSeq(p, 1, Len(p)) = SubSeq(d, 1, Len(p))
    BY DEF IsStrictPrefix, IsPrefix
  <1>2. SubSeq(p, 1, Len(p)) = p /\ SubSeq(d, 1, Len(d)) = d
    OBVIOUS
  <1>3. Len(p) # Len(d)
    BY <1>1, <1>2
  <1>4. \A i \in 1 .. Len(p) : SubSeq(d, 1, Len(p))[i] = d[i]
    BY <1>1
  <1>5. SubSeq(d, 1, Len(p)) = p
    BY <1>1, <1>2
  <1>6. \A i \in 1 .. Len(p) : d[i] = p[i]
    BY <1>4, <1>5
  <1>7. Len(p) + 1 \in 1 .. Len(d)
    BY <1>1, <1>3
  <1> QED
    BY <1>5, <1>6, <1>7

\* Although the finder searches the whole subtree and keeps the last node of
\* the wanted name (xpath.cpp:14-29, 66-80), it finds the child of that name
\* wherever there is one: a path never selects a node deeper in the tree.
THEOREM FindsChild ==
  ASSUME NEW tree \in SUBSET Seq(DOMAIN Rank), NEW p \in Seq(DOMAIN Rank),
         NEW key \in DOMAIN Rank, Append(p, key) \in tree
  PROVE  Find(tree, p, key) = {Append(p, key)}
  <1> DEFINE c == Append(p, key)
             n == Len(p) + 1
             named == {d \in Visited(tree, p, key) : Last(d) = key}
  <1>1. /\ c \in Seq(DOMAIN Rank) /\ Len(c) = n /\ c[n] = key /\ n \in Nat \ {0}
        /\ DOMAIN c = 1 .. n /\ \A i \in 1 .. Len(p) : c[i] = p[i]
    OBVIOUS
  <1>2. IsStrictPrefix(p, c) /\ SubSeq(c, 1, Len(p)) = p
    <2>1. SubSeq(c, 1, Len(p)) = p
      BY <1>1
    <2>2. SubSeq(p, 1, Len(p)) = p
      OBVIOUS
    <2>3. Len(p) <= Len(c) /\ p # c
      BY <1>1
    <2> HIDE DEF c
    <2> QED
      BY <2>1, <2>2, <2>3 DEF IsStrictPrefix, IsPrefix
  <1>3. c \in named
    <2>1. \A i \in n .. n : i = n /\ i - 1 = Len(p)
      BY <1>1
    <2>2. Last(c) = key
      BY <1>1 DEF Last
    <2> QED
      BY <1>1, <1>2, <2>1, <2>2 DEF Visited, Below
  <1>4. ASSUME NEW d \in named, d # c
        PROVE  /\ d \in Seq(DOMAIN Rank) /\ n \in 1 .. Len(d)
               /\ \A i \in 1 .. Len(p) : d[i] = p[i]
               /\ Rank[d[n]] < Rank[key]
    <2>1. /\ d \in Seq(DOMAIN Rank) /\ IsStrictPrefix(p, d)
          /\ \A i \in n .. Len(d) :
                Append(SubSeq(d, 1, i - 1), key) \in tree
                => d = Append(SubSeq(d, 1, i - 1), key) \/ Rank[d[i]] < Rank[key]
      BY <1>4 DEF Visited, Below
    <2>2. /\ n \in 1 .. Len(d) /\ SubSeq(d, 1, Len(p)) = p
          /\ \A i \in 1 .. Len(p) : d[i] = p[i]
      BY <2>1, BelowStarts
    <2>3. Append(SubSeq(d, 1, n - 1), key) = c
      BY <1>1, <2>2
    <2>4. n \in n .. Len(d)
      BY <1>1, <2>2
    <2> QED
      BY <1>4, <2>1, <2>2, <2>3, <2>4
  <1> HIDE DEF named, c
  <1>5. ASSUME NEW d \in named, d # c PROVE Precedes(d, c)
    <2>1. n \in DOMAIN d \cap DOMAIN c /\ \A j \in 1 .. n - 1 : d[j] = c[j]
      BY <1>1, <1>4, <1>5
    <2> QED
      BY <1>1, <1>4, <1>5, <2>1 DEF Precedes
  <1>6. ASSUME NEW d \in named, d # c, Precedes(c, d) PROVE FALSE
    <2>1. /\ d \in Seq(DOMAIN Rank) /\ n \in 1 .. Len(d)
          /\ \A i \in 1 .. Len(p) : d[i] = p[i]
          /\ Rank[d[n]] < Rank[key]
      BY <1>4, <1>6
    <2>2. d[n] \in DOMAIN Rank /\ Rank[d[n]] \in Nat /\ Rank[key] \in Nat
      BY <2>1, RankAssumption
    <2>3. CASE IsStrictPrefix(c, d)
      <3>1. d[n] = c[n]
        BY <1>1, <2>1, <2>3, BelowStarts
      <3> QED
        BY <1>1, <2>1, <2>2, <3>1
    <2>4. CASE ~IsStrictPrefix(c, d)
      <3>1. PICK i \in DOMAIN c : Rank[c[i]] < Rank[d[i]]
        BY <1>6, <2>4 DEF Precedes
      <3>2. CASE i = n
        BY <1>1, <2>1, <2>2, <3>1, <3>2
      <3>3. CASE i # n
        <4>1. i \in 1 .. Len(p)
          BY <1>1, <3>3
        <4>2. c[i] = d[i] /\ c[i] \in DOMAIN Rank
          BY <1>1, <2>1, <4>1
        <4> QED
          BY <3>1, <4>2, RankAssumption
      <3> QED
        BY <3>2, <3>3
    <2> QED
      BY <2>3, <2>4
  <1>7. LastOf(named) = {c}
    BY <1>3, <1>5, <1>6 DEF LastOf
  <1> QED
    BY <1>7 DEF Find, named, c

\* The recursion over the names of an xpath is a function: no number of names is
\* the least for which there is none.
LEMMA FoundAfterIs ==
  ASSUME NEW tree, NEW S, NEW keys \in Seq(S)
  PROVE  LET f == FoundAfter(tree, keys)
         IN  /\ f[0] = {<<>>}
             /\ \A i \in 1 .. Len(keys) : f[i] = FindNext(tree, f[i - 1], keys[i])
  <1> DEFINE Is(g, n) == g = [i \in 0 .. n |-> IF i = 0 THEN {<<>>}
                                               ELSE FindNext(tree, g[i - 1], keys[i])]
             None == {n \in Nat : ~ \E g : Is(g, n)}
  <1>1. None = {}
    <2> SUFFICES ASSUME None # {} PROVE FALSE
      OBVIOUS
    <2>1. PICK n \in None : \A i \in None : n <= i
      <3>1. None \in SUBSET Nat
        OBVIOUS
      <3> HIDE DEF None
      <3> QED
        BY <3>1, MinOf
    <2>2. n \in Nat /\ ~ \E g : Is(g, n)
      BY <2>1
    <2>3. CASE n = 0
      <3> DEFINE g == [i \in 0 .. 0 |-> {<<>>}]
      <3>1. \A i \in 0 .. 0 : i = 0
        OBVIOUS
      <3>2. g = [i \in 0 .. 0 |-> IF i = 0 THEN {<<>>} ELSE FindNext(tree, g[i - 1], keys[i])]
        BY <3>1
      <3>3. Is(g, n)
        BY <2>3, <3>2
      <3> HIDE DEF Is
      <3> QED
        BY <2>2, <3>3
    <2>4. CASE n # 0
      <3>1. n - 1 \in Nat /\ ~(n <= n - 1)
        BY <2>2, <2>4
      <3>2. PICK g : Is(g, n - 1)
        BY <2>1, <3>1
      <3> DEFINE h == [i \in 0 .. n |-> IF i = n THEN FindNext(tree, g[n - 1], keys[n]) ELSE g[i]]
      <3>3. \A i \in 0 .. n - 1 : g[i] = IF i = 0 THEN {<<>>} ELSE FindNext(tree, g[i - 1], keys[i])
        BY <3>2
      <3>4. \A i \in 0 .. n : h[i] = IF i = 0 THEN {<<>>} ELSE FindNext(tree, h[i - 1], keys[i])
        <4> TAKE i \in 0 .. n
        <4>1. i # 0 => i - 1 \in 0 .. n - 1 /\ h[i - 1] = g[i - 1]
          BY <2>2
        <4>2. i # n => i \in 0 .. n - 1
          BY <2>2
        <4> QED
          BY <2>4, <3>3, <4>1, <4>2
      <3>5. Is(h, n)
        BY <3>4
      <3> HIDE DEF Is, h
      <3> QED
        BY <2>2, <3>5
    <2> QED
      BY <2>3, <2>4
  <1>2. Len(keys) \in Nat
    OBVIOUS
  <1>3. \E g : Is(g, Len(keys))
    BY <1>1, <1>2
  <1>4. Is(FoundAfter(tree, keys), Len(keys))
    BY <1>3 DEF FoundAfter
  <1> QED
    BY <1>2, <1>4

\* A tree with the parent of each of its nodes has every prefix of a node.
LEMMA PrefixesIn ==
  ASSUME NEW tree \in SUBSET Seq(DOMAIN Rank),
         \A q \in tree \ {<<>>} : Parent(q) \in tree,
         NEW p \in tree, NEW i \in 1 .. Len(p)
  PROVE  SubSeq(p, 1, i) \in tree
  <1> DEFINE Out == {k \in Nat : k < Len(p) /\ SubSeq(p, 1, Len(p) - k) \notin tree}
  <1>0. p \in Seq(DOMAIN Rank) /\ Len(p) \in Nat /\ SubSeq(p, 1, Len(p)) = p
    OBVIOUS
  <1>1. Out = {}
    <2> SUFFICES ASSUME Out # {} PROVE FALSE
      OBVIOUS
    <2>1. PICK n \in Out : \A k \in Out : n <= k
      <3>1. Out \in SUBSET Nat
        OBVIOUS
      <3> HIDE DEF Out
      <3> QED
        BY <3>1, MinOf
    <2>2. n \in Nat /\ n < Len(p) /\ SubSeq(p, 1, Len(p) - n) \notin tree
      BY <2>1
    <2>3. n # 0
      <3>1. Len(p) - 0 = Len(p)
        BY <1>0
      <3> QED
        BY <1>0, <2>2, <3>1
    <2> DEFINE m == Len(p) - (n - 1)
               q == SubSeq(p, 1, m)
    <2>4. m \in 2 .. Len(p) /\ Len(p) - n = m - 1
      BY <1>0, <2>2, <2>3
    <2>5. q \in tree
      <3>1. n - 1 \in Nat /\ n - 1 < Len(p) /\ ~(n <= n - 1)
        BY <1>0, <2>2, <2>3
      <3> QED
        BY <2>1, <3>1
    <2>6. q \in Seq(DOMAIN Rank) /\ Len(q) = m /\ \A k \in 1 .. m : q[k] = p[k]
      BY <1>0, <2>4
    <2>7. q # <<>> /\ Parent(q) \in tree
      <3>1. Len(q) # 0
        BY <2>4, <2>6
      <3> HIDE DEF q
      <3>2. q # <<>>
        BY <3>1
      <3> QED
        BY <2>5, <3>2
    <2> HIDE DEF q, m
    <2>8. SubSeq(q, 1, m - 1) = SubSeq(p, 1, m - 1)
      <3>1. /\ SubSeq(q, 1, m - 1) = [k \in 1 .. m - 1 |-> q[k]]
            /\ SubSeq(p, 1, m - 1) = [k \in 1 .. m - 1 |-> p[k]]
        BY <1>0, <2>4, <2>6
      <3> QED
        BY <2>4, <2>6, <3>1
    <2>9. Parent(q) = SubSeq(p, 1, m - 1)
      BY <2>4, <2>6, <2>8 DEF Parent, Front
    <2> QED
      BY <2>2, <2>4, <2>7, <2>9
  <1>2. Len(p) - i \in Nat /\ Len(p) - i < Len(p) /\ Len(p) - (Len(p) - i) = i
    BY <1>0
  <1> QED
    BY <1>1, <1>2

\* The path of a node selects the node, and nothing else in the tree, although
\* every name on the way is looked for in a whole subtree.
THEOREM SelectsPath ==
  ASSUME "value" \notin DOMAIN Rank,
         NEW tree \in SUBSET Seq(DOMAIN Rank),
         \A q \in tree \ {<<>>} : Parent(q) \in tree,
         NEW p \in tree \ {<<>>}
  PROVE  Select(tree, p) = {p}
  <1>1. /\ p \in Seq(DOMAIN Rank) /\ Len(p) \in Nat \ {0} /\ SubSeq(p, 1, Len(p)) = p
        /\ SubSeq(p, 1, 0) = <<>> /\ \A i \in 1 .. Len(p) : p[i] \in DOMAIN Rank
    BY EmptySeq
  <1>2. Last(p) # "value"
    BY <1>1 DEF Last
  <1>3. Select(tree, p) = FoundAfter(tree, p)[Len(p)]
    BY <1>2 DEF Select
  <1> DEFINE f == FoundAfter(tree, p)
             Not == {i \in Nat : i <= Len(p) /\ f[i] # {SubSeq(p, 1, i)}}
  <1>4. f[0] = {<<>>} /\ \A i \in 1 .. Len(p) : f[i] = FindNext(tree, f[i - 1], p[i])
    BY <1>1, FoundAfterIs
  <1> HIDE DEF f
  <1>5. Not = {}
    <2> SUFFICES ASSUME Not # {} PROVE FALSE
      OBVIOUS
    <2>1. PICK n \in Not : \A i \in Not : n <= i
      <3>1. Not \in SUBSET Nat
        OBVIOUS
      <3> HIDE DEF Not
      <3> QED
        BY <3>1, MinOf
    <2>2. n \in Nat /\ n <= Len(p) /\ f[n] # {SubSeq(p, 1, n)} /\ n # 0
      BY <1>1, <1>4, <2>1
    <2> DEFINE q == SubSeq(p, 1, n - 1)
    <2>3. f[n - 1] = {q}
      <3>1. n - 1 \in Nat /\ n - 1 <= Len(p) /\ n - 1 \notin Not
        BY <1>1, <2>1, <2>2
      <3> QED
        BY <3>1
    <2>4. q \in Seq(DOMAIN Rank) /\ p[n] \in DOMAIN Rank
      BY <1>1, <2>2
    <2>5. Append(q, p[n]) = SubSeq(p, 1, n)
      <3>1. Len(q) = n - 1 /\ \A k \in 1 .. n - 1 : q[k] = p[k]
        BY <1>1, <2>2
      <3>2. Append(q, p[n]) = [k \in 1 .. n |-> IF k = n THEN p[n] ELSE q[k]]
        BY <2>2, <2>4, <3>1
      <3>3. SubSeq(p, 1, n) = [k \in 1 .. n |-> p[k]]
        BY <1>1, <2>2
      <3> HIDE DEF q
      <3> QED
        BY <2>2, <3>1, <3>2, <3>3
    <2>6. SubSeq(p, 1, n) \in tree
      BY <1>1, <2>2, PrefixesIn
    <2> HIDE DEF q
    <2>7. Find(tree, q, p[n]) = {SubSeq(p, 1, n)}
      <3>1. Append(q, p[n]) \in tree
        BY <2>5, <2>6
      <3>2. Find(tree, q, p[n]) = {Append(q, p[n])}
        BY <2>4, <3>1, FindsChild
      <3> QED
        BY <2>5, <3>2
    <2>8. f[n] = FindNext(tree, {q}, p[n])
      <3>1. n \in 1 .. Len(p)
        BY <1>1, <2>2
      <3> QED
        BY <1>4, <2>3, <3>1
    <2>9. FindNext(tree, {q}, p[n]) = Find(tree, q, p[n])
      BY DEF FindNext
    <2> QED
      BY <2>2, <2>7, <2>8, <2>9
  <1>6. f[Len(p)] = {p}
    BY <1>1, <1>5
  <1> QED
    BY <1>3, <1>6 DEF f

\* An xpath whose names are in one place selects the node that has it, or nothing,
\* whatever of the paths are in the tree.
THEOREM SelectsAtMost ==
  ASSUME NEW paths \in SUBSET Seq(DOMAIN Rank), NEW tree \in SUBSET paths,
         NEW x, InOnePlace(paths, x)
  PROVE  Select(tree, x) \subseteq {x} \cap tree
  <1>1. x \in Seq(STRING) /\ Len(x) \in Nat /\ SubSeq(x, 1, Len(x)) = x /\ SubSeq(x, 1, 0) = <<>>
    BY DEF InOnePlace
  <1> SUFFICES ASSUME x # <<>> PROVE Select(tree, x) \subseteq {x} \cap tree
    BY DEF Select
  <1>2. Len(x) \in Nat \ {0}
    BY <1>1, EmptySeq
  <1>3. Select(tree, x) = FoundAfter(tree, x)[Len(x)]
    BY <1>1, <1>2 DEF Select, InOnePlace, Last
  <1> DEFINE f == FoundAfter(tree, x)
             Not == {i \in Nat : i <= Len(x) /\ ~(f[i] \subseteq {SubSeq(x, 1, i)})}
  <1>4. f[0] = {<<>>} /\ \A i \in 1 .. Len(x) : f[i] = FindNext(tree, f[i - 1], x[i])
    BY <1>1, FoundAfterIs
  <1> HIDE DEF f
  <1>5. Not = {}
    <2> SUFFICES ASSUME Not # {} PROVE FALSE
      OBVIOUS
    <2>1. PICK n \in Not : \A i \in Not : n <= i
      <3>1. Not \in SUBSET Nat
        OBVIOUS
      <3> HIDE DEF Not
      <3> QED
        BY <3>1, MinOf
    <2>2. n \in Nat /\ n <= Len(x) /\ ~(f[n] \subseteq {SubSeq(x, 1, n)}) /\ n # 0
      BY <1>1, <1>4, <2>1
    <2>3. n \in 1 .. Len(x) /\ f[n] = FindNext(tree, f[n - 1], x[n])
      BY <1>1, <1>4, <2>2
    <2>4. f[n - 1] \subseteq {SubSeq(x, 1, n - 1)}
      <3>1. n - 1 \in Nat /\ n - 1 <= Len(x) /\ n - 1 \notin Not
        BY <1>1, <2>1, <2>2
      <3> QED
        BY <3>1
    <2>5. ASSUME NEW d \in f[n] PROVE d = SubSeq(x, 1, n)
      <3>1. PICK p \in f[n - 1] : d \in Find(tree, p, x[n])
        BY <2>3, <2>5 DEF FindNext
      <3>2. d \in paths /\ IsStrictPrefix(SubSeq(x, 1, n - 1), d) /\ Last(d) = x[n]
        BY <2>4, <3>1 DEF Find, LastOf, Visited, Below
      <3>3. n \in DOMAIN x
        BY <1>1, <2>3
      <3> QED
        BY <3>2, <3>3 DEF InOnePlace
    <2> QED
      BY <2>2, <2>5
  <1>6. f[Len(x)] \subseteq {x}
    BY <1>1, <1>5
  <1>7. f[Len(x)] \subseteq tree
    <2>1. f[Len(x)] = FindNext(tree, f[Len(x) - 1], x[Len(x)])
      BY <1>2, <1>4
    <2> QED
      BY <2>1 DEF FindNext, Find, LastOf, Visited, Below
  <1> QED
    BY <1>3, <1>6, <1>7 DEF f

=============================================================================
