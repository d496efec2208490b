------------------------ MODULE NodesOrderingProofs -------------------------
(***************************************************************************)
(* Proofs about module NodesOrdering, for any configs, dependencies and    *)
(* order of the xpaths: the walk is a topological sort, the merge puts     *)
(* parents first, and each node is sent once.                              *)
(***************************************************************************)
EXTENDS NodesOrdering, XPathProofs

\* What the iterations of maps and sets meet is in the map or set.
LEMMA FirstInSet ==
  ASSUME NEW S \in SUBSET Names, S # {}
  PROVE  FirstIn(S) \in S
  <1> DEFINE I == {i \in DOMAIN Sorted : Sorted[i] \in S}
  <1>1. I \in SUBSET Nat /\ I # {}
    BY SortedAssumption DEF Names, ToSet
  <1>2. Min(I) \in I /\ \A j \in I : Min(I) <= j
    BY <1>1, MinOf
  <1> QED
    BY <1>2 DEF FirstIn

LEMMA LastInSet ==
  ASSUME NEW S \in SUBSET Names, S # {}
  PROVE  LastIn(S) \in S
  <1> DEFINE n == Len(Sorted)
             I == {k \in 0 .. n : n - k \in DOMAIN Sorted /\ Sorted[n - k] \in S}
  <1>1. DOMAIN Sorted = 1 .. n /\ n \in Nat
    BY SortedAssumption
  <1>2. PICK i \in DOMAIN Sorted : Sorted[i] \in S
    BY SortedAssumption DEF Names, ToSet
  <1>3. n - i \in I
    BY <1>1, <1>2
  <1>4. PICK k \in I : \A l \in I : k <= l
    <2>1. I \in SUBSET Nat
      BY <1>1
    <2> QED
      BY <1>3, <2>1, MinOf
  <1>5. ASSUME NEW j \in DOMAIN Sorted, Sorted[j] \in S PROVE j <= n - k
    <2>1. n - j \in 0 .. n /\ n - (n - j) = j
      BY <1>1
    <2>2. n - j \in I
      BY <1>5, <2>1
    <2>3. k <= n - j
      BY <1>4, <2>2
    <2> QED
      BY <1>1, <2>3
  <1>6. n - k \in DOMAIN Sorted /\ Sorted[n - k] \in S
    BY <1>4
  <1> QED
    BY <1>5, <1>6 DEF LastIn

LEMMA FirstOccurrence ==
  ASSUME NEW s \in Seq(Names), NEW n
  PROVE  IF n \in ToSet(s)
         THEN /\ First(s, n) \in DOMAIN s /\ s[First(s, n)] = n
              /\ \A i \in DOMAIN s : s[i] = n => First(s, n) <= i
         ELSE First(s, n) = 0
  <1> DEFINE I == {i \in 1 .. Len(s) : s[i] = n}
  <1>1. First(s, n) = IF I # {} THEN Min(I) ELSE 0
    BY DEF First, SelectInSeq
  <1>2. DOMAIN s = 1 .. Len(s) /\ I \in SUBSET Nat
    OBVIOUS
  <1>3. I # {} <=> n \in ToSet(s)
    BY <1>2 DEF ToSet
  <1> QED
    BY <1>1, <1>2, <1>3, MinOf

LEMMA AppendKeepsFirst ==
  ASSUME NEW s \in Seq(Names), NEW e \in Names
  PROVE  /\ ToSet(Append(s, e)) = ToSet(s) \cup {e}
         /\ \A n \in ToSet(s) : First(Append(s, e), n) = First(s, n)
         /\ e \notin ToSet(s) => First(Append(s, e), e) = Len(s) + 1
  <1> DEFINE t == Append(s, e)
  <1>1. /\ t \in Seq(Names) /\ Len(t) = Len(s) + 1 /\ t[Len(s) + 1] = e
        /\ \A i \in 1 .. Len(s) : t[i] = s[i]
        /\ Len(s) \in Nat /\ DOMAIN s = 1 .. Len(s) /\ DOMAIN t = 1 .. Len(s) + 1
    OBVIOUS
  <1>2. ToSet(t) = ToSet(s) \cup {e}
    BY <1>1 DEF ToSet
  <1>3. ASSUME NEW n \in ToSet(s) PROVE First(t, n) = First(s, n)
    <2>1. /\ First(s, n) \in DOMAIN s /\ s[First(s, n)] = n
          /\ \A i \in DOMAIN s : s[i] = n => First(s, n) <= i
      BY FirstOccurrence
    <2>2. /\ First(t, n) \in DOMAIN t /\ t[First(t, n)] = n
          /\ \A i \in DOMAIN t : t[i] = n => First(t, n) <= i
      BY <1>1, <1>2, FirstOccurrence
    <2>3. First(t, n) <= First(s, n)
      BY <1>1, <2>1, <2>2
    <2>4. First(t, n) \in DOMAIN s
      BY <1>1, <2>1, <2>2, <2>3
    <2> QED
      BY <1>1, <2>1, <2>2, <2>3, <2>4
  <1>4. ASSUME e \notin ToSet(s) PROVE First(t, e) = Len(s) + 1
    <2>1. First(t, e) \in DOMAIN t /\ t[First(t, e)] = e
      BY <1>1, <1>2, FirstOccurrence
    <2>2. \A i \in DOMAIN s : s[i] # e
      BY <1>4 DEF ToSet
    <2> QED
      BY <1>1, <2>1, <2>2
  <1> QED
    BY <1>2, <1>3, <1>4

LEMMA InsertedPlace ==
  ASSUME ordered \in Seq(Names), NEW n \in Names
  PROVE  LET t == Inserted(n)
         IN  /\ t \in Seq(Names) /\ Len(t) = Len(ordered) + 1
             /\ \E at \in 1 .. Len(t) :
                   /\ \A i \in 1 .. Len(t) :
                         t[i] = IF i < at THEN ordered[i] ELSE IF i = at THEN n ELSE ordered[i - 1]
                   /\ \A i \in 1 .. at - 1 : <<n, ordered[i]>> \notin Within
                   /\ at <= Len(ordered) => <<n, ordered[at]>> \in Within
  <1> DEFINE I == {i \in 1 .. Len(ordered) : <<n, ordered[i]>> \in Within}
             at == IF I # {} THEN Min(I) ELSE 0
  <1>1. Inserted(n) = IF at = 0 THEN Append(ordered, n) ELSE InsertAt(ordered, at, n)
    BY DEF Inserted, SelectInSeq
  <1>2. Len(ordered) \in Nat /\ I \in SUBSET Nat
    OBVIOUS
  <1>3. CASE I = {}
    <2>1. Inserted(n) = Append(ordered, n)
      BY <1>1, <1>3
    <2>2. \A i \in 1 .. Len(ordered) : <<n, ordered[i]>> \notin Within
      BY <1>3
    <2>3. /\ Append(ordered, n) \in Seq(Names) /\ Len(Append(ordered, n)) = Len(ordered) + 1
          /\ \A i \in 1 .. Len(ordered) : Append(ordered, n)[i] = ordered[i]
          /\ Append(ordered, n)[Len(ordered) + 1] = n
      BY AppendProperties
    <2> DEFINE t == Inserted(n)
               end == Len(ordered) + 1
    <2>4. t \in Seq(Names) /\ Len(t) = end /\ end \in 1 .. Len(t)
      BY <1>2, <2>1, <2>3
    <2>5. \A i \in 1 .. Len(t) :
              t[i] = IF i < end THEN ordered[i] ELSE IF i = end THEN n ELSE ordered[i - 1]
      BY <1>2, <2>1, <2>3, <2>4
    <2>6. \A i \in 1 .. end - 1 : <<n, ordered[i]>> \notin Within
      BY <1>2, <2>2
    <2> QED
      BY <1>2, <2>4, <2>5, <2>6
  <1>4. CASE I # {}
    <2>1. at \in I /\ \A i \in I : at <= i
      BY <1>2, <1>4, MinOf
    <2> HIDE DEF at
    <2>2. Inserted(n) = InsertAt(ordered, at, n)
      BY <1>1, <1>2, <2>1
    <2>3. \A i \in 1 .. at - 1 : <<n, ordered[i]>> \notin Within
      BY <1>2, <2>1
    <2> DEFINE t == InsertAt(ordered, at, n)
    <2>4. at \in 1 .. Len(ordered) /\ <<n, ordered[at]>> \in Within
      BY <2>1
    <2>5. /\ t \in Seq(Names) /\ Len(t) = Len(ordered) + 1
          /\ \A i \in 1 .. Len(ordered) + 1 :
                 t[i] = IF i < at THEN ordered[i] ELSE IF i = at THEN n ELSE ordered[i - 1]
      BY <2>4, Insertion
    <2> HIDE DEF t
    <2>6. at \in 1 .. Len(t)
      BY <1>2, <2>4, <2>5
    <2> QED
      BY <2>2, <2>3, <2>4, <2>5, <2>6 DEF t
  <1> QED
    BY <1>3, <1>4

-----------------------------------------------------------------------------
(***************************************************************************)
(* Type correctness.                                                       *)
(***************************************************************************)

Frames == [node : Names, edges : SUBSET Names]

LEMMA FrameTyped ==
  ASSUME TypeOK, NEW n \in Names
  PROVE  Frame(n) \in Frames
  BY DEF TypeOK, Frame, Frames, Edges

LEMMA TopTyped ==
  ASSUME TypeOK, stack # <<>>
  PROVE  /\ Len(stack) \in Nat \ {0} /\ Last(stack) = stack[Len(stack)]
         /\ Last(stack).node \in Names /\ Last(stack).edges \in SUBSET Names
         /\ Last(stack).edges # {} => FirstIn(Last(stack).edges) \in Last(stack).edges
         /\ EdgeTaken \in Seq(Frames) /\ Len(EdgeTaken) = Len(stack)
         /\ \A i \in 1 .. Len(stack) : EdgeTaken[i].node = stack[i].node
         /\ \A i \in 1 .. Len(stack) - 1 : EdgeTaken[i] = stack[i]
         /\ EdgeTaken[Len(stack)].edges = Last(stack).edges \ {FirstIn(Last(stack).edges)}
  <1>0. stack \in Seq(Frames)
    BY DEF TypeOK, Frames
  <1>1. /\ Len(stack) \in Nat \ {0} /\ Last(stack) = stack[Len(stack)]
        /\ \A i \in 1 .. Len(stack) : stack[i] \in Frames
    BY <1>0, EmptySeq DEF Last
  <1>2. Last(stack).node \in Names /\ Last(stack).edges \in SUBSET Names
    BY <1>1 DEF Frames
  <1>3. [Last(stack) EXCEPT !.edges = @ \ {FirstIn(@)}] \in Frames
    BY <1>1, <1>2 DEF Frames
  <1>4. EdgeTaken = [stack EXCEPT ![Len(stack)] = [Last(stack) EXCEPT !.edges = @ \ {FirstIn(@)}]]
    BY <1>1 DEF EdgeTaken
  <1>5. EdgeTaken \in Seq(Frames) /\ Len(EdgeTaken) = Len(stack)
    BY <1>0, <1>1, <1>3, <1>4
  <1>6. \A i \in 1 .. Len(stack) - 1 : EdgeTaken[i] = stack[i]
    BY <1>0, <1>1, <1>4
  <1>7. EdgeTaken[Len(stack)] = [Last(stack) EXCEPT !.edges = @ \ {FirstIn(@)}]
    <2> DEFINE top == [Last(stack) EXCEPT !.edges = @ \ {FirstIn(@)}]
    <2>1. EdgeTaken = [stack EXCEPT ![Len(stack)] = top]
      BY <1>4
    <2>2. Len(stack) \in DOMAIN stack
      BY <1>0, <1>1
    <2> HIDE DEF top
    <2>3. EdgeTaken[Len(stack)] = top
      BY <2>1, <2>2
    <2> QED
      BY <2>3 DEF top
  <1> QED
    BY <1>1, <1>2, <1>5, <1>6, <1>7, FirstInSet DEF Frames

LEMMA Popped ==
  ASSUME TypeOK, stack # <<>>
  PROVE  /\ Front(stack) \in Seq(Frames) /\ Len(Front(stack)) = Len(stack) - 1
         /\ \A i \in 1 .. Len(stack) - 1 : Front(stack)[i] = stack[i]
  <1>1. stack \in Seq(Frames)
    BY DEF TypeOK, Frames
  <1> QED
    BY <1>1, FrontOf

LEMMA Typed ==
  ASSUME TypeOK, [Next]_vars
  PROVE  TypeOK'
  <1>1. CASE Call
    <2>1. PICK tree \in Trees : \E declared \in Declarations(tree) :
              deps' = [n \in tree |-> UNION {Resolve(tree, d) : d \in declared[n]}]
      BY <1>1 DEF Call
    <2>2. Keys' \subseteq Names /\ \A n \in Keys' : deps'[n] \subseteq Names
      BY <2>1, TreesAssumption DEF Keys
    <2> QED
      BY <1>1, <2>2 DEF Call, TypeOK
  <1>2. CASE Return
    BY <1>2, EmptySeq DEF Return, TypeOK, Keys, NoDeps
  <1>3. CASE BuildGraph
    BY <1>3 DEF BuildGraph, TypeOK, Keys
  <1>4. CASE RefuseTwoCycle
    BY <1>4 DEF RefuseTwoCycle, TypeOK, Keys
  <1>5. CASE Overflow
    BY <1>5 DEF Overflow, TypeOK, Keys, NoDeps
  <1>6. CASE ResolveRoot
    <2>1. LastIn(roots) \in Names
      BY <1>6, LastInSet DEF ResolveRoot, TypeOK
    <2>2. <<Frame(LastIn(roots))>> \in Seq(Frames)
      BY <2>1, FrameTyped
    <2> QED
      BY <1>6, <2>2 DEF ResolveRoot, TypeOK, Keys, Frames
  <1>7. CASE ResolveEdge
    <2>1. stack' = EdgeTaken \/ stack' = Append(EdgeTaken, Frame(FirstIn(Last(stack).edges))) \/ stack' = stack
      BY <1>7 DEF ResolveEdge
    <2>2. FirstIn(Last(stack).edges) \in Names
      BY <1>7, TopTyped DEF ResolveEdge
    <2>3. Append(EdgeTaken, Frame(FirstIn(Last(stack).edges))) \in Seq(Frames)
      BY <1>7, <2>2, FrameTyped, TopTyped DEF ResolveEdge
    <2>4. stack' \in Seq(Frames)
      BY <1>7, <2>1, <2>3, TopTyped DEF ResolveEdge, TypeOK, Frames
    <2> QED
      BY <1>7, <2>4 DEF ResolveEdge, TypeOK, Keys, Frames
  <1>8. CASE NodeResolved
    <2>1. Front(stack) \in Seq(Frames)
      BY <1>8, Popped DEF NodeResolved
    <2>2. Append(resolved, Last(stack).node) \in Seq(Names)
      BY <1>8, TopTyped DEF NodeResolved, TypeOK
    <2> QED
      BY <1>8, <2>1, <2>2 DEF NodeResolved, TypeOK, Keys, Frames
  <1>9. CASE AllResolved
    BY <1>9 DEF AllResolved, TypeOK, Keys
  <1>10. CASE Merge
    <2>1. rest \in Seq(Names) /\ rest # <<>> /\ Head(rest) \in Names /\ Tail(rest) \in Seq(Names)
      BY <1>10 DEF Merge, TypeOK
    <2>2. Inserted(Head(rest)) \in Seq(Names)
      BY <2>1, InsertedPlace DEF TypeOK
    <2> QED
      BY <1>10, <2>1, <2>2 DEF Merge, TypeOK, Keys
  <1>11. CASE Merged
    BY <1>11 DEF Merged, TypeOK, Keys
  <1>12. CASE UNCHANGED vars
    BY <1>12 DEF vars, TypeOK, Keys
  <1> QED
    BY <1>1, <1>2, <1>3, <1>4, <1>5, <1>6, <1>7, <1>8, <1>9, <1>10, <1>11, <1>12 DEF Next

\* Nothing of a call is left for the next (topo_sort.cpp:86-173,
\* nodes_ordering.cpp:372-397).
THEOREM TypeCorrect == Spec => []TypeOK
  <1>1. Init => TypeOK
    BY EmptySeq DEF Init, TypeOK, Keys, NoDeps
  <1> QED
    BY <1>1, Typed, PTL DEF Spec

-----------------------------------------------------------------------------
(***************************************************************************)
(* The merge.                                                              *)
(***************************************************************************)

\* Before the place of an inserted node nothing has it as a parent, and what
\* is a parent of it is a parent of the node it is put before.
LEMMA ParentsStayFirst ==
  ASSUME TypeOK, [Next]_vars, ParentsFirst
  PROVE  ParentsFirst'
  <1>1. CASE ordered' = ordered
    BY <1>1 DEF ParentsFirst
  <1>2. CASE ordered' = <<>>
    BY <1>2 DEF ParentsFirst
  <1>3. CASE Merge /\ ordered' = Inserted(Head(rest))
    <2> DEFINE n == Head(rest)
               t == Inserted(n)
    <2>1. ordered \in Seq(Names) /\ n \in Names
      BY <1>3 DEF Merge, TypeOK
    <2>2. PICK at \in 1 .. Len(t) :
              /\ \A i \in 1 .. Len(t) :
                    t[i] = IF i < at THEN ordered[i] ELSE IF i = at THEN n ELSE ordered[i - 1]
              /\ \A i \in 1 .. at - 1 : <<n, ordered[i]>> \notin Within
              /\ at <= Len(ordered) => <<n, ordered[at]>> \in Within
      BY <2>1, InsertedPlace
    <2>3. t \in Seq(Names) /\ Len(t) = Len(ordered) + 1 /\ Len(ordered) \in Nat
      BY <2>1, InsertedPlace
    <2> HIDE DEF n, t
    <2>4. ASSUME NEW i \in 1 .. Len(t), NEW j \in 1 .. Len(t), i < j
          PROVE  <<t[j], t[i]>> \notin Within
      <3>1. CASE i # at /\ j # at
        <4> DEFINE k == IF i < at THEN i ELSE i - 1
                   l == IF j < at THEN j ELSE j - 1
        <4>1. k \in DOMAIN ordered /\ l \in DOMAIN ordered /\ k < l
          BY <2>1, <2>3, <2>4, <3>1
        <4>2. t[i] = ordered[k] /\ t[j] = ordered[l]
          BY <2>2, <3>1
        <4> QED
          BY <4>1, <4>2 DEF ParentsFirst
      <3>2. CASE j = at
        <4>1. t[j] = n /\ t[i] = ordered[i] /\ i \in 1 .. at - 1
          BY <2>2, <2>3, <2>4, <3>2
        <4> QED
          BY <2>2, <4>1
      <3>3. CASE i = at
        <4>1. t[i] = n /\ t[j] = ordered[j - 1]
          BY <2>2, <2>4, <3>3
        <4>2. /\ at \in DOMAIN ordered /\ j - 1 \in DOMAIN ordered
              /\ at <= Len(ordered) /\ at <= j - 1
          BY <2>1, <2>3, <2>4, <3>3
        <4>3. <<n, ordered[at]>> \in Within
          BY <2>2, <4>2
        <4>4. SUFFICES ASSUME <<ordered[j - 1], n>> \in Within PROVE FALSE
          BY <4>1
        <4>5. <<ordered[j - 1], ordered[at]>> \in Within
          BY <4>3, <4>4, WithinAssumption
        <4>6. at # j - 1
          BY <4>5, WithinAssumption
        <4>7. at < j - 1
          BY <4>2, <4>6
        <4> QED
          BY <4>2, <4>5, <4>7 DEF ParentsFirst
      <3> QED
        BY <3>1, <3>2, <3>3
    <2>5. DOMAIN t = 1 .. Len(t)
      BY <2>3
    <2>6. ordered' = t
      BY <1>3 DEF t, n
    <2> QED
      BY <2>4, <2>5, <2>6 DEF ParentsFirst
  <1> QED
    BY <1>1, <1>2, <1>3 DEF Next, vars, Call, Return, BuildGraph, RefuseTwoCycle, Overflow,
       ResolveRoot, ResolveEdge, NodeResolved, AllResolved, Merge, Merged

\* The list handed back never has a node before its parent, whatever the
\* dependencies (topo_sort.cpp:151-163).
THEOREM ParentsComeFirst == Spec => []ParentsFirst
  <1>1. Init => ParentsFirst
    BY DEF Init, ParentsFirst
  <1> QED
    BY <1>1, TypeCorrect, ParentsStayFirst, PTL DEF Spec

-----------------------------------------------------------------------------
(***************************************************************************)
(* The walk.                                                               *)
(***************************************************************************)

\* Edges that have left a frame lead to nodes that are resolved or to the call
\* that the frame waits for, as long as its node is not resolved itself.
EdgesFollowed ==
    \A i \in 1 .. Len(stack) : stack[i].node \in Keys \ ToSet(resolved) =>
        \A m \in deps[stack[i].node] :
            \/ m \in stack[i].edges
            \/ m \in ToSet(resolved)
            \/ i < Len(stack) /\ m = stack[i + 1].node

LEMMA EdgesStayFollowed ==
  ASSUME TypeOK, [Next]_vars, EdgesFollowed
  PROVE  EdgesFollowed'
  <1>1. CASE UNCHANGED <<deps, stack, resolved>>
    BY <1>1 DEF EdgesFollowed, Keys
  <1>2. CASE stack' = <<>>
    BY <1>2 DEF EdgesFollowed
  <1>3. CASE ResolveRoot
    <2> DEFINE n == LastIn(roots)
    <2>1. stack' = <<Frame(n)>> /\ UNCHANGED <<deps, resolved>>
      BY <1>3 DEF ResolveRoot
    <2>2. Len(stack') = 1 /\ stack'[1].node = n /\ stack'[1].edges = Edges(n)
      BY <2>1 DEF Frame
    <2> QED
      BY <2>1, <2>2 DEF EdgesFollowed, Keys, Edges
  <1>4. CASE ResolveEdge /\ stack' # stack
    <2> DEFINE top == Len(stack)
               edge == FirstIn(Last(stack).edges)
    <2>1. stack # <<>> /\ edge \in Last(stack).edges /\ UNCHANGED <<deps, resolved>>
      BY <1>4, TopTyped DEF ResolveEdge
    <2>2. /\ top \in Nat \ {0} /\ Last(stack) = stack[top]
          /\ EdgeTaken \in Seq(Frames) /\ Len(EdgeTaken) = top
          /\ \A i \in 1 .. top : EdgeTaken[i].node = stack[i].node
          /\ \A i \in 1 .. top - 1 : EdgeTaken[i] = stack[i]
          /\ EdgeTaken[top].edges = stack[top].edges \ {edge}
      BY <2>1, TopTyped
    <2>3. CASE stack[top].node \in ToSet(resolved) /\ stack' = EdgeTaken
      BY <2>1, <2>2, <2>3 DEF EdgesFollowed, Keys
    <2>4. CASE stack' = Append(EdgeTaken, Frame(edge))
      <3>1. edge \in Names /\ Frame(edge) \in Frames
        BY <2>1, FrameTyped, TopTyped
      <3>2. /\ Len(stack') = top + 1 /\ stack'[top + 1] = Frame(edge)
            /\ \A i \in 1 .. top : stack'[i] = EdgeTaken[i]
        BY <2>2, <2>4, <3>1
      <3>3. stack'[top + 1].node = edge /\ stack'[top + 1].edges = Edges(edge)
        BY <3>2 DEF Frame
      <3> SUFFICES ASSUME NEW i \in 1 .. top + 1, stack'[i].node \in Keys \ ToSet(resolved),
                          NEW m \in deps[stack'[i].node]
                   PROVE  \/ m \in stack'[i].edges
                          \/ m \in ToSet(resolved)
                          \/ i < top + 1 /\ m = stack'[i + 1].node
        BY <2>1, <3>2 DEF EdgesFollowed, Keys
      <3>4. CASE i = top + 1
        BY <3>3, <3>4 DEF Edges
      <3>5. CASE i = top
        BY <2>2, <3>2, <3>3, <3>5 DEF EdgesFollowed
      <3>6. CASE i < top
        <4>1. /\ i \in 1 .. top - 1 /\ i + 1 \in 1 .. top
              /\ stack'[i] = stack[i] /\ stack'[i + 1].node = stack[i + 1].node
          BY <2>2, <3>2, <3>6
        <4> QED
          BY <2>2, <3>6, <4>1 DEF EdgesFollowed
      <3> QED
        BY <2>2, <3>4, <3>5, <3>6
    <2> QED
      BY <1>4, <2>2, <2>3, <2>4 DEF ResolveEdge
  <1>5. CASE NodeResolved
    <2> DEFINE top == Len(stack)
               n == Last(stack).node
    <2>1. /\ Len(stack') = top - 1 /\ \A i \in 1 .. top - 1 : stack'[i] = stack[i]
          /\ top \in Nat \ {0} /\ n = stack[top].node
      BY <1>5, Popped, TopTyped DEF NodeResolved
    <2>2. ToSet(resolved') = ToSet(resolved) \cup {n} /\ deps' = deps
      BY <1>5, TopTyped, AppendKeepsFirst DEF NodeResolved, TypeOK
    <2> SUFFICES ASSUME NEW i \in 1 .. top - 1, stack[i].node \in Keys \ ToSet(resolved),
                        NEW m \in deps[stack[i].node]
                 PROVE  \/ m \in stack[i].edges
                        \/ m \in ToSet(resolved')
                        \/ i < top - 1 /\ m = stack'[i + 1].node
      BY <2>1, <2>2 DEF EdgesFollowed, Keys
    <2>3. CASE i = top - 1
      BY <2>1, <2>2, <2>3 DEF EdgesFollowed
    <2>4. CASE i < top - 1
      <3>1. i + 1 \in 1 .. top - 1
        BY <2>1, <2>4
      <3> QED
        BY <2>1, <2>2, <2>4, <3>1 DEF EdgesFollowed
    <2> QED
      BY <2>1, <2>3, <2>4
  <1>6. CASE Call \/ Overflow
    BY <1>6, <1>2 DEF Call, Overflow, TypeOK
  <1> QED
    BY <1>1, <1>2, <1>3, <1>4, <1>5, <1>6 DEF Next, vars, Return, BuildGraph, RefuseTwoCycle,
       ResolveEdge, AllResolved, Merge, Merged

LEMMA StaysSorted ==
  ASSUME TypeOK, [Next]_vars, EdgesFollowed, ResolvedIsSorted
  PROVE  ResolvedIsSorted'
  <1>1. CASE UNCHANGED <<deps, resolved>>
    BY <1>1 DEF ResolvedIsSorted, DependenciesFirst, Keys
  <1>2. CASE resolved' = <<>>
    BY <1>2 DEF ResolvedIsSorted, DependenciesFirst, ToSet
  <1>3. CASE NodeResolved
    <2> DEFINE e == Last(stack).node
    <2>1. /\ e \in Names /\ resolved \in Seq(Names) /\ Last(stack).edges = {}
          /\ resolved' = Append(resolved, e) /\ deps' = deps
      BY <1>3, TopTyped DEF NodeResolved, TypeOK
    <2> HIDE DEF e
    <2>2. /\ ToSet(resolved') = ToSet(resolved) \cup {e}
          /\ \A n \in ToSet(resolved) : First(resolved', n) = First(resolved, n)
          /\ e \notin ToSet(resolved) => First(resolved', e) = Len(resolved) + 1
      BY <2>1, AppendKeepsFirst
    <2>3. \A n \in ToSet(resolved) : First(resolved, n) < Len(resolved) + 1
      BY <2>1, FirstOccurrence
    <2>4. e \in Keys \ ToSet(resolved) => deps[e] \subseteq ToSet(resolved)
      <3>1. /\ Len(stack) \in Nat \ {0} /\ stack[Len(stack)].node = e
            /\ stack[Len(stack)].edges = {}
        BY <1>3, <2>1, TopTyped DEF NodeResolved, e
      <3> QED
        BY <3>1 DEF EdgesFollowed
    <2>5. \A n \in ToSet(resolved') \cap Keys : deps[n] \subseteq ToSet(resolved)
      BY <2>2, <2>4 DEF ResolvedIsSorted
    <2>6. ASSUME NEW n \in ToSet(resolved') \cap Keys, NEW m \in deps[n]
          PROVE  First(resolved', m) < First(resolved', n)
      <3>1. m \in ToSet(resolved)
        BY <2>5, <2>6
      <3>2. CASE n \in ToSet(resolved)
        BY <2>2, <3>1, <3>2 DEF ResolvedIsSorted, DependenciesFirst
      <3>3. CASE n \notin ToSet(resolved)
        BY <2>2, <2>3, <3>1, <3>3
      <3> QED
        BY <3>2, <3>3
    <2> QED
      BY <2>1, <2>2, <2>5, <2>6 DEF ResolvedIsSorted, DependenciesFirst, Keys
  <1>4. CASE Call \/ Overflow
    BY <1>4, <1>2 DEF Call, Overflow, TypeOK
  <1> QED
    BY <1>1, <1>2, <1>3, <1>4 DEF Next, vars, Return, BuildGraph, RefuseTwoCycle,
       ResolveRoot, ResolveEdge, AllResolved, Merge, Merged

\* The walk is a topological sort although it passes over edges by looking for
\* the node instead of the edge (topo_sort.cpp:35-57).
THEOREM WalkSorts == Spec => []ResolvedIsSorted
  <1>1. Init => EdgesFollowed /\ ResolvedIsSorted
    BY DEF Init, EdgesFollowed, ResolvedIsSorted, DependenciesFirst, ToSet
  <1>2. TypeOK /\ EdgesFollowed /\ ResolvedIsSorted /\ [Next]_vars
        => EdgesFollowed' /\ ResolvedIsSorted'
    BY EdgesStayFollowed, StaysSorted
  <1> QED
    BY <1>1, <1>2, TypeCorrect, PTL DEF Spec

-----------------------------------------------------------------------------
(***************************************************************************)
(* What makeGraphNode lets through has no cycle that depResolve could meet.*)
(***************************************************************************)

\* The rounds are a function: no number of rounds is the least for which there
\* is none.
LEMMA LeftAfterIs ==
  ASSUME NEW needs, Cardinality(DOMAIN needs) \in Nat
  PROVE  LET left == LeftAfter(needs)
         IN  /\ left[0] = DOMAIN needs
             /\ \A i \in 1 .. Cardinality(DOMAIN needs) :
                    left[i] = {n \in left[i - 1] : needs[n] \cap left[i - 1] # {}}
  <1> DEFINE Round(S) == {n \in S : needs[n] \cap S # {}}
             Is(g, k) == g = [i \in 0 .. k |-> IF i = 0 THEN DOMAIN needs ELSE Round(g[i - 1])]
             None == {k \in Nat : ~ \E g : Is(g, k)}
  <1>1. None = {}
    <2> SUFFICES ASSUME None # {} PROVE FALSE
      OBVIOUS
    <2>1. PICK k \in None : \A i \in None : k <= i
      <3>1. None \in SUBSET Nat
        OBVIOUS
      <3> HIDE DEF None
      <3> QED
        BY <3>1, MinOf
    <2>2. k \in Nat /\ ~ \E g : Is(g, k)
      BY <2>1
    <2>3. CASE k = 0
      <3> DEFINE g == [i \in 0 .. 0 |-> DOMAIN needs]
      <3>1. \A i \in 0 .. 0 : i = 0
        OBVIOUS
      <3> HIDE DEF Round
      <3>2. g = [i \in 0 .. 0 |-> IF i = 0 THEN DOMAIN needs ELSE Round(g[i - 1])]
        BY <3>1
      <3>3. Is(g, k)
        BY <2>3, <3>2
      <3> HIDE DEF Is
      <3> QED
        BY <2>2, <3>3
    <2>4. CASE k # 0
      <3> HIDE DEF Round
      <3>1. k - 1 \in Nat /\ ~(k <= k - 1)
        BY <2>2, <2>4
      <3>2. PICK g : Is(g, k - 1)
        BY <2>1, <3>1
      <3> DEFINE h == [i \in 0 .. k |-> IF i = k THEN Round(g[k - 1]) ELSE g[i]]
      <3>3. \A i \in 0 .. k - 1 : g[i] = IF i = 0 THEN DOMAIN needs ELSE Round(g[i - 1])
        BY <3>2
      <3>4. \A i \in 0 .. k : h[i] = IF i = 0 THEN DOMAIN needs ELSE Round(h[i - 1])
        <4> TAKE i \in 0 .. k
        <4>1. i # 0 => i - 1 \in 0 .. k - 1 /\ h[i - 1] = g[i - 1]
          BY <2>2
        <4>2. i # k => i \in 0 .. k - 1
          BY <2>2
        <4> QED
          BY <2>4, <3>3, <4>1, <4>2
      <3>5. Is(h, k)
        BY <3>4
      <3> HIDE DEF Is, h
      <3> QED
        BY <2>2, <3>5
    <2> QED
      BY <2>3, <2>4
  <1>2. \E g : Is(g, Cardinality(DOMAIN needs))
    BY <1>1
  <1>3. Is(LeftAfter(needs), Cardinality(DOMAIN needs))
    BY <1>2 DEF LeftAfter
  <1> HIDE DEF Round
  <1>4. \A i \in 0 .. Cardinality(DOMAIN needs) :
            LeftAfter(needs)[i] = IF i = 0 THEN DOMAIN needs ELSE Round(LeftAfter(needs)[i - 1])
    BY <1>3
  <1>5. 0 \in 0 .. Cardinality(DOMAIN needs)
    OBVIOUS
  <1>6. \A i \in 1 .. Cardinality(DOMAIN needs) : i \in 0 .. Cardinality(DOMAIN needs) /\ i # 0
    OBVIOUS
  <1> QED
    BY <1>4, <1>5, <1>6 DEF Round

\* The round in which a node goes.
Level(needs, n) == Min({i \in 0 .. Cardinality(DOMAIN needs) : n \notin LeftAfter(needs)[i]})

LEMMA LevelTyped ==
  ASSUME NEW needs, Cardinality(DOMAIN needs) \in Nat, LeftOver(needs) = {}, NEW n
  PROVE  LET gone == {i \in 0 .. Cardinality(DOMAIN needs) : n \notin LeftAfter(needs)[i]}
         IN  /\ Level(needs, n) \in gone /\ Level(needs, n) \in Nat
             /\ \A i \in gone : Level(needs, n) <= i
  <1> DEFINE gone == {i \in 0 .. Cardinality(DOMAIN needs) : n \notin LeftAfter(needs)[i]}
  <1>1. Cardinality(DOMAIN needs) \in gone /\ gone \in SUBSET Nat
    BY DEF LeftOver
  <1>2. Level(needs, n) = Min(gone)
    BY DEF Level
  <1> HIDE DEF gone
  <1>3. Min(gone) \in gone /\ \A i \in gone : Min(gone) <= i
    BY <1>1, MinOf
  <1> QED
    BY <1>1, <1>2, <1>3 DEF gone

\* Where no node is left over, a node goes in a later round than those it needs.
LEMMA LevelsDescend ==
  ASSUME NEW needs, Cardinality(DOMAIN needs) \in Nat, LeftOver(needs) = {},
         NEW n \in DOMAIN needs, NEW m \in needs[n] \cap DOMAIN needs
  PROVE  Level(needs, n) \in Nat /\ Level(needs, m) \in Nat /\ Level(needs, m) < Level(needs, n)
  <1> DEFINE N == Cardinality(DOMAIN needs)
             left == LeftAfter(needs)
  <1>1. /\ left[0] = DOMAIN needs /\ left[N] = {}
        /\ \A i \in 1 .. N : left[i] = {k \in left[i - 1] : needs[k] \cap left[i - 1] # {}}
    BY LeftAfterIs DEF LeftOver
  <1> HIDE DEF left
  <1> DEFINE l == Level(needs, n)
  <1>2. /\ l \in 0 .. N /\ n \notin left[l] /\ \A i \in 0 .. N : n \notin left[i] => l <= i
        /\ Level(needs, m) \in 0 .. N
        /\ \A i \in 0 .. N : m \notin left[i] => Level(needs, m) <= i
    BY LevelTyped DEF left
  <1>3. l \in 1 .. N /\ l - 1 \in 0 .. N /\ n \notin left[l] /\ n \in left[l - 1]
    <2> HIDE DEF l
    <2>1. l # 0
      BY <1>1, <1>2
    <2>2. l - 1 \in 0 .. N /\ ~(l <= l - 1) /\ l \in 1 .. N
      BY <1>2, <2>1
    <2> QED
      BY <1>2, <2>2
  <1>4. m \notin left[l - 1]
    BY <1>1, <1>3
  <1> HIDE DEF l
  <1>5. Level(needs, m) <= l - 1
    BY <1>2, <1>3, <1>4
  <1> QED
    BY <1>2, <1>3, <1>5 DEF l

LEMMA KeysAreFinite ==
  ASSUME TypeOK
  PROVE  Cardinality(DOMAIN deps) \in Nat
  <1>1. IsFiniteSet(1 .. Len(Sorted))
    BY SortedAssumption, FS_Interval
  <1>2. Sorted \in Surjection(1 .. Len(Sorted), Names)
    BY SortedAssumption DEF Surjection, Names, ToSet
  <1>3. IsFiniteSet(Names)
    BY <1>1, <1>2, FS_Surjection
  <1> QED
    BY <1>3, FS_Subset, FS_CardinalityType DEF TypeOK, Keys

\* The nodes on the stack need each other, from the outermost to the innermost,
\* so that their levels descend.
Descending ==
    pc = "sorting" =>
        /\ Acyclic
        /\ \A i \in 1 .. Len(stack) : stack[i].edges \subseteq Edges(stack[i].node)
        /\ \A j \in 1 .. Len(stack) : \A i \in 1 .. j - 1 :
              /\ stack[i].node \in Keys
              /\ stack[j].node \in Keys => Level(deps, stack[j].node) < Level(deps, stack[i].node)

\* The edge that depResolve follows does not lead back to a node it is resolving.
LEMMA NoWayBack ==
  ASSUME TypeOK, Descending, pc = "sorting", stack # <<>>, NEW edge \in Last(stack).edges
  PROVE  /\ \A i \in 1 .. Len(stack) :
               /\ stack[i].node \in Keys
               /\ edge \in Keys => Level(deps, edge) < Level(deps, stack[i].node)
         /\ edge \notin Unresolved
  <1> DEFINE top == Len(stack)
  <1>1. top \in Nat \ {0} /\ edge \in stack[top].edges
    BY TopTyped
  <1>2. stack[top].node \in Keys /\ edge \in deps[stack[top].node]
    BY <1>1 DEF Descending, Edges
  <1>3. edge \in Keys => /\ Level(deps, edge) \in Nat /\ Level(deps, stack[top].node) \in Nat
                         /\ Level(deps, edge) < Level(deps, stack[top].node)
    BY <1>2, KeysAreFinite, LevelsDescend DEF Keys, Descending, Acyclic
  <1>4. ASSUME NEW i \in 1 .. top
        PROVE  /\ stack[i].node \in Keys
               /\ edge \in Keys => Level(deps, edge) < Level(deps, stack[i].node)
    <2>1. CASE i = top
      BY <1>2, <1>3, <2>1
    <2>2. CASE i < top
      <3>1. /\ stack[i].node \in Keys
            /\ Level(deps, stack[top].node) < Level(deps, stack[i].node)
        BY <1>1, <1>2, <2>2 DEF Descending
      <3>2. Level(deps, stack[i].node) \in Nat
        BY <3>1, KeysAreFinite, LevelTyped DEF Keys, Descending, Acyclic
      <3> QED
        BY <1>3, <3>1, <3>2
    <2> QED
      BY <1>1, <2>1, <2>2
  <1>5. edge \notin Unresolved
    <2> SUFFICES ASSUME NEW i \in 1 .. top, edge = stack[i].node PROVE FALSE
      BY DEF Unresolved
    <2>1. edge \in Keys /\ Level(deps, edge) < Level(deps, edge)
      BY <1>4
    <2> QED
      BY <1>3, <2>1
  <1> QED
    BY <1>4, <1>5

LEMMA StaysDescending ==
  ASSUME TypeOK, [Next]_vars, Descending
  PROVE  Descending'
  <1>1. CASE pc' # "sorting"
    BY <1>1 DEF Descending
  <1>2. CASE BuildGraph
    BY <1>2 DEF BuildGraph, Descending, TypeOK, Acyclic
  <1>3. CASE UNCHANGED vars
    BY <1>3 DEF vars, Descending, Acyclic, Edges, Keys
  <1>4. CASE ResolveRoot
    <2>1. /\ Len(stack') = 1 /\ stack'[1] = Frame(LastIn(roots)) /\ pc = "sorting"
          /\ UNCHANGED <<pc, deps>>
      BY <1>4 DEF ResolveRoot
    <2>2. stack'[1].edges = Edges(stack'[1].node)
      BY <2>1 DEF Frame
    <2> QED
      BY <2>1, <2>2 DEF Descending, Acyclic, Edges, Keys
  <1>5. CASE ResolveEdge /\ pc' = "sorting"
    <2> DEFINE top == Len(stack)
               edge == FirstIn(Last(stack).edges)
    <2>1. /\ pc = "sorting" /\ stack # <<>> /\ edge \in Last(stack).edges /\ edge \in Names
          /\ UNCHANGED <<pc, deps>> /\ top \in Nat \ {0}
      BY <1>5, TopTyped DEF ResolveEdge
    <2>2. /\ EdgeTaken \in Seq(Frames) /\ Len(EdgeTaken) = top
          /\ \A i \in 1 .. top : EdgeTaken[i].node = stack[i].node
          /\ \A i \in 1 .. top - 1 : EdgeTaken[i] = stack[i]
          /\ EdgeTaken[top].edges \subseteq stack[top].edges
      BY <2>1, TopTyped
    <2> HIDE DEF edge
    <2>3. \A i \in 1 .. top : EdgeTaken[i].edges \subseteq Edges(EdgeTaken[i].node)
      <3> TAKE i \in 1 .. top
      <3>1. stack[i].edges \subseteq Edges(stack[i].node)
        BY <2>1 DEF Descending
      <3>2. EdgeTaken[i].edges \subseteq stack[i].edges
        BY <2>1, <2>2
      <3> QED
        BY <2>2, <3>1, <3>2
    <2>4. CASE stack' = EdgeTaken
      BY <2>1, <2>2, <2>3, <2>4 DEF Descending, Acyclic, Edges, Keys
    <2>5. CASE stack' = Append(EdgeTaken, Frame(edge))
      <3>1. /\ Len(stack') = top + 1 /\ stack'[top + 1] = Frame(edge)
            /\ \A i \in 1 .. top : stack'[i] = EdgeTaken[i]
        <4>1. Frame(edge) \in Frames
          BY <2>1, FrameTyped
        <4> QED
          BY <2>1, <2>2, <2>5, <4>1
      <3>2. stack'[top + 1].node = edge /\ stack'[top + 1].edges = Edges(edge)
        BY <3>1 DEF Frame
      <3>3. \A i \in 1 .. top + 1 : stack'[i].edges \subseteq Edges(stack'[i].node)
        BY <2>1, <2>3, <3>1, <3>2
      <3>4. ASSUME NEW j \in 1 .. top + 1, NEW i \in 1 .. j - 1
            PROVE  /\ stack'[i].node \in Keys
                   /\ stack'[j].node \in Keys
                      => Level(deps, stack'[j].node) < Level(deps, stack'[i].node)
        <4>1. i \in 1 .. top /\ stack'[i].node = stack[i].node
          BY <2>1, <2>2, <3>1
        <4>2. CASE j = top + 1
          BY <2>1, <3>2, <4>1, <4>2, NoWayBack
        <4>3. CASE j # top + 1
          <5>1. j \in 1 .. top /\ stack'[j].node = stack[j].node
            BY <2>1, <2>2, <3>1, <4>3
          <5> QED
            BY <2>1, <4>1, <5>1 DEF Descending
        <4> QED
          BY <4>2, <4>3
      <3>5. Acyclic' /\ Keys' = Keys /\ deps' = deps /\ \A n : Edges(n)' = Edges(n)
        BY <2>1 DEF Descending, Acyclic, Edges, Keys
      <3> QED
        BY <2>1, <3>1, <3>3, <3>4, <3>5 DEF Descending
    <2> QED
      BY <1>5, <2>1, <2>4, <2>5 DEF ResolveEdge, edge
  <1>6. CASE NodeResolved
    <2>1. /\ Len(stack') = Len(stack) - 1 /\ Len(stack) \in Nat /\ UNCHANGED <<pc, deps>>
          /\ \A i \in 1 .. Len(stack) - 1 : stack'[i] = stack[i]
      BY <1>6, TopTyped, Popped DEF NodeResolved
    <2> QED
      BY <2>1 DEF Descending, Acyclic, Edges, Keys
  <1> QED
    BY <1>1, <1>2, <1>3, <1>4, <1>5, <1>6 DEF Next, Call, RefuseTwoCycle, Overflow,
       ResolveEdge, AllResolved, Merge, Merged, Return

\* The error of depResolve, which resolve ignores (nodes_ordering.cpp:373), never
\* occurs once the trees have been made: the only failing call is the one that
\* makeGraphNode refuses (topo_sort.cpp:35-85).
THEOREM SortBegunSucceeds == Spec => []NoCircularReference
  <1>1. Init => Descending /\ NoCircularReference
    BY DEF Init, Descending, NoCircularReference
  <1>2. TypeOK /\ Descending /\ NoCircularReference /\ [Next]_vars
        => Descending' /\ NoCircularReference'
    <2> SUFFICES ASSUME TypeOK, Descending, NoCircularReference, [Next]_vars, pc' = "failed"
                 PROVE  resolved' = <<>> /\ TwoCycle'
      BY StaysDescending DEF NoCircularReference
    <2>1. CASE RefuseTwoCycle
      BY <2>1 DEF RefuseTwoCycle, TwoCycle, TypeOK, Keys
    <2>2. CASE UNCHANGED vars
      BY <2>2 DEF vars, NoCircularReference, TwoCycle, Keys
    <2>3. CASE ResolveEdge
      <3>1. FirstIn(Last(stack).edges) \notin Unresolved
        BY <2>3, TopTyped, NoWayBack DEF ResolveEdge
      <3> QED
        BY <2>3, <3>1 DEF ResolveEdge
    <2> QED
      BY <2>1, <2>2, <2>3 DEF Next, Call, BuildGraph, Overflow, ResolveRoot, NodeResolved,
         AllResolved, Merge, Merged, Return
  <1> QED
    BY <1>1, <1>2, TypeCorrect, PTL DEF Spec

-----------------------------------------------------------------------------
(***************************************************************************)
(* The list handed back.                                                   *)
(***************************************************************************)

\* From the trees to the list of resolved nodes to the list handed back, no
\* node of the config is lost and none is taken twice.
OnTheWay ==
    /\ pc = "sorting" => Keys \subseteq roots \cup Unresolved \cup ToSet(resolved)
    /\ pc = "merging" => Keys \subseteq ToSet(rest) \cup ToSet(ordered)
    /\ pc = "done" => Keys \subseteq ToSet(ordered)
    /\ ToSet(ordered) \subseteq Keys
    /\ \A i, j \in DOMAIN ordered : ordered[i] = ordered[j] => i = j

\* Inserted adds the one node and leaves the list free of repetitions.
LEMMA InsertedOnce ==
  ASSUME ordered \in Seq(Names), NEW n \in Names \ ToSet(ordered),
         \A i, j \in DOMAIN ordered : ordered[i] = ordered[j] => i = j
  PROVE  LET t == Inserted(n)
         IN  /\ ToSet(t) = ToSet(ordered) \cup {n}
             /\ \A i, j \in DOMAIN t : t[i] = t[j] => i = j
  <1> DEFINE t == Inserted(n)
  <1>1. PICK at \in 1 .. Len(t) :
            \A i \in 1 .. Len(t) :
                t[i] = IF i < at THEN ordered[i] ELSE IF i = at THEN n ELSE ordered[i - 1]
    BY InsertedPlace
  <1>2. /\ t \in Seq(Names) /\ Len(t) = Len(ordered) + 1 /\ Len(ordered) \in Nat
        /\ DOMAIN ordered = 1 .. Len(ordered)
    BY InsertedPlace
  <1> HIDE DEF t
  <1>3. DOMAIN t = 1 .. Len(t)
    BY <1>2
  <1> DEFINE old(i) == IF i < at THEN i ELSE i - 1
  <1>4. \A i \in DOMAIN t \ {at} : old(i) \in DOMAIN ordered /\ t[i] = ordered[old(i)]
    BY <1>1, <1>2, <1>3
  <1>5. \A i \in DOMAIN t \ {at} : t[i] \in ToSet(ordered) /\ t[i] # n
    BY <1>4 DEF ToSet
  <1>6. t[at] = n /\ at \in DOMAIN t
    BY <1>1, <1>3
  <1>7. ASSUME NEW k \in DOMAIN ordered PROVE \E i \in DOMAIN t : t[i] = ordered[k]
    <2>1. CASE k < at
      BY <1>1, <1>2, <1>3, <2>1
    <2>2. CASE ~(k < at)
      <3>1. k + 1 \in 1 .. Len(t) /\ ~(k + 1 < at) /\ k + 1 # at /\ k + 1 - 1 = k
        BY <1>2, <2>2
      <3> QED
        BY <1>1, <1>3, <3>1
    <2> QED
      BY <2>1, <2>2
  <1>8. ToSet(t) = ToSet(ordered) \cup {n}
    BY <1>5, <1>6, <1>7 DEF ToSet
  <1>9. ASSUME NEW i \in DOMAIN t, NEW j \in DOMAIN t, t[i] = t[j] PROVE i = j
    <2>1. CASE i = at \/ j = at
      BY <1>5, <1>6, <1>9, <2>1
    <2>2. CASE i # at /\ j # at
      <3>1. old(i) = old(j)
        BY <1>4, <1>9, <2>2
      <3> QED
        BY <1>2, <1>3, <2>2, <3>1
    <2> QED
      BY <2>1, <2>2
  <1> QED
    BY <1>8, <1>9 DEF t

LEMMA StaysOnTheWay ==
  ASSUME TypeOK, [Next]_vars, OnTheWay
  PROVE  OnTheWay'
  <1>1. CASE Call \/ Overflow
    BY <1>1 DEF Call, Overflow, TypeOK, OnTheWay, ToSet
  <1>2. CASE Return
    BY <1>2 DEF Return, OnTheWay, ToSet
  <1>3. CASE BuildGraph
    BY <1>3 DEF BuildGraph, OnTheWay, Keys
  <1>4. CASE RefuseTwoCycle
    BY <1>4 DEF RefuseTwoCycle, OnTheWay, Keys
  <1>5. CASE ResolveRoot
    <2> DEFINE n == LastIn(roots)
    <2>1. /\ stack = <<>> /\ stack' = <<Frame(n)>> /\ roots' = roots \ {n}
          /\ UNCHANGED <<pc, deps, resolved, ordered>> /\ pc = "sorting"
      BY <1>5 DEF ResolveRoot
    <2>2. Unresolved = {}
      BY <2>1 DEF Unresolved
    <2>3. n \in Unresolved'
      <3>1. Len(stack') = 1 /\ stack'[1].node = n
        BY <2>1 DEF Frame
      <3>2. 1 \in 1 .. Len(stack')
        BY <3>1
      <3> QED
        BY <3>1, <3>2 DEF Unresolved
    <2> QED
      BY <2>1, <2>2, <2>3 DEF OnTheWay, Keys
  <1>6. CASE ResolveEdge
    <2> DEFINE new == Append(EdgeTaken, Frame(FirstIn(Last(stack).edges)))
    <2>1. /\ Len(stack) \in Nat \ {0} /\ Len(EdgeTaken) = Len(stack) /\ EdgeTaken \in Seq(Frames)
          /\ \A i \in 1 .. Len(stack) : EdgeTaken[i].node = stack[i].node
          /\ Frame(FirstIn(Last(stack).edges)) \in Frames
      BY <1>6, TopTyped, FrameTyped DEF ResolveEdge
    <2>2. Len(new) = Len(stack) + 1 /\ \A i \in 1 .. Len(stack) : new[i] = EdgeTaken[i]
      BY <2>1
    <2>3. stack' = stack \/ stack' = EdgeTaken \/ stack' = new
      BY <1>6 DEF ResolveEdge
    <2> HIDE DEF new
    <2>4. /\ \A i \in 1 .. Len(stack) : stack'[i].node = stack[i].node
          /\ 1 .. Len(stack) \subseteq 1 .. Len(stack')
      BY <2>1, <2>2, <2>3
    <2>5. Unresolved \subseteq Unresolved'
      BY <2>4 DEF Unresolved
    <2>6. UNCHANGED <<deps, roots, resolved, ordered>> /\ pc = "sorting" /\ pc' \in {"sorting", "failed"}
      BY <1>6 DEF ResolveEdge
    <2> QED
      BY <2>5, <2>6 DEF OnTheWay, Keys
  <1>7. CASE NodeResolved
    <2> DEFINE n == Last(stack).node
    <2>1. /\ Len(stack) \in Nat \ {0} /\ n = stack[Len(stack)].node /\ Len(stack') = Len(stack) - 1
          /\ \A i \in 1 .. Len(stack) - 1 : stack'[i] = stack[i]
      BY <1>7, TopTyped, Popped DEF NodeResolved
    <2>2. ToSet(resolved') = ToSet(resolved) \cup {n}
      BY <1>7, TopTyped, AppendKeepsFirst DEF NodeResolved, TypeOK
    <2>3. Unresolved \subseteq Unresolved' \cup {n}
      BY <2>1 DEF Unresolved
    <2>4. UNCHANGED <<pc, deps, roots, ordered>> /\ pc = "sorting"
      BY <1>7 DEF NodeResolved
    <2> QED
      BY <2>2, <2>3, <2>4 DEF OnTheWay, Keys
  <1>8. CASE AllResolved
    <2>1. Unresolved = {}
      BY <1>8 DEF AllResolved, Unresolved
    <2> QED
      BY <1>8, <2>1 DEF AllResolved, OnTheWay, Keys
  <1>9. CASE Merge
    <2> DEFINE n == Head(rest)
    <2>1. rest \in Seq(Names) /\ rest # <<>> /\ n \in Names /\ ordered \in Seq(Names)
      BY <1>9 DEF Merge, TypeOK
    <2>2. ToSet(rest) \subseteq {n} \cup ToSet(Tail(rest))
      <3>1. SUFFICES ASSUME NEW i \in 1 .. Len(rest)
                     PROVE  rest[i] = n \/ \E j \in DOMAIN Tail(rest) : Tail(rest)[j] = rest[i]
        BY <2>1 DEF ToSet
      <3>2. CASE i # 1
        <4>1. Tail(rest) \in Seq(Names) /\ Len(Tail(rest)) = Len(rest) - 1
          BY <2>1
        <4>2. DOMAIN Tail(rest) = 1 .. Len(Tail(rest))
          BY <4>1
        <4>3. i - 1 \in 1 .. Len(Tail(rest)) /\ Tail(rest)[i - 1] = rest[i]
          BY <2>1, <3>2
        <4> QED
          BY <4>2, <4>3
      <3> QED
        BY <2>1, <3>2
    <2>3. UNCHANGED <<pc, deps>> /\ pc = "merging" /\ rest' = Tail(rest)
      BY <1>9 DEF Merge
    <2>4. CASE n \in Keys \ ToSet(ordered)
      <3>1. ordered' = Inserted(n)
        BY <1>9, <2>4 DEF Merge
      <3>2. /\ ToSet(ordered') = ToSet(ordered) \cup {n}
            /\ \A i, j \in DOMAIN ordered' : ordered'[i] = ordered'[j] => i = j
        BY <2>1, <2>4, <3>1, InsertedOnce DEF OnTheWay
      <3> HIDE DEF n
      <3> QED
        BY <2>2, <2>3, <2>4, <3>2 DEF OnTheWay, Keys
    <2>5. CASE n \notin Keys \ ToSet(ordered)
      <3>1. ordered' = ordered
        BY <1>9, <2>5 DEF Merge
      <3> QED
        BY <2>2, <2>3, <2>5, <3>1 DEF OnTheWay, Keys
    <2> QED
      BY <2>4, <2>5
  <1>10. CASE Merged
    BY <1>10 DEF Merged, OnTheWay, Keys, ToSet
  <1>11. CASE UNCHANGED vars
    BY <1>11 DEF vars, OnTheWay, Keys, Unresolved
  <1> QED
    BY <1>1, <1>2, <1>3, <1>4, <1>5, <1>6, <1>7, <1>8, <1>9, <1>10, <1>11 DEF Next

\* A sort that succeeds hands back each node of the config exactly once
\* (topo_sort.cpp:131-171).
THEOREM NodesSentOnce == Spec => []EachNodeOnce
  <1>1. Init => OnTheWay
    BY DEF Init, OnTheWay, ToSet
  <1>2. TypeOK /\ OnTheWay => EachNodeOnce
    <2> SUFFICES ASSUME TypeOK, OnTheWay, pc = "done"
                 PROVE  ToSet(ordered) = Keys /\ Len(ordered) = Cardinality(Keys)
      BY DEF EachNodeOnce
    <2>1. ToSet(ordered) = Keys
      BY DEF OnTheWay
    <2>2. ordered \in Bijection(1 .. Len(ordered), Keys)
      <3>1. /\ ordered \in Seq(Names) /\ DOMAIN ordered = 1 .. Len(ordered)
            /\ \A i \in 1 .. Len(ordered) : ordered[i] \in Keys
        BY <2>1 DEF TypeOK, ToSet
      <3>2. ordered \in [1 .. Len(ordered) -> Keys]
        BY <3>1
      <3>3. \A k \in Keys : \E i \in 1 .. Len(ordered) : ordered[i] = k
        BY <2>1, <3>1 DEF ToSet
      <3>4. \A i, j \in 1 .. Len(ordered) : ordered[i] = ordered[j] => i = j
        BY <3>1 DEF OnTheWay
      <3> QED
        BY <3>1, <3>2, <3>3, <3>4 DEF Bijection, Injection, Surjection, IsInjective
    <2>3. IsFiniteSet(1 .. Len(ordered)) /\ Cardinality(1 .. Len(ordered)) = Len(ordered)
      <3>1. 1 \in Int /\ Len(ordered) \in Int /\ Len(ordered) \in Nat
        BY DEF TypeOK
      <3>2. /\ IsFiniteSet(1 .. Len(ordered))
            /\ Cardinality(1 .. Len(ordered)) = IF 1 > Len(ordered) THEN 0 ELSE Len(ordered) - 1 + 1
        BY <3>1, FS_Interval
      <3> QED
        BY <3>1, <3>2
    <2>4. Cardinality(Keys) = Cardinality(1 .. Len(ordered))
      BY <2>2, <2>3, FS_Bijection DEF ExistsBijection
    <2> QED
      BY <2>1, <2>3, <2>4
  <1> QED
    BY <1>1, <1>2, TypeCorrect, StaysOnTheWay, PTL DEF Spec

-----------------------------------------------------------------------------
(***************************************************************************)
(* What the merge keeps of the order of the walk.                          *)
(***************************************************************************)

\* The nodes still to be merged are the last of those resolved, and the list has
\* the nodes of the config among the first k.
MergedSoFar ==
    /\ ToSet(ordered) \subseteq ToSet(resolved)
    /\ LET k == Len(resolved) - Len(rest)
       IN  pc = "merging" =>
           /\ k \in Nat
           /\ \A i \in DOMAIN rest : rest[i] = resolved[k + i]
           /\ \A n \in ToSet(ordered) : First(resolved, n) \in 1 .. k
           /\ \A i \in 1 .. k : resolved[i] \in Keys => resolved[i] \in ToSet(ordered)

\* Where two nodes of the list have changed places, one below the first of them
\* is resolved no later than the second.
TurnedForNested ==
    \A i, j \in DOMAIN ordered :
        i < j /\ First(resolved, ordered[j]) < First(resolved, ordered[i]) =>
            \E d \in Keys : /\ <<ordered[i], d>> \in Within
                            /\ First(resolved, d) <= First(resolved, ordered[j])

\* The node that is merged now, when it is merged for the first time.
LEMMA NextResolved ==
  ASSUME TypeOK, MergedSoFar, Merge, Head(rest) \in Keys \ ToSet(ordered)
  PROVE  First(resolved, Head(rest)) = Len(resolved) - Len(rest) + 1
  <1> DEFINE n == Head(rest)
             k == Len(resolved) - Len(rest)
  <1>1. /\ pc = "merging" /\ rest \in Seq(Names) /\ resolved \in Seq(Names) /\ rest # <<>>
        /\ Len(rest) \in Nat \ {0} /\ Len(resolved) \in Nat /\ k \in Nat
    BY DEF Merge, TypeOK, MergedSoFar
  <1>2. k + 1 \in DOMAIN resolved /\ resolved[k + 1] = n
    <2>1. 1 \in DOMAIN rest /\ rest[1] = n
      BY <1>1
    <2> QED
      BY <1>1, <2>1 DEF MergedSoFar
  <1>3. \A i \in 1 .. k : resolved[i] # n
    BY <1>1 DEF MergedSoFar
  <1> HIDE DEF n, k
  <1>4. n \in ToSet(resolved)
    BY <1>2 DEF ToSet
  <1>5. /\ First(resolved, n) \in DOMAIN resolved /\ resolved[First(resolved, n)] = n
        /\ First(resolved, n) <= k + 1
    BY <1>1, <1>2, <1>4, FirstOccurrence
  <1>6. First(resolved, n) = k + 1
    BY <1>1, <1>3, <1>5
  <1> QED
    BY <1>6 DEF n, k

LEMMA StaysMergedSoFar ==
  ASSUME TypeOK, OnTheWay, MergedSoFar, [Next]_vars
  PROVE  MergedSoFar'
  <1>1. CASE AllResolved
    <2>1. rest' = resolved /\ resolved' = resolved /\ ordered' = <<>> /\ Len(resolved) \in Nat
      BY <1>1 DEF AllResolved, TypeOK
    <2> QED
      BY <2>1 DEF MergedSoFar, ToSet
  <1>2. CASE Merge
    <2> DEFINE n == Head(rest)
               k == Len(resolved) - Len(rest)
    <2>1. /\ pc = "merging" /\ rest \in Seq(Names) /\ rest # <<>> /\ n \in Names
          /\ rest' = Tail(rest) /\ UNCHANGED <<deps, resolved>> /\ ordered \in Seq(Names)
          /\ Len(rest) \in Nat \ {0} /\ Len(resolved) \in Nat /\ k \in Nat
      BY <1>2 DEF Merge, TypeOK, MergedSoFar
    <2>2. /\ Len(rest') = Len(rest) - 1 /\ DOMAIN rest' = 1 .. Len(rest) - 1
          /\ \A i \in DOMAIN rest' : rest'[i] = rest[i + 1] /\ i + 1 \in DOMAIN rest
      BY <2>1
    <2>3. Len(resolved') - Len(rest') = k + 1 /\ n = resolved[k + 1]
      <3>1. 1 \in DOMAIN rest /\ rest[1] = n
        BY <2>1
      <3> QED
        BY <2>1, <2>2, <3>1 DEF MergedSoFar
    <2>4. \A i \in DOMAIN rest' : rest'[i] = resolved'[k + 1 + i]
      BY <2>1, <2>2 DEF MergedSoFar
    <2>5. /\ \A m \in ToSet(ordered) : First(resolved, m) \in 1 .. k
          /\ \A i \in 1 .. k : resolved[i] \in Keys => resolved[i] \in ToSet(ordered)
      BY <2>1 DEF MergedSoFar
    <2>6. /\ ToSet(ordered') = ToSet(ordered) \cup ({n} \cap Keys)
          /\ n \in Keys \ ToSet(ordered) => First(resolved, n) = k + 1
      <3>1. CASE n \in Keys \ ToSet(ordered)
        <4>1. ordered' = Inserted(n)
          BY <1>2, <3>1 DEF Merge
        <4>2. ToSet(Inserted(n)) = ToSet(ordered) \cup {n}
          BY <2>1, <3>1, InsertedOnce DEF OnTheWay
        <4> QED
          BY <1>2, <3>1, <4>1, <4>2, NextResolved
      <3>2. CASE n \notin Keys \ ToSet(ordered)
        BY <1>2, <3>2 DEF Merge
      <3> QED
        BY <3>1, <3>2
    <2> HIDE DEF n, k
    <2>7. \A m \in ToSet(ordered') : First(resolved', m) \in 1 .. k + 1
      BY <2>1, <2>5, <2>6
    <2>8. \A i \in 1 .. k + 1 : resolved'[i] \in Keys' => resolved'[i] \in ToSet(ordered')
      BY <2>1, <2>3, <2>5, <2>6 DEF Keys
    <2>9. ToSet(ordered') \subseteq ToSet(resolved')
      <3>1. k + 1 \in DOMAIN resolved
        BY <2>1, <2>3 DEF k
      <3>2. n \in ToSet(resolved)
        BY <2>3, <3>1 DEF ToSet
      <3> QED
        BY <2>1, <2>6, <3>2 DEF MergedSoFar
    <2> QED
      BY <2>1, <2>3, <2>4, <2>7, <2>8, <2>9 DEF MergedSoFar
  <1>3. CASE UNCHANGED vars
    BY <1>3 DEF vars, MergedSoFar, Keys
  <1>4. CASE pc' # "merging" /\ (ordered' = <<>> \/ UNCHANGED <<resolved, ordered>>)
    BY <1>4 DEF MergedSoFar, ToSet
  <1> QED
    BY <1>1, <1>2, <1>3, <1>4 DEF TypeOK, Next, Call, Return, BuildGraph, RefuseTwoCycle, Overflow,
       ResolveRoot, ResolveEdge, NodeResolved, Merged

\* A node is put before the first node below it.  Those it passes by are resolved
\* after that one, or have changed places with it, and then one that is below
\* that one, and so below the node, is resolved before them.
LEMMA StaysTurnedForNested ==
  ASSUME TypeOK, OnTheWay, MergedSoFar, TurnedForNested, [Next]_vars
  PROVE  TurnedForNested'
  <1>1. CASE ordered' = <<>>
    BY <1>1 DEF TurnedForNested
  <1>2. CASE UNCHANGED <<deps, resolved, ordered>>
    BY <1>2 DEF TurnedForNested, Keys
  <1>3. CASE Merge /\ Head(rest) \in Keys \ ToSet(ordered)
    <2> DEFINE n == Head(rest)
               t == Inserted(n)
               k == Len(resolved) - Len(rest)
               At(m) == First(resolved, m)
    <2>1. ordered \in Seq(Names) /\ n \in Names /\ resolved \in Seq(Names) /\ k \in Nat
      BY <1>3 DEF Merge, TypeOK, MergedSoFar
    <2>2. PICK at \in 1 .. Len(t) :
              /\ \A i \in 1 .. Len(t) :
                    t[i] = IF i < at THEN ordered[i] ELSE IF i = at THEN n ELSE ordered[i - 1]
              /\ at <= Len(ordered) => <<n, ordered[at]>> \in Within
      BY <2>1, InsertedPlace
    <2>3. t \in Seq(Names) /\ Len(t) = Len(ordered) + 1 /\ Len(ordered) \in Nat
      BY <2>1, InsertedPlace
    <2>4. At(n) = k + 1
      BY <1>3, NextResolved
    <2>5. /\ \A i \in 1 .. Len(ordered) : ordered[i] \in Keys /\ At(ordered[i]) \in 1 .. k
          /\ DOMAIN ordered = 1 .. Len(ordered)
      BY <1>3, <2>1 DEF Merge, MergedSoFar, OnTheWay, ToSet
    <2>6. ordered' = t /\ UNCHANGED <<deps, resolved>>
      BY <1>3 DEF Merge
    <2> HIDE DEF n, t, k, At
    <2>7. ASSUME NEW i \in 1 .. Len(t), NEW j \in 1 .. Len(t), i < j, At(t[j]) < At(t[i])
          PROVE  \E d \in Keys : <<t[i], d>> \in Within /\ At(d) <= At(t[j])
      <3>1. CASE i # at /\ j # at
        <4> DEFINE g == IF i < at THEN i ELSE i - 1
                   h == IF j < at THEN j ELSE j - 1
        <4>1. g \in DOMAIN ordered /\ h \in DOMAIN ordered /\ g < h
          BY <2>1, <2>3, <2>7, <3>1
        <4>2. t[i] = ordered[g] /\ t[j] = ordered[h]
          BY <2>2, <3>1
        <4> QED
          BY <2>7, <4>1, <4>2 DEF TurnedForNested, At
      <3>2. CASE j = at
        <4>1. t[j] = n /\ t[i] = ordered[i] /\ i \in 1 .. Len(ordered)
          BY <2>2, <2>3, <2>7, <3>2
        <4> QED
          BY <2>1, <2>4, <2>5, <2>7, <4>1
      <3>3. CASE i = at
        <4>1. t[i] = n /\ t[j] = ordered[j - 1]
          BY <2>2, <2>7, <3>3
        <4>2. /\ at \in 1 .. Len(ordered) /\ j - 1 \in 1 .. Len(ordered)
              /\ at <= Len(ordered) /\ at <= j - 1
          BY <2>1, <2>3, <2>7, <3>3
        <4>3. <<n, ordered[at]>> \in Within /\ ordered[at] \in Keys
          BY <2>2, <2>5, <4>2
        <4> DEFINE x == At(ordered[at])
                   y == At(ordered[j - 1])
        <4>4. x \in Nat /\ y \in Nat
          BY <2>1, <2>5, <4>2
        <4>5. CASE x <= y
          BY <4>1, <4>3, <4>5
        <4>6. CASE y < x
          <5>1. at < j - 1
            BY <4>2, <4>4, <4>6
          <5>2. PICK d \in Keys : /\ <<ordered[at], d>> \in Within
                                  /\ At(d) <= At(ordered[j - 1])
            BY <2>5, <4>2, <4>6, <5>1 DEF TurnedForNested, At
          <5>3. <<n, d>> \in Within
            BY <4>3, <5>2, WithinAssumption
          <5> QED
            BY <4>1, <5>2, <5>3
        <4> HIDE DEF x, y
        <4>7. x <= y \/ y < x
          BY <4>4
        <4> QED
          BY <4>5, <4>6, <4>7, Zenon
      <3> QED
        BY <3>1, <3>2, <3>3
    <2>8. DOMAIN t = 1 .. Len(t)
      BY <2>3
    <2> QED
      BY <2>6, <2>7, <2>8 DEF TurnedForNested, At, Keys
  <1> QED
    BY <1>1, <1>2, <1>3 DEF Next, vars, TypeOK, Call, Return, BuildGraph, RefuseTwoCycle, Overflow,
       ResolveRoot, ResolveEdge, NodeResolved, AllResolved, Merge, Merged

\* The merge moves a node before what it depends on only if something below the
\* node was resolved first (topo_sort.cpp:146-163).
THEOREM MergeSorts == Spec => []MergeKeepsSorted
  <1>1. Init => OnTheWay /\ MergedSoFar /\ TurnedForNested
    BY DEF Init, OnTheWay, MergedSoFar, TurnedForNested, ToSet
  <1>2. TypeOK /\ OnTheWay /\ MergedSoFar /\ ResolvedIsSorted /\ TurnedForNested => MergeKeepsSorted
    <2> SUFFICES ASSUME TypeOK, OnTheWay, MergedSoFar, ResolvedIsSorted, TurnedForNested, pc = "done",
                        NoneBelowFirst, NEW n \in ToSet(ordered) \cap Keys,
                        NEW m \in deps[n] \cap ToSet(ordered)
                 PROVE  First(ordered, m) < First(ordered, n)
      BY DEF MergeKeepsSorted, DependenciesFirst
    <2> DEFINE i == First(ordered, n)
               j == First(ordered, m)
    <2>1. /\ i \in DOMAIN ordered /\ ordered[i] = n
          /\ j \in DOMAIN ordered /\ ordered[j] = m
      BY FirstOccurrence DEF TypeOK
    <2>2. i \in Int /\ j \in Int
      BY <2>1 DEF TypeOK
    <2>3. n \in Keys /\ m \in deps[n] \cap Keys
      BY DEF OnTheWay
    <2> HIDE DEF i, j
    <2>4. m \in ToSet(resolved) /\ n \in ToSet(resolved) => First(resolved, m) < First(resolved, n)
      BY <2>3 DEF ResolvedIsSorted, DependenciesFirst
    <2>5. m \in ToSet(resolved) /\ n \in ToSet(resolved)
      BY DEF MergedSoFar
    <2>6. First(resolved, m) \in Int /\ First(resolved, n) \in Int
      BY <2>5, FirstOccurrence DEF TypeOK
    <2>7. SUFFICES ASSUME i <= j PROVE FALSE
      BY <2>2 DEF i, j
    <2>8. i < j
      BY <2>1, <2>2, <2>4, <2>5, <2>6, <2>7
    <2>9. PICK d \in Keys : <<n, d>> \in Within /\ First(resolved, d) <= First(resolved, m)
      BY <2>1, <2>4, <2>5, <2>8 DEF TurnedForNested
    <2>10. First(resolved, m) < First(resolved, d)
      BY <2>3, <2>9 DEF NoneBelowFirst
    <2>11. First(resolved, d) \in Int
      BY FirstOccurrence DEF TypeOK
    <2> QED
      BY <2>6, <2>9, <2>10, <2>11
  <1> QED
    BY <1>1, <1>2, TypeCorrect, WalkSorts, StaysOnTheWay, StaysMergedSoFar, StaysTurnedForNested,
       PTL DEF Spec

-----------------------------------------------------------------------------
(***************************************************************************)
(* What the resolvers make of a dependency.                                *)
(***************************************************************************)

\* A tree without its root has the parent of each of its nodes but the uppermost.
Rooted(tree) == \A q \in tree : q # <<>> /\ (Len(q) > 1 => Parent(q) \in tree)

\* The walk that takes the names off its list is a function, like the selection.
LEMMA ReachedAfterIs ==
  ASSUME NEW tree, NEW S, NEW names \in Seq(S)
  PROVE  LET f == ReachedAfter(tree, names)
         IN  /\ f[0] = {<<>>}
             /\ \A i \in 1 .. Len(names) : f[i] = ReachNext(tree, f[i - 1], names[i])
  <1> DEFINE Is(g, n) == g = [i \in 0 .. n |-> IF i = 0 THEN {<<>>}
                                               ELSE ReachNext(tree, g[i - 1], names[i])]
             None == {n \in Nat : ~ \E g : Is(g, n)}
  <1>1. None = {}
    <2> SUFFICES ASSUME None # {} PROVE FALSE
      OBVIOUS
    <2>1. PICK n \in None : \A i \in None : n <= i
      <3>1. None \in SUBSET Nat
        OBVIOUS
      <3> HIDE DEF None
      <3> QED
        BY <3>1, MinOf
    <2>2. n \in Nat /\ ~ \E g : Is(g, n)
      BY <2>1
    <2>3. CASE n = 0
      <3> DEFINE g == [i \in 0 .. 0 |-> {<<>>}]
      <3>1. \A i \in 0 .. 0 : i = 0
        OBVIOUS
      <3>2. g = [i \in 0 .. 0 |-> IF i = 0 THEN {<<>>} ELSE ReachNext(tree, g[i - 1], names[i])]
        BY <3>1
      <3>3. Is(g, n)
        BY <2>3, <3>2
      <3> HIDE DEF Is
      <3> QED
        BY <2>2, <3>3
    <2>4. CASE n # 0
      <3>1. n - 1 \in Nat /\ ~(n <= n - 1)
        BY <2>2, <2>4
      <3>2. PICK g : Is(g, n - 1)
        BY <2>1, <3>1
      <3> DEFINE h == [i \in 0 .. n |-> IF i = n THEN ReachNext(tree, g[n - 1], names[n]) ELSE g[i]]
      <3>3. \A i \in 0 .. n - 1 : g[i] = IF i = 0 THEN {<<>>} ELSE ReachNext(tree, g[i - 1], names[i])
        BY <3>2
      <3>4. \A i \in 0 .. n : h[i] = IF i = 0 THEN {<<>>} ELSE ReachNext(tree, h[i - 1], names[i])
        <4> TAKE i \in 0 .. n
        <4>1. i # 0 => i - 1 \in 0 .. n - 1 /\ h[i - 1] = g[i - 1]
          BY <2>2
        <4>2. i # n => i \in 0 .. n - 1
          BY <2>2
        <4> QED
          BY <2>4, <3>3, <4>1, <4>2
      <3>5. Is(h, n)
        BY <3>4
      <3> HIDE DEF Is, h
      <3> QED
        BY <2>2, <3>5
    <2> QED
      BY <2>3, <2>4
  <1>2. Len(names) \in Nat
    OBVIOUS
  <1>3. \E g : Is(g, Len(names))
    BY <1>1, <1>2
  <1>4. Is(ReachedAfter(tree, names), Len(names))
    BY <1>3 DEF ReachedAfter
  <1> DEFINE f == ReachedAfter(tree, names)
  <1>5. \A i \in 0 .. Len(names) : f[i] = IF i = 0 THEN {<<>>} ELSE ReachNext(tree, f[i - 1], names[i])
    <2>1. Is(f, Len(names))
      BY <1>4
    <2> HIDE DEF f
    <2> QED
      BY <1>2, <2>1
  <1> HIDE DEF f
  <1>6. f[0] = {<<>>} /\ \A i \in 1 .. Len(names) : f[i] = ReachNext(tree, f[i - 1], names[i])
    BY <1>2, <1>5
  <1> QED
    BY <1>6 DEF f

\* Whatever the walk meets after a node, and not below it, it meets after each node
\* that is below it.
LEMMA MetAfterBelow ==
  ASSUME NEW p \in Seq(DOMAIN Rank), NEW c \in Seq(DOMAIN Rank), NEW q \in Seq(DOMAIN Rank),
         IsPrefix(p, c), Precedes(p, q), ~IsStrictPrefix(p, q)
  PROVE  Precedes(c, q) /\ ~Precedes(q, c)
  <1>1. PICK i \in DOMAIN p \cap DOMAIN q :
            (\A j \in 1 .. i - 1 : p[j] = q[j]) /\ Rank[p[i]] < Rank[q[i]]
    BY DEF Precedes
  <1>2. /\ Len(p) \in Nat /\ Len(c) \in Nat /\ Len(q) \in Nat /\ Len(p) <= Len(c)
        /\ \A j \in 1 .. Len(p) : p[j] = c[j]
        /\ DOMAIN p = 1 .. Len(p) /\ DOMAIN c = 1 .. Len(c) /\ DOMAIN q = 1 .. Len(q)
    BY PrefixIs
  <1>3. /\ i \in 1 .. Len(p) /\ i \in 1 .. Len(q) /\ i \in 1 .. Len(c)
        /\ c[i] = p[i] /\ \A j \in 1 .. i - 1 : c[j] = q[j]
    BY <1>1, <1>2
  <1>4. Rank[c[i]] \in Nat /\ Rank[q[i]] \in Nat /\ Rank[c[i]] < Rank[q[i]]
    BY <1>1, <1>2, <1>3, RankAssumption
  <1>5. Precedes(c, q)
    BY <1>2, <1>3, <1>4 DEF Precedes
  <1>6. ASSUME Precedes(q, c) PROVE FALSE
    <2>1. CASE IsStrictPrefix(q, c)
      <3>1. \A j \in 1 .. Len(q) : q[j] = c[j]
        BY <2>1, PrefixIs
      <3> QED
        BY <1>3, <1>4, <3>1
    <2>2. CASE ~IsStrictPrefix(q, c)
      <3>1. PICK k \in DOMAIN q \cap DOMAIN c :
                (\A j \in 1 .. k - 1 : q[j] = c[j]) /\ Rank[q[k]] < Rank[c[k]]
        BY <1>6, <2>2 DEF Precedes
      <3>2. k \in 1 .. Len(q) /\ Rank[q[k]] \in Nat /\ Rank[c[k]] \in Nat
        BY <1>2, <3>1, RankAssumption
      <3>3. CASE k = i
        BY <1>4, <3>1, <3>2, <3>3
      <3>4. CASE k < i
        <4>1. c[k] = q[k]
          BY <1>3, <3>2, <3>4
        <4> QED
          BY <3>1, <3>2, <4>1
      <3>5. CASE k > i
        <4>1. q[i] = c[i]
          BY <1>3, <3>1, <3>2, <3>5
        <4> QED
          BY <1>4, <4>1
      <3> QED
        BY <1>3, <3>2, <3>3, <3>4, <3>5
    <2> QED
      BY <2>1, <2>2
  <1> QED
    BY <1>5, <1>6

\* With a node its tree has every node on the way to it.
LEMMA OnTheWayDown ==
  ASSUME NEW tree \in SUBSET Seq(DOMAIN Rank), Rooted(tree),
         NEW p \in tree, NEW i \in 1 .. Len(p)
  PROVE  SubSeq(p, 1, i) \in tree \ {<<>>}
  <1>0. p \in Seq(DOMAIN Rank)
    OBVIOUS
  <1> DEFINE whole == tree \cup {<<>>}
  <1>1. whole \in SUBSET Seq(DOMAIN Rank)
    BY EmptySeq
  <1>2. ASSUME NEW q \in whole \ {<<>>} PROVE Parent(q) \in whole
    <2>1. q \in Seq(DOMAIN Rank) /\ q \in tree /\ Len(q) \in Nat \ {0}
      BY EmptySeq
    <2>2. CASE Len(q) > 1
      BY <2>1, <2>2 DEF Rooted
    <2>3. CASE Len(q) = 1
      <3>1. Parent(q) = SubSeq(q, 1, 0)
        BY <2>3 DEF Parent, Front
      <3> QED
        BY <3>1, SubSeqEmpty
    <2>4. \A k \in Nat \ {0} : k = 1 \/ k > 1
      OBVIOUS
    <2>5. Len(q) = 1 \/ Len(q) > 1
      BY <2>1, <2>4
    <2> QED
      BY <2>2, <2>3, <2>5
  <1>3. SubSeq(p, 1, i) \in whole
    <2> HIDE DEF whole
    <2>1. p \in whole
      BY DEF whole
    <2> QED
      BY <1>1, <1>2, <2>1, PrefixesIn
  <1>4. SubSeq(p, 1, i) # <<>>
    <2>1. Len(SubSeq(p, 1, i)) = i /\ i # 0
      BY <1>0
    <2> QED
      BY <2>1, EmptySeq
  <1> QED
    BY <1>3, <1>4

\* A node whose names are in one place is reached by its names, although each name
\* is waited for in all of the tree that is still to be walked.
LEMMA ReachesPath ==
  ASSUME NEW tree \in SUBSET Seq(DOMAIN Rank), Rooted(tree),
         NEW p \in tree, InOnePlace(tree, p)
  PROVE  Reached(tree, p) = {p}
  <1>1. /\ p \in Seq(DOMAIN Rank) /\ Len(p) \in Nat \ {0} /\ SubSeq(p, 1, Len(p)) = p
        /\ SubSeq(p, 1, 0) = <<>> /\ p # <<>> /\ DOMAIN p = 1 .. Len(p)
    <2>1. p \in Seq(DOMAIN Rank) /\ p # <<>>
      BY DEF Rooted
    <2> QED
      BY <2>1, EmptySeq
  <1> DEFINE f == ReachedAfter(tree, p)
             Not == {i \in Nat : i <= Len(p) /\ f[i] # {SubSeq(p, 1, i)}}
  <1>2. Reached(tree, p) = f[Len(p)]
    BY <1>1 DEF Reached
  <1>3. f[0] = {<<>>} /\ \A i \in 1 .. Len(p) : f[i] = ReachNext(tree, f[i - 1], p[i])
    BY <1>1, ReachedAfterIs
  <1> HIDE DEF f
  <1>4. \A i \in 1 .. Len(p) : SubSeq(p, 1, i) \in tree \ {<<>>}
    BY OnTheWayDown
  <1>5. Not = {}
    <2> SUFFICES ASSUME Not # {} PROVE FALSE
      OBVIOUS
    <2>1. PICK n \in Not : \A i \in Not : n <= i
      <3>1. Not \in SUBSET Nat
        OBVIOUS
      <3> HIDE DEF Not
      <3> QED
        BY <3>1, MinOf
    <2>2. n \in 1 .. Len(p) /\ f[n] # {SubSeq(p, 1, n)}
      <3>1. n \in Nat /\ n <= Len(p) /\ f[n] # {SubSeq(p, 1, n)}
        BY <2>1
      <3>2. n # 0
        BY <1>1, <1>3, <3>1
      <3> QED
        BY <1>1, <3>1, <3>2
    <2> DEFINE a == SubSeq(p, 1, n - 1)
               c == SubSeq(p, 1, n)
               met == {q \in Below(tree, <<>>) : Last(q) = p[n] /\ Precedes(a, q)}
    <2>3. f[n - 1] = {a}
      <3>1. n - 1 \in Nat /\ n - 1 <= Len(p) /\ n - 1 \notin Not
        BY <1>1, <2>1, <2>2
      <3> QED
        BY <3>1
    <2>4. f[n] = FirstOf(met)
      <3>1. f[n] = ReachNext(tree, {a}, p[n])
        BY <1>3, <2>2, <2>3
      <3>2. ReachNext(tree, {a}, p[n]) = FirstOf(met)
        BY DEF ReachNext
      <3> QED
        BY <3>1, <3>2
    <2>5. /\ a \in Seq(DOMAIN Rank) /\ c \in Seq(DOMAIN Rank) /\ Len(a) = n - 1 /\ Len(c) = n
          /\ \A j \in 1 .. n - 1 : a[j] = c[j]
          /\ c[n] = p[n] /\ c \in tree \ {<<>>}
      <3>1. c \in tree \ {<<>>}
        BY <1>4, <2>2
      <3> QED
        BY <1>1, <2>2, <3>1
    <2>6. \A q \in tree : IsStrictPrefix(a, q) /\ Last(q) = p[n] => q = c
      BY <1>1, <2>2 DEF InOnePlace
    <2> HIDE DEF a, c
    <2>7. IsPrefix(a, c) /\ IsStrictPrefix(a, c)
      <3>1. Len(a) < Len(c) /\ Len(a) <= Len(c)
        BY <2>2, <2>5
      <3>2. \A j \in 1 .. Len(a) : a[j] = c[j]
        BY <2>5
      <3> QED
        BY <2>5, <3>1, <3>2, PrefixIs
    <2>8. c \in met
      <3>1. Last(c) = p[n]
        BY <2>5 DEF Last
      <3>2. IsStrictPrefix(<<>>, c)
        <4>1. <<>> \in Seq(DOMAIN Rank) /\ Len(<<>>) = 0 /\ Len(c) \in Nat /\ 0 < Len(c)
          BY <2>2, <2>5, EmptySeq
        <4>2. \A j \in 1 .. Len(<<>>) : <<>>[j] = c[j]
          BY <4>1
        <4> QED
          BY <2>5, <4>1, <4>2, PrefixIs
      <3> QED
        BY <2>5, <2>7, <3>1, <3>2 DEF Below, Precedes
    <2>9. ASSUME NEW q \in met, q # c PROVE Precedes(c, q) /\ ~Precedes(q, c)
      <3>1. q \in tree /\ q \in Seq(DOMAIN Rank) /\ Last(q) = p[n] /\ Precedes(a, q)
        BY <2>9 DEF Below
      <3>2. ~IsStrictPrefix(a, q)
        BY <2>6, <2>9, <3>1
      <3> QED
        BY <2>5, <2>7, <3>1, <3>2, MetAfterBelow
    <2>10. FirstOf(met) = {c}
      <3> HIDE DEF met
      <3> QED
        BY <2>8, <2>9 DEF FirstOf
    <2> QED
      BY <2>2, <2>4, <2>10 DEF c
  <1>6. f[Len(p)] = {p}
    BY <1>1, <1>5
  <1> QED
    BY <1>2, <1>6

\* The subnodes of a node whose names are in one place are its children: no other
\* node below it has a parent of its name.
LEMMA SubnodesOf ==
  ASSUME NEW tree \in SUBSET Seq(DOMAIN Rank), Rooted(tree),
         NEW p \in tree, InOnePlace(tree, p)
  PROVE  Subnodes(tree, p) = Children(tree, p)
  <1>1. /\ p \in Seq(DOMAIN Rank) /\ Len(p) \in Nat \ {0} /\ DOMAIN p = 1 .. Len(p)
        /\ SubSeq(p, 1, Len(p)) = p /\ Last(p) = p[Len(p)]
    <2>1. p \in Seq(DOMAIN Rank) /\ p # <<>>
      BY DEF Rooted
    <2> QED
      BY <2>1, EmptySeq DEF Last
  <1>2. ASSUME NEW d \in tree
        PROVE  /\ d \in Seq(DOMAIN Rank) /\ d # <<>> /\ Len(d) \in Nat \ {0}
               /\ Parent(d) \in Seq(DOMAIN Rank) /\ Len(Parent(d)) = Len(d) - 1
               /\ \A j \in 1 .. Len(d) - 1 : Parent(d)[j] = d[j]
    <2>1. d \in Seq(DOMAIN Rank) /\ d # <<>> /\ Len(d) \in Nat \ {0}
      BY EmptySeq DEF Rooted
    <2> QED
      BY <2>1, FrontOf DEF Parent
  <1>3. ASSUME NEW d \in Subnodes(tree, p) PROVE d \in Children(tree, p)
    <2>1. d \in tree /\ IsStrictPrefix(p, d) /\ Len(d) > 1 /\ d[Len(d) - 1] = p[Len(p)]
      BY <1>1, <1>3 DEF Subnodes, Below
    <2> DEFINE e == Parent(d)
    <2>2. /\ d \in Seq(DOMAIN Rank) /\ d # <<>> /\ Len(d) \in Nat
          /\ e \in Seq(DOMAIN Rank) /\ Len(e) = Len(d) - 1
          /\ \A j \in 1 .. Len(d) - 1 : e[j] = d[j]
      BY <1>2, <2>1
    <2>3. e \in tree
      BY <2>1 DEF Rooted
    <2> HIDE DEF e
    <2>4. Len(p) < Len(d) /\ \A j \in 1 .. Len(p) : p[j] = d[j]
      BY <1>1, <2>1, <2>2, PrefixIs
    <2>5. Last(e) = p[Len(p)]
      BY <2>1, <2>2 DEF Last
    <2> DEFINE a == SubSeq(p, 1, Len(p) - 1)
    <2>6. a \in Seq(DOMAIN Rank) /\ Len(a) = Len(p) - 1 /\ \A j \in 1 .. Len(p) - 1 : a[j] = p[j]
      BY <1>1
    <2> HIDE DEF a
    <2>7. IsStrictPrefix(a, e)
      <3>1. Len(a) < Len(e) /\ \A j \in 1 .. Len(a) : j \in 1 .. Len(p) - 1 /\ j \in 1 .. Len(p)
                                                      /\ j \in 1 .. Len(d) - 1
        BY <1>1, <2>2, <2>4, <2>6
      <3>2. \A j \in 1 .. Len(a) : a[j] = e[j]
        BY <2>2, <2>4, <2>6, <3>1
      <3> QED
        BY <2>2, <2>6, <3>1, <3>2, PrefixIs
    <2>8. e = SubSeq(p, 1, Len(p))
      BY <1>1, <2>3, <2>5, <2>7 DEF InOnePlace, a
    <2> QED
      BY <1>1, <2>1, <2>2, <2>8 DEF Children, e
  <1>4. ASSUME NEW c \in Children(tree, p) PROVE c \in Subnodes(tree, p)
    <2>1. c \in tree /\ Parent(c) = p
      BY <1>4 DEF Children
    <2>2. /\ c \in Seq(DOMAIN Rank) /\ Len(c) \in Nat /\ Len(p) = Len(c) - 1
          /\ \A j \in 1 .. Len(c) - 1 : p[j] = c[j]
      BY <1>2, <2>1
    <2>3. IsStrictPrefix(p, c)
      <3>1. Len(p) < Len(c) /\ \A j \in 1 .. Len(p) : p[j] = c[j]
        BY <1>1, <2>2
      <3> QED
        BY <1>1, <2>2, <3>1, PrefixIs
    <2>4. Len(c) > 1 /\ c[Len(c) - 1] = Last(p)
      BY <1>1, <2>2
    <2> QED
      BY <2>1, <2>3, <2>4 DEF Subnodes, Below
  <1> QED
    BY <1>3, <1>4

\* Where the names before the token are in one place, a wildcard or a key stands
\* for each child of the node with these names and for nothing else, and a
\* reference for the child that the walk meets last alone, although the resolvers
\* look for names in all of the tree (nodes_ordering.cpp:65, 117-222).
THEOREM TokensResolved ==
  ASSUME NEW tree \in SUBSET Seq(DOMAIN Rank), Rooted(tree), NEW dep, NEW token,
         Pre(dep, token) \in tree, InOnePlace(tree, Pre(dep, token))
  PROVE  /\ ResolveEach(tree, dep, token) = Replaced(dep, token, Children(tree, Pre(dep, token)))
         /\ token = Reference =>
               ResolveReference(tree, dep) =
                   Replaced(dep, token, LastOf(Children(tree, Pre(dep, token))))
  <1> DEFINE P == Pre(dep, token)
  <1>1. Reached(tree, P) = {P} /\ Subnodes(tree, P) = Children(tree, P)
    BY ReachesPath, SubnodesOf
  <1> HIDE DEF P
  <1>2. /\ UNION {Subnodes(tree, p) : p \in Reached(tree, P)} = Children(tree, P)
        /\ UNION {LastOf(Subnodes(tree, p)) : p \in Reached(tree, P)} = LastOf(Children(tree, P))
    BY <1>1
  <1> QED
    BY <1>2 DEF ResolveEach, ResolveReference, P

\* Where a wildcard or a key follows names that are in one place, a node depends on
\* each node of the tree that its dependency may stand for: none of them is passed
\* over for what else has one of the names (nodes_ordering.cpp:117-222, 295-350).
THEOREM FittingCovered ==
  ASSUME NEW tree \in SUBSET Seq(DOMAIN Rank), Rooted(tree),
         NEW dep \in Seq(STRING), NEW k \in 2 .. Len(dep), dep[k] \in {Key, Wildcard},
         NEW p \in tree, Len(p) = Len(dep), ToSet(p) \cap {Key, Wildcard, Reference} = {},
         \A j \in DOMAIN dep \ {k} : p[j] = dep[j],
         InOnePlace(tree, SubSeq(p, 1, k - 1))
  PROVE  p \in Resolve(tree, dep)
  <1> DEFINE token == dep[k]
             a == SubSeq(p, 1, k - 1)
             c == SubSeq(p, 1, k)
  <1>1. /\ p \in Seq(DOMAIN Rank) /\ Len(p) \in Nat /\ DOMAIN p = 1 .. Len(p)
        /\ DOMAIN dep = 1 .. Len(dep) /\ Len(dep) \in Nat /\ k \in Nat /\ 2 <= k /\ k <= Len(p)
    OBVIOUS
  <1>2. \A j \in DOMAIN p : p[j] \notin {Key, Wildcard, Reference}
    BY <1>1 DEF ToSet
  <1>3. \A j \in DOMAIN dep : dep[j] \in {Key, Wildcard, Reference} => j = k
    BY <1>1, <1>2
  <1>4. PlaceOf(dep, token) = k
    <2> DEFINE I == {i \in 1 .. Len(dep) : dep[i] = token}
    <2>1. PlaceOf(dep, token) = IF I # {} THEN Min(I) ELSE 0
      BY DEF PlaceOf, SelectInSeq
    <2>2. I = {k}
      BY <1>1, <1>3
    <2> HIDE DEF I
    <2>3. I \in SUBSET Nat /\ I # {}
      BY <1>1, <2>2
    <2>4. Min(I) \in I
      BY <2>3, MinOf
    <2> QED
      BY <2>1, <2>2, <2>4
  <1>5. /\ a \in Seq(DOMAIN Rank) /\ Len(a) = k - 1 /\ \A j \in 1 .. k - 1 : a[j] = p[j]
        /\ c \in Seq(DOMAIN Rank) /\ Len(c) = k /\ \A j \in 1 .. k : c[j] = p[j]
    BY <1>1
  <1>6. Pre(dep, token) = a
    <2>1. Pre(dep, token) = SubSeq(dep, 1, k - 1)
      BY <1>4 DEF Pre
    <2>2. \A j \in 1 .. k - 1 : j \in DOMAIN dep \ {k} /\ dep[j] = p[j]
      BY <1>1
    <2>3. SubSeq(dep, 1, k - 1) = [j \in 1 .. k - 1 |-> dep[j]] /\ a = [j \in 1 .. k - 1 |-> p[j]]
      BY <1>1
    <2> QED
      BY <2>1, <2>2, <2>3
  <1>7. a \in tree /\ c \in tree
    <2>1. k - 1 \in 1 .. Len(p) /\ k \in 1 .. Len(p)
      BY <1>1
    <2> HIDE DEF a, c
    <2> QED
      BY <2>1, OnTheWayDown DEF a, c
  <1> HIDE DEF a, c, token
  <1>8. c \in Children(tree, a)
    <2>1. c # <<>>
      BY <1>1, <1>5, EmptySeq
    <2>2. /\ Parent(c) \in Seq(DOMAIN Rank) /\ Len(Parent(c)) = k - 1
          /\ \A j \in 1 .. k - 1 : Parent(c)[j] = c[j]
      BY <1>5, <2>1, FrontOf DEF Parent
    <2>3. \A j \in 1 .. k - 1 : Parent(c)[j] = a[j]
      BY <1>1, <1>5, <2>2
    <2>4. Parent(c) = a
      BY <1>5, <2>2, <2>3, SeqEqual
    <2> QED
      BY <1>7, <2>1, <2>4 DEF Children
  <1>9. Pre(dep, token) \o <<Last(c)>> \o Post(dep, token) = p
    <2> DEFINE b == Post(dep, token)
               q == a \o <<p[k]>> \o b
    <2>1. Last(c) = p[k]
      BY <1>1, <1>5 DEF Last
    <2>2. b = SubSeq(dep, k + 1, Len(dep))
      BY <1>4 DEF Post
    <2>3. \A j \in 1 .. Len(p) - k : k + j \in DOMAIN dep \ {k} /\ p[k + j] = dep[k + j]
      BY <1>1
    <2>4. Len(b) = Len(p) - k /\ \A j \in 1 .. Len(p) - k : b[j] = dep[k + j]
      <3>1. b = [j \in 1 .. Len(dep) - k |-> dep[k + j]]
        BY <1>1, <2>2
      <3> HIDE DEF b
      <3>2. Len(b) = Len(dep) - k
        BY <1>1, <3>1
      <3> QED
        BY <3>1, <3>2
    <2>5. b \in Seq(STRING)
      BY <1>1, <2>2
    <2> HIDE DEF b
    <2> DEFINE T == DOMAIN Rank \cup STRING
    <2>6. /\ q \in Seq(T) /\ Len(q) = Len(a) + 1 + Len(b)
          /\ \A j \in 1 .. Len(q) : q[j] = IF j <= Len(a) THEN a[j]
                                           ELSE IF j = Len(a) + 1 THEN p[k] ELSE b[j - (Len(a) + 1)]
      <3>1. a \in Seq(T)
        BY <1>5
      <3>2. b \in Seq(T)
        BY <2>5
      <3>3. p[k] \in T
        BY <1>1
      <3> HIDE DEF T
      <3> QED
        BY <3>1, <3>2, <3>3, PutBetween
    <2> HIDE DEF q
    <2>7. Len(q) = Len(p)
      BY <1>1, <1>5, <2>4, <2>6
    <2>8. ASSUME NEW j \in 1 .. Len(p) PROVE q[j] = p[j]
      <3>1. CASE j <= Len(a)
        BY <1>5, <2>6, <2>7, <3>1
      <3>2. CASE j = k
        BY <1>1, <1>5, <2>6, <2>7, <3>2
      <3>3. CASE j > k
        <4>1. j - k \in 1 .. Len(p) - k /\ k + (j - k) = j
          BY <1>1, <3>3
        <4>2. q[j] = b[j - k]
          BY <1>1, <1>5, <2>6, <2>7, <3>3
        <4> QED
          BY <2>3, <2>4, <4>1, <4>2
      <3>4. j <= Len(a) \/ j = k \/ j > k
        BY <1>1, <1>5
      <3> QED
        BY <3>1, <3>2, <3>3, <3>4
    <2>9. p \in Seq(T)
      BY <1>1
    <2>10. q = p
      BY <2>6, <2>7, <2>8, <2>9, SeqEqual
    <2> QED
      BY <1>6, <2>1, <2>10 DEF b, q
  <1>10. p \in ResolveEach(tree, dep, token)
    <2>1. ResolveEach(tree, dep, token) = Replaced(dep, token, Children(tree, a))
      <3>1. Pre(dep, token) \in tree /\ InOnePlace(tree, Pre(dep, token))
        BY <1>6, <1>7 DEF a
      <3>2. ResolveEach(tree, dep, token) = Replaced(dep, token, Children(tree, Pre(dep, token)))
        BY <3>1, TokensResolved
      <3> QED
        BY <1>6, <3>2
    <2> QED
      BY <1>8, <1>9, <2>1 DEF Replaced
  <1>11. ~HasToken(dep, Reference) /\ ~HasToken(p, Key) /\ ~HasToken(p, Reference)
    <2>1. token # Reference
      BY DEF token, Key, Wildcard, Reference
    <2> QED
      BY <1>2, <1>3, <2>1 DEF HasToken, token
  <1>12. CASE token = Wildcard
    <2>1. HasToken(dep, Wildcard)
      BY <1>1, <1>12 DEF HasToken, token
    <2>2. p \in ResolveInWildcard(tree, p)
      BY <1>11 DEF ResolveInWildcard
    <2>3. p \in WithWildcard(tree, dep)
      BY <1>10, <1>12, <2>1, <2>2 DEF WithWildcard
    <2> QED
      BY <2>3 DEF Resolve
  <1>13. CASE token = Key
    <2>1. HasToken(dep, Key)
      BY <1>1, <1>13 DEF HasToken, token
    <2>2. ~HasToken(dep, Wildcard)
      <3>1. Key # Wildcard
        BY DEF Key, Wildcard
      <3> QED
        BY <1>3, <1>13, <3>1 DEF HasToken, token
    <2>3. WithWildcard(tree, dep) = {}
      BY <2>2 DEF WithWildcard
    <2>4. WithoutWildcard(tree, dep) = ResolveEach(tree, dep, Key)
      BY <1>11, <2>1 DEF WithoutWildcard, ResolveKey
    <2> QED
      BY <1>10, <1>13, <2>3, <2>4 DEF Resolve
  <1> QED
    BY <1>12, <1>13 DEF token

\* The error of the sort, which resolve ignores (nodes_ordering.cpp:373), costs no
\* node unless two nodes depend on each other or one on itself.
THEOREM NothingLeftOut ==
  Spec => [](pc \in {"done", "failed"} /\ ~TwoCycle => ToSet(ordered) = Keys)
  <1>1. NoCircularReference /\ EachNodeOnce =>
            (pc \in {"done", "failed"} /\ ~TwoCycle => ToSet(ordered) = Keys)
    BY DEF NoCircularReference, EachNodeOnce
  <1> QED
    BY <1>1, SortBegunSucceeds, NodesSentOnce, PTL

=============================================================================
