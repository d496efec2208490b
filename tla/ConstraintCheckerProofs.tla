---------------------- MODULE ConstraintCheckerProofs -----------------------
(***************************************************************************)
(* Proofs about module ConstraintChecker, for any configs, constraints,    *)
(* references and regexes: what the manager keeps of a check belongs       *)
(* together, an accepted update is checked, and nothing undoes "then".     *)
(***************************************************************************)
EXTENDS ConstraintChecker, XPathProofs

\* The handlers leave everything alone but the parser's state.
LEMMA HandleChanges ==
  ASSUME Handle
  PROVE  UNCHANGED <<callVars, nodes, checkVars, histVars>> /\ evaluating /\ rest # <<>>
  BY DEF Handle, Skipped, TokenHandle, CountHandle, ExistsHandle, InfixExpressionHandle,
         MustHandle, ThenStatementHandle, ReferenceHandle, XPathHandle, XPathValueHandle,
         XPathMatchRegexHandle, XPathAnyHandle, XPathAllHandle, XPathKeyBasedHandle,
         XPathKeyRegexReplaceHandle, XPathValueKeyRegexReplaceHandle, Calls

-----------------------------------------------------------------------------
\* Once the condition of an "if" was false, no handler, whatever the expression
\* after "then" is made of, clears the result that "then" has set
\* (constraint_checking.cpp:92-99, 240-258, 323-330).
THEOREM VacuousStaysMet == Spec => VacuousIsMet
  <1>1. ASSUME [Next]_vars, evaluating, ~continueProcessing, expressionResult, evaluating'
        PROVE  ~continueProcessing' /\ expressionResult'
    <2> USE <1>1
    <2>1. CASE Handle
      <3>1. CASE Skipped
        BY <3>1 DEF Skipped, Yields
      <3>2. CASE MustHandle
        BY <3>2 DEF MustHandle, Yields
      <3>3. CASE ThenStatementHandle
        BY <3>3 DEF ThenStatementHandle
      <3> QED
        BY <2>1, <3>1, <3>2, <3>3
        DEF Handle, TokenHandle, CountHandle, ExistsHandle, InfixExpressionHandle,
            ReferenceHandle, XPathHandle, XPathValueHandle, XPathMatchRegexHandle,
            XPathAnyHandle, XPathAllHandle, XPathKeyBasedHandle,
            XPathKeyRegexReplaceHandle, XPathValueKeyRegexReplaceHandle, Calls
    <2>2. CASE BeginConstraint \/ ConstraintMet \/ ConstraintFailed
      BY <2>2 DEF BeginConstraint, ConstraintMet, ConstraintFailed, Evaluated
    <2>3. CASE Start \/ Restart \/ Update \/ LoadAdded
      <3>1. UNCHANGED <<continueProcessing, expressionResult>>
        BY <2>3 DEF Start, Restart, Update, LoadAdded, parseVars
      <3> QED
        BY <3>1
    <2>4. CASE Loaded \/ Accept \/ RemoveXPathReference \/ StillReferenced \/ NextNode \/ NodeDone
      BY <2>4 DEF Loaded, Accept, RemoveXPathReference, StillReferenced, NextNode, NodeDone, Between
    <2>5. CASE NoParent
      BY <2>5 DEF NoParent, Refuse, Reset
    <2>6. CASE UNCHANGED vars
      BY <2>6 DEF vars, parseVars
    <2> QED
      BY <2>1, <2>2, <2>3, <2>4, <2>5, <2>6 DEF Next, Validate
  <1> QED
    BY <1>1, PTL DEF Spec, VacuousIsMet

-----------------------------------------------------------------------------
LEMMA PathsOfConfigs ==
  ASSUME NEW c \in Configs
  PROVE  DOMAIN c \subseteq Paths /\ <<>> \in Paths
  BY ConfigsAssumption DEF Paths

LEMMA RefuseTyped ==
  ASSUME TypeOK, Refuse
  PROVE  TypeOK'
  <1>1. <<>> \in Paths /\ DOMAIN config \subseteq Paths
    BY PathsOfConfigs DEF TypeOK
  <1>2. Tree' \subseteq Paths
    BY <1>1 DEF Refuse, Tree, NoTree
  <1>3. pc' \in Loading \cup {"down", "idle"} /\ target' \in Configs /\ disturbed' \in BOOLEAN
    BY DEF TypeOK, Refuse
  <1> QED
    BY <1>1, <1>2, <1>3, EmptySeq DEF TypeOK, Refuse, Reset, Loading, Between

LEMMA Typed ==
  ASSUME TypeOK, [Next]_vars
  PROVE  TypeOK'
  <1>1. <<>> \in Paths /\ DOMAIN config \subseteq Paths /\ DOMAIN target \subseteq Paths
    BY PathsOfConfigs DEF TypeOK
  <1>2. CASE Start
    <2>1. PICK c \in Configs : /\ config' = c /\ target' = c /\ root' = c
                               /\ nodes' = DOMAIN c \ {<<>>}
      BY <1>2 DEF Start
    <2>2. DOMAIN c \subseteq Paths
      BY PathsOfConfigs
    <2> QED
      BY <1>2, <2>1, <2>2 DEF Start, TypeOK, Tree, Loading, Between, checkVars, parseVars
  <1>3. CASE Restart
    BY <1>1, <1>3 DEF Restart, TypeOK, Tree, Loading, Between, checkVars, parseVars
  <1>4. CASE Loaded
    BY <1>4 DEF Loaded, TypeOK, Tree, Loading, Between, checkVars, parseVars
  <1>5. CASE Update
    <2>1. PICK to \in Configs : /\ target' = to
                                /\ root' = [p \in RemovalTree(config, RemovedPaths(config, to)) |-> config[p]]
                                /\ nodes' = Doomed(config, RemovedPaths(config, to))
      BY <1>5 DEF Update
    <2>2. Tree' \subseteq Paths /\ nodes' \subseteq Paths \ {<<>>}
      BY <1>1, <2>1 DEF Tree, RemovalTree, Doomed
    <2> QED
      BY <1>5, <2>1, <2>2 DEF Update, TypeOK, Loading, checkVars, parseVars, histVars
  <1>6. CASE RemoveXPathReference
    BY <1>6 DEF RemoveXPathReference, TypeOK, Tree, Loading, Between, checkVars, parseVars, histVars
  <1>7. CASE StillReferenced \/ NoParent \/ ConstraintFailed
    BY <1>7, RefuseTyped DEF StillReferenced, NoParent, ConstraintFailed
  <1>8. CASE LoadAdded
    <2>1. Remaining \subseteq Paths /\ Reloaded \subseteq Paths
      BY <1>1 DEF Remaining, Reloaded, Below
    <2>2. Tree' \subseteq Paths /\ nodes' \subseteq Paths \ {<<>>}
      BY <1>8, <2>1 DEF LoadAdded, Tree, Touched
    <2> QED
      BY <1>8, <2>2 DEF LoadAdded, TypeOK, Loading, checkVars, parseVars
  <1>9. CASE Accept
    BY <1>1, <1>9 DEF Accept, TypeOK, Tree, Loading, Between, checkVars, parseVars
  <1>10. CASE NextNode
    <2>1. PICK n \in Ready :
              \/ /\ xpath' = n /\ nodes' = nodes \ {n} /\ constraints' = ConstraintsOf(n)
                 /\ UNCHANGED <<callVars, evaluating, parseVars, histVars>>
              \/ nodes' = nodes \ {n} /\ UNCHANGED <<callVars, checkVars, parseVars, histVars>>
              \/ Refuse
      BY <1>10 DEF NextNode
    <2>2. n \in nodes
      BY DEF Ready, FirstOf
    <2>3. n \in Paths /\ n # <<>>
      BY <2>2 DEF TypeOK
    <2>4. ConstraintsOf(n) \in Seq(Constraints)
      BY <2>3, ConstraintsAssumption DEF ConstraintsOf
    <2>5. CASE Refuse
      BY <2>5, RefuseTyped
    <2>6. CASE nodes' = nodes \ {n} /\ UNCHANGED <<callVars, checkVars, parseVars, histVars>>
      BY <2>6 DEF TypeOK, Tree, Between, callVars, checkVars, parseVars, histVars
    <2>7. CASE /\ xpath' = n /\ nodes' = nodes \ {n} /\ constraints' = ConstraintsOf(n)
               /\ UNCHANGED <<callVars, evaluating, parseVars, histVars>>
      <3>1. pc \notin {"down", "idle", "adding"}
        BY <2>2 DEF TypeOK
      <3>2. ~evaluating
        BY <1>10 DEF NextNode, Between
      <3> QED
        BY <2>3, <2>4, <2>7, <3>1, <3>2 DEF TypeOK, Tree, callVars, parseVars, histVars
    <2> QED
      BY <2>1, <2>5, <2>6, <2>7
  <1>11. CASE NodeDone
    <2>1. Tree' \subseteq Paths
      BY <1>11 DEF NodeDone, TypeOK, Tree
    <2> QED
      BY <1>1, <1>11, <2>1 DEF NodeDone, TypeOK, Between, parseVars, histVars
  <1>12. CASE BeginConstraint
    BY <1>12 DEF BeginConstraint, TypeOK, Tree, Between, callVars, histVars
  <1>13. CASE ConstraintMet
    <2>1. constraints # <<>> /\ constraints \in Seq(Constraints) /\ xpath # <<>>
      BY <1>13 DEF ConstraintMet, Evaluated, TypeOK
    <2>2. Head(constraints) \in Constraints /\ Tail(constraints) \in Seq(Constraints)
      BY <2>1
    <2>3. xpath \in Paths /\ passed' \subseteq Paths \X Constraints
      BY <1>13, <2>1, <2>2 DEF ConstraintMet, TypeOK
    <2>4. continueProcessing' \in BOOLEAN /\ expressionResult' \in BOOLEAN /\ evaluating' = FALSE
      BY <1>13 DEF ConstraintMet
    <2>5. UNCHANGED <<callVars, nodes, xpath, disturbed>> /\ constraints' = Tail(constraints)
      BY <1>13 DEF ConstraintMet
    <2> QED
      BY <2>1, <2>2, <2>3, <2>4, <2>5 DEF TypeOK, Tree, Between, callVars
  <1>14. CASE Handle
    <2>1. UNCHANGED <<callVars, nodes, checkVars, histVars>>
      BY <1>14, HandleChanges
    <2>2. continueProcessing' \in BOOLEAN /\ expressionResult' \in BOOLEAN
      BY <1>14
      DEF TypeOK, Handle, Skipped, TokenHandle, CountHandle, ExistsHandle, InfixExpressionHandle,
          MustHandle, ThenStatementHandle, ReferenceHandle, XPathHandle, XPathValueHandle,
          XPathMatchRegexHandle, XPathAnyHandle, XPathAllHandle, XPathKeyBasedHandle,
          XPathKeyRegexReplaceHandle, XPathValueKeyRegexReplaceHandle, Yields, Fails
    <2> QED
      BY <2>1, <2>2 DEF TypeOK, Tree, Between, callVars, checkVars, histVars
  <1>15. CASE UNCHANGED vars
    BY <1>15 DEF vars, TypeOK, Tree, Between, callVars, checkVars, parseVars, histVars
  <1> QED
    BY <1>2, <1>3, <1>4, <1>5, <1>6, <1>7, <1>8, <1>9, <1>10, <1>11, <1>12, <1>13, <1>14, <1>15
    DEF Next, Validate

\* What a call works with belongs together, and nothing is left of a call that
\* ended (config.cpp:358-389, 1129-1158, 1417-1453).
THEOREM TypeCorrect == Spec => []TypeOK
  <1>1. Init => TypeOK
    <2> SUFFICES ASSUME Init PROVE TypeOK
      OBVIOUS
    <2>1. <<>> \in Paths
      BY PathsOfConfigs DEF Init
    <2> QED
      BY <2>1, EmptySeq DEF Init, TypeOK, Tree, NoTree, Loading, Between
  <1> QED
    BY <1>1, Typed, PTL DEF Spec

-----------------------------------------------------------------------------
(***************************************************************************)
(* Paths and the patch.                                                    *)
(***************************************************************************)

\* A tree has the parent of each of its nodes.
Closed(t) == \A p \in t \ {<<>>} : Parent(p) \in t

\* The parent of a path is the path without its last name.
LEMMA ParentIs ==
  ASSUME NEW p \in Seq(DOMAIN Rank) \ {<<>>}
  PROVE  /\ Parent(p) \in Seq(DOMAIN Rank) /\ Len(p) \in Nat \ {0}
         /\ Len(Parent(p)) = Len(p) - 1
         /\ \A i \in 1 .. Len(p) - 1 : Parent(p)[i] = p[i]
  BY FrontOf, EmptySeq DEF Parent

\* What is or is below a parent goes on below it: only a strict prefix of a path,
\* or none, is a prefix of its parent.
LEMMA ParentBelow ==
  ASSUME NEW a \in Seq(DOMAIN Rank), NEW p \in Seq(DOMAIN Rank) \ {<<>>}
  PROVE  /\ IsPrefix(a, Parent(p)) <=> IsStrictPrefix(a, p)
         /\ IsPrefix(a, p) <=> a = p \/ IsStrictPrefix(a, p)
         /\ IsPrefix(a, Parent(p)) <=> a = Parent(p) \/ IsStrictPrefix(a, Parent(p))
  <1>1. /\ Parent(p) \in Seq(DOMAIN Rank) /\ Len(p) \in Nat \ {0} /\ Len(a) \in Nat
        /\ Len(Parent(p)) = Len(p) - 1
        /\ \A i \in 1 .. Len(p) - 1 : Parent(p)[i] = p[i]
    BY ParentIs
  <1>2. IsPrefix(a, Parent(p)) <=> Len(a) <= Len(Parent(p)) /\ \A i \in 1 .. Len(a) : a[i] = Parent(p)[i]
    BY <1>1, PrefixIs
  <1>6. IsStrictPrefix(a, p) <=> Len(a) < Len(p) /\ \A i \in 1 .. Len(a) : a[i] = p[i]
    BY PrefixIs
  <1>3. Len(a) <= Len(p) - 1 => \A i \in 1 .. Len(a) : Parent(p)[i] = p[i]
    BY <1>1
  <1>4. IsPrefix(a, Parent(p)) <=> IsStrictPrefix(a, p)
    BY <1>1, <1>2, <1>3, <1>6
  <1>5. IsPrefix(p, p) /\ IsPrefix(Parent(p), Parent(p))
    BY <1>1, PrefixIs
  <1> QED
    BY <1>4, <1>5 DEF IsStrictPrefix

\* Where a path begins with another, the prefix is a substring of it.
LEMMA PrefixIsSubstring ==
  ASSUME NEW p \in Seq(DOMAIN Rank), NEW n \in Seq(DOMAIN Rank), IsPrefix(p, n)
  PROVE  HasSubstring(n, p)
  <1>1. /\ Len(p) \in Nat /\ Len(n) \in Nat /\ Len(p) <= Len(n)
        /\ \A i \in 1 .. Len(p) : p[i] = n[i]
    BY PrefixIs
  <1>2. 0 \in 0 .. Len(n) - Len(p)
    BY <1>1
  <1>3. \A i \in DOMAIN p : n[0 + i] = p[i]
    <2>1. DOMAIN p = 1 .. Len(p)
      OBVIOUS
    <2> QED
      BY <1>1, <2>1
  <1> QED
    BY <1>2, <1>3 DEF HasSubstring

LEMMA PrefixOfPrefix ==
  ASSUME NEW p \in Seq(DOMAIN Rank), NEW m \in Seq(DOMAIN Rank), NEW n \in Seq(DOMAIN Rank),
         IsPrefix(p, m), IsPrefix(m, n)
  PROVE  IsPrefix(p, n)
  <1>1. /\ Len(p) \in Nat /\ Len(m) \in Nat /\ Len(p) <= Len(m) /\ Len(m) <= Len(n)
        /\ \A i \in 1 .. Len(p) : p[i] = m[i]
        /\ \A i \in 1 .. Len(m) : m[i] = n[i]
    BY PrefixIs
  <1>2. Len(p) <= Len(n) /\ \A i \in 1 .. Len(p) : p[i] = n[i]
    BY <1>1
  <1> QED
    BY <1>2, PrefixIs

\* A tree has what its nodes begin with.
LEMMA PrefixInTree ==
  ASSUME NEW t \in SUBSET Seq(DOMAIN Rank), Closed(t), <<>> \in t,
         NEW n \in t, NEW p \in Seq(DOMAIN Rank), IsPrefix(p, n)
  PROVE  p \in t
  <1>1. Len(p) \in Nat /\ Len(p) <= Len(n) /\ SubSeq(p, 1, Len(p)) = SubSeq(n, 1, Len(p))
    BY DEF IsPrefix
  <1>2. SubSeq(p, 1, Len(p)) = p
    OBVIOUS
  <1>3. CASE p # <<>>
    <2>1. Len(p) \in 1 .. Len(n)
      BY <1>1, <1>3, EmptySeq
    <2> QED
      BY <1>1, <1>2, <2>1, PrefixesIn DEF Closed
  <1> QED
    BY <1>3

\* On the way down to a node that one tree has and the other has not, there is
\* the first such node.
LEMMA FirstMissing ==
  ASSUME NEW a \in SUBSET Seq(DOMAIN Rank), NEW b, Closed(a), <<>> \in b, NEW n \in a \ b
  PROVE  \E p \in a \ b : p # <<>> /\ Parent(p) \in b /\ IsPrefix(p, n)
  <1> DEFINE upTo(k) == SubSeq(n, 1, k)
             K == {k \in Nat : k \in 1 .. Len(n) /\ upTo(k) \notin b}
  <1>1. /\ n \in Seq(DOMAIN Rank) /\ Len(n) \in Nat \ {0}
        /\ upTo(Len(n)) = n /\ upTo(0) = <<>>
    <2>1. n \in Seq(DOMAIN Rank) /\ n # <<>>
      OBVIOUS
    <2> QED
      BY <2>1, EmptySeq
  <1>2. PICK k \in K : \A i \in K : k <= i
    <2> HIDE DEF upTo
    <2>1. Len(n) \in K
      BY <1>1
    <2>2. K \in SUBSET Nat
      OBVIOUS
    <2> HIDE DEF K
    <2> QED
      BY <2>1, <2>2, MinOf
  <1> DEFINE p == upTo(k)
  <1>3. k \in 1 .. Len(n) /\ p \notin b /\ k \in Nat \ {0}
    BY <1>2
  <1>4. p \in a
    BY <1>1, <1>3, PrefixesIn DEF Closed
  <1>5. p \in Seq(DOMAIN Rank) /\ Len(p) = k /\ \A i \in 1 .. k : p[i] = n[i]
    BY <1>1, <1>3
  <1>6. SubSeq(p, 1, k - 1) = SubSeq(n, 1, k - 1)
    <2> HIDE DEF p
    <2>1. /\ SubSeq(p, 1, k - 1) = [i \in 1 .. k - 1 |-> p[i]]
          /\ SubSeq(n, 1, k - 1) = [i \in 1 .. k - 1 |-> n[i]]
      BY <1>1, <1>3, <1>5
    <2> QED
      BY <1>3, <1>5, <2>1
  <1>7. upTo(k - 1) \in b
    <2> HIDE DEF upTo
    <2>1. CASE k = 1
      BY <1>1, <2>1
    <2>2. CASE k # 1
      <3>1. k - 1 \in 1 .. Len(n) /\ k - 1 \in Nat /\ ~(k <= k - 1)
        BY <1>1, <1>3, <2>2
      <3> QED
        BY <1>2, <3>1
    <2> QED
      BY <2>1, <2>2
  <1>8. p # <<>> /\ IsPrefix(p, n)
    <2> HIDE DEF p
    <2>1. IsPrefix(p, n)
      BY <1>1, <1>3, <1>5, PrefixIs
    <2> QED
      BY <1>3, <1>5, <2>1
  <1> HIDE DEF p
  <1>9. Parent(p) \in b
    BY <1>5, <1>6, <1>7 DEF Parent, Front
  <1> QED
    BY <1>3, <1>4, <1>8, <1>9

LEMMA TreesOfCall ==
  ASSUME TypeOK
  PROVE  /\ DOMAIN config \in SUBSET Seq(DOMAIN Rank) /\ DOMAIN target \in SUBSET Seq(DOMAIN Rank)
         /\ <<>> \in DOMAIN config /\ <<>> \in DOMAIN target
         /\ config[<<>>] = target[<<>>]
         /\ Closed(DOMAIN config) /\ Closed(DOMAIN target)
  BY ConfigsAssumption, PathsOfConfigs DEF TypeOK, Closed

\* What is at a removed path or below it is among the nodes to remove: no other
\* removed path is below it.
LEMMA BelowRemoved ==
  ASSUME TypeOK, NEW p \in RemovedPaths(config, target), NEW n \in DOMAIN config, IsPrefix(p, n)
  PROVE  n \in Removed
  <1>1. /\ p \in DOMAIN config \ DOMAIN target /\ p \in Seq(DOMAIN Rank) \ {<<>>}
        /\ n \in Seq(DOMAIN Rank)
    BY TreesOfCall DEF RemovedPaths
  <1>2. Len(p) \in Nat \ {0} /\ Len(p) <= Len(n) /\ \A i \in 1 .. Len(p) : p[i] = n[i]
    BY <1>1, PrefixIs, EmptySeq
  <1>3. n # <<>> /\ n[1] = p[1]
    BY <1>1, <1>2, EmptySeq
  <1>4. HasSubstring(n, p)
    BY <1>1, PrefixIsSubstring
  <1>5. ASSUME NEW q \in RemovedPaths(config, target), IsStrictPrefix(n, q) PROVE FALSE
    <2>1. q \in Seq(DOMAIN Rank) \ {<<>>} /\ Parent(q) \in DOMAIN target
      BY TreesOfCall DEF RemovedPaths
    <2>2. IsPrefix(n, Parent(q)) /\ Parent(q) \in Seq(DOMAIN Rank)
      BY <1>1, <1>5, <2>1, ParentBelow, ParentIs
    <2>3. IsPrefix(p, Parent(q))
      BY <1>1, <2>2, PrefixOfPrefix
    <2> QED
      BY <1>1, <2>1, <2>3, PrefixInTree, TreesOfCall
  <1> QED
    BY <1>3, <1>4, <1>5 DEF Removed, Doomed, RemovalTree

\* Whatever the config loses is among the nodes to remove.
LEMMA GoneAreRemoved ==
  ASSUME TypeOK, NEW n \in DOMAIN config \ DOMAIN target
  PROVE  n \in Removed /\ \E p \in Removed : IsPrefix(p, n)
  <1>1. PICK p \in DOMAIN config \ DOMAIN target : Parent(p) \in DOMAIN target /\ IsPrefix(p, n)
    BY FirstMissing, TreesOfCall
  <1>2. p \in RemovedPaths(config, target) /\ IsPrefix(p, p)
    <2>1. p \in Seq(DOMAIN Rank)
      BY TreesOfCall
    <2> QED
      BY <1>1, <2>1, PrefixIs DEF RemovedPaths
  <1> QED
    BY <1>1, <1>2, BelowRemoved

\* What is at an added path or below it is loaded anew.
LEMMA BelowAdded ==
  ASSUME TypeOK, NEW p \in Added, NEW n \in DOMAIN target, IsPrefix(p, n)
  PROVE  n \in Reloaded /\ n # <<>>
  <1>1. p \in Seq(DOMAIN Rank) \ {<<>>} /\ n \in Seq(DOMAIN Rank)
    BY TreesOfCall DEF Added, AddedPaths
  <1>2. /\ Parent(p) \in Seq(DOMAIN Rank) /\ Len(Parent(p)) = Len(p) - 1 /\ Len(p) \in Nat \ {0}
        /\ \A i \in 1 .. Len(p) - 1 : Parent(p)[i] = p[i]
    BY <1>1, ParentIs
  <1>3. Len(n) \in Nat /\ Len(p) <= Len(n) /\ \A i \in 1 .. Len(p) : p[i] = n[i]
    BY <1>1, PrefixIs
  <1>4. IsStrictPrefix(Parent(p), n)
    <2>1. Len(Parent(p)) < Len(n)
      BY <1>2, <1>3
    <2>2. \A i \in 1 .. Len(Parent(p)) : Parent(p)[i] = n[i]
      BY <1>2, <1>3
    <2> QED
      BY <1>1, <1>2, <2>1, <2>2, PrefixIs
  <1> QED
    BY <1>1, <1>2, <1>3, <1>4, EmptySeq DEF Reloaded, Below

-----------------------------------------------------------------------------
(***************************************************************************)
(* What must be checked is checked.                                        *)
(***************************************************************************)

\* The nodes whose constraints a loop must see met.
ToMeet ==
    IF pc \in Loading THEN DOMAIN config \ {<<>>}
    ELSE IF pc = "removing" THEN Removed
    ELSE {n \in DOMAIN target : \E p \in Added : IsPrefix(p, n)}

\* Constraint c of node n is met, or among those of the node being checked.
Checked(n, c) ==
    \/ <<n, c>> \in passed
    \/ n = xpath /\ \E j \in DOMAIN constraints : constraints[j] = c

\* No constraint is lost between the list of nodes, that of the constraints and
\* what was met.
ChecksLeft(loops) ==
    pc \in loops =>
        \A n \in ToMeet \ nodes :
            \A i \in DOMAIN ConstraintsOf(n) : Checked(n, ConstraintsOf(n)[i])

Updating == {"removing", "updating"}

\* Only a load could lose the constraints of a node, of one that is not found.
LEMMA ChecksLeftStep ==
  ASSUME NEW loops \in SUBSET (Loading \cup Updating), TypeOK, ChecksLeft(loops), [Next]_vars,
         pc \in loops \cap Loading => \A n \in nodes : Exists(Tree, n)
  PROVE  ChecksLeft(loops)'
  <1> SUFFICES ASSUME pc' \in loops PROVE ChecksLeft(loops)'
    BY DEF ChecksLeft
  <1>0. pc' \in {"loading", "restarting", "removing", "updating"}
    BY DEF Loading, Updating
  <1>1. CASE LoadAdded
    <2>1. UNCHANGED <<config, target>> /\ nodes' = Touched /\ pc' = "updating"
      BY <1>1 DEF LoadAdded
    <2>2. ToMeet' = {n \in DOMAIN target : \E p \in Added : IsPrefix(p, n)}
      BY <2>1 DEF ToMeet, Added, Loading
    <2>3. ASSUME NEW n \in DOMAIN target, NEW p \in Added, IsPrefix(p, n) PROVE n \in Touched
      <3>1. p \in Seq(DOMAIN Rank) /\ n \in Seq(DOMAIN Rank)
        BY TreesOfCall DEF Added, AddedPaths
      <3> QED
        BY <2>3, <3>1, BelowAdded, PrefixIsSubstring DEF Touched
    <2> QED
      BY <2>1, <2>2, <2>3 DEF ChecksLeft
  <1>2. CASE Start \/ Restart
    <2>1. nodes' = DOMAIN config' \ {<<>>} /\ pc' \in Loading
      BY <1>2 DEF Start, Restart, Loading
    <2> QED
      BY <2>1 DEF ChecksLeft, ToMeet
  <1>3. CASE Update
    <2>1. nodes' = Doomed(config', RemovedPaths(config', target')) /\ pc' = "removing"
      BY <1>3 DEF Update
    <2> QED
      BY <2>1 DEF ChecksLeft, ToMeet, Removed, Loading
  <1>4. ASSUME UNCHANGED <<pc, config, target>>
        PROVE  ToMeet' = ToMeet /\ pc \in loops /\ \A n : ConstraintsOf(n)' = ConstraintsOf(n)
    BY <1>4 DEF ToMeet, Added, Removed, ConstraintsOf
  <1>5. ASSUME UNCHANGED <<pc, config, target, nodes>>,
               \A n, c : Checked(n, c) => Checked(n, c)'
        PROVE  ChecksLeft(loops)'
    BY <1>4, <1>5 DEF ChecksLeft
  <1>6. CASE NextNode
    <2>1. PICK n \in Ready :
              \/ /\ xpath' = n /\ nodes' = nodes \ {n} /\ constraints' = ConstraintsOf(n)
                 /\ UNCHANGED <<callVars, evaluating, parseVars, histVars>>
              \/ /\ pc \in Loading /\ ~Exists(Tree, n)
                 /\ UNCHANGED callVars
              \/ Refuse
      BY <1>6 DEF NextNode
    <2>2. n \in nodes
      BY DEF Ready, FirstOf
    <2>3. /\ xpath' = n /\ nodes' = nodes \ {n} /\ constraints' = ConstraintsOf(n)
          /\ UNCHANGED <<pc, config, target, passed>>
      BY <1>0, <2>1, <2>2 DEF Refuse, callVars, histVars, Loading
    <2>4. constraints = <<>>
      BY <1>6 DEF NextNode, Between, TypeOK
    <2>5. \A m, c : Checked(m, c) => Checked(m, c)'
      BY <2>3, <2>4 DEF Checked
    <2>6. ASSUME NEW c, \E j \in DOMAIN ConstraintsOf(n) : ConstraintsOf(n)[j] = c
          PROVE  Checked(n, c)'
      BY <2>3, <2>6 DEF Checked
    <2> QED
      BY <1>4, <2>3, <2>5, <2>6 DEF ChecksLeft
  <1>7. CASE NodeDone
    <2>1. UNCHANGED <<pc, config, target, nodes, passed>> /\ constraints = <<>>
      BY <1>7 DEF NodeDone, histVars
    <2> QED
      BY <1>5, <2>1 DEF Checked
  <1>8. CASE ConstraintMet
    <2>1. /\ UNCHANGED <<pc, config, target, nodes, xpath>>
          /\ passed' = passed \cup {<<xpath, Head(constraints)>>} /\ constraints' = Tail(constraints)
      BY <1>8 DEF ConstraintMet, callVars
    <2>2. constraints # <<>> /\ constraints \in Seq(Constraints)
      BY <1>8 DEF ConstraintMet, Evaluated, TypeOK
    <2>3. ASSUME NEW n, NEW c, Checked(n, c) PROVE Checked(n, c)'
      <3>1. CASE <<n, c>> \in passed
        BY <2>1, <3>1 DEF Checked
      <3>2. ASSUME n = xpath, NEW j \in DOMAIN constraints, constraints[j] = c
            PROVE  Checked(n, c)'
        <4>1. CASE j = 1
          BY <2>1, <2>2, <3>2, <4>1 DEF Checked
        <4>2. CASE j # 1
          <5>1. j - 1 \in DOMAIN Tail(constraints) /\ Tail(constraints)[j - 1] = c
            BY <2>2, <3>2, <4>2
          <5> QED
            BY <2>1, <3>2, <5>1 DEF Checked
        <4> QED
          BY <4>1, <4>2
      <3> QED
        BY <2>3, <3>1, <3>2 DEF Checked
    <2> QED
      BY <1>5, <2>1, <2>3
  <1>9. CASE Handle \/ BeginConstraint \/ UNCHANGED vars
    <2>1. UNCHANGED <<pc, config, target, nodes, xpath, constraints, passed>>
      BY <1>9, HandleChanges DEF BeginConstraint, vars, callVars, checkVars, histVars
    <2> QED
      BY <1>5, <2>1 DEF Checked
  <1>10. CASE ConstraintFailed \/ StillReferenced \/ NoParent
    BY <1>0, <1>10 DEF ConstraintFailed, StillReferenced, NoParent, Refuse
  <1>11. CASE Loaded \/ RemoveXPathReference \/ Accept
    BY <1>0, <1>11 DEF Loaded, RemoveXPathReference, Accept
  <1> QED
    BY <1>1, <1>2, <1>3, <1>6, <1>7, <1>8, <1>9, <1>10, <1>11 DEF Next, Validate

\* When a loop is at its end there is nothing left to check.
LEMMA AllChecked ==
  ASSUME NEW loops, TypeOK, ChecksLeft(loops), pc \in loops, nodes = {}, Between,
         NEW n \in ToMeet, NEW i \in DOMAIN ConstraintsOf(n)
  PROVE  <<n, ConstraintsOf(n)[i]>> \in passed
  <1>1. constraints = <<>>
    BY DEF Between, TypeOK
  <1> QED
    BY <1>1 DEF ChecksLeft, Checked

LEMMA UpdatesLeft == Spec => []ChecksLeft(Updating)
  <1>1. Init => ChecksLeft(Updating)
    BY DEF Init, ChecksLeft, Updating
  <1>2. TypeOK /\ ChecksLeft(Updating) /\ [Next]_vars => ChecksLeft(Updating)'
    BY ChecksLeftStep DEF Loading, Updating
  <1> QED
    BY <1>1, <1>2, TypeCorrect, PTL DEF Spec

\* Everything that an update adds or changes has met each of its constraints when
\* the update is accepted (config.cpp:1393-1453).
THEOREM UpdateIsChecked == Spec => AcceptedIsChecked
  <1>1. ASSUME TypeOK, ChecksLeft(Updating), [Next]_vars, pc = "updating", pc' = "idle",
               config' = target,
               NEW n \in DOMAIN target, NEW p \in AddedPaths(config, target), IsPrefix(p, n),
               NEW i \in DOMAIN UpdateConstraints[n]
        PROVE  <<n, UpdateConstraints[n][i]>> \in passed
    <2> USE <1>1
    <2>1. CASE Accept
      <3>1. nodes = {} /\ Between
        BY <2>1 DEF Accept
      <3>2. n \in ToMeet /\ ConstraintsOf(n) = UpdateConstraints[n]
        BY DEF ToMeet, Added, ConstraintsOf, Loading
      <3> QED
        BY <3>1, <3>2, AllChecked DEF Updating
    <2>2. ~Refuse
      BY DEF Refuse, AddedPaths
    <2>3. CASE NextNode
      BY <2>2, <2>3 DEF NextNode, callVars
    <2>4. CASE Validate
      BY <2>2, <2>4, HandleChanges
      DEF Validate, BeginConstraint, ConstraintMet, ConstraintFailed, callVars
    <2>5. CASE StillReferenced \/ NoParent
      BY <2>2, <2>5 DEF StillReferenced, NoParent
    <2>6. CASE Start \/ Restart \/ Loaded \/ Update \/ RemoveXPathReference \/ LoadAdded \/ NodeDone
      BY <2>6 DEF Start, Restart, Loaded, Update, RemoveXPathReference, LoadAdded, NodeDone, Loading
    <2>7. CASE UNCHANGED vars
      BY <2>7 DEF vars, callVars
    <2> QED
      BY <2>1, <2>3, <2>4, <2>5, <2>6, <2>7 DEF Next
  <1>2. TypeOK /\ ChecksLeft(Updating) /\ [Next]_vars
          => [pc = "updating" /\ pc' = "idle" /\ config' = target =>
                 \A n \in DOMAIN target : \A p \in AddedPaths(config, target) :
                     IsPrefix(p, n) =>
                         \A i \in DOMAIN UpdateConstraints[n] :
                             <<n, UpdateConstraints[n][i]>> \in passed]_vars
    BY <1>1
  <1> QED
    BY <1>2, UpdatesLeft, TypeCorrect, PTL DEF Spec, AcceptedIsChecked

\* Whatever an update takes from the config has met each of its constraints on
\* removal when the loop over the removed nodes ends (config.cpp:1089-1158).
THEOREM RemovalIsChecked == Spec => RemovedIsChecked
  <1>1. ASSUME TypeOK, ChecksLeft(Updating), [Next]_vars, pc = "removing", pc' = "adding",
               NEW n \in DOMAIN config \ DOMAIN target, NEW i \in DOMAIN DeleteConstraints[n]
        PROVE  <<n, DeleteConstraints[n][i]>> \in passed
    <2> USE <1>1
    <2>1. RemoveXPathReference
      <3>1. ~Refuse
        BY DEF Refuse, Loading
      <3>2. ~NextNode /\ ~StillReferenced /\ ~NoParent
        BY <3>1 DEF NextNode, StillReferenced, NoParent, callVars
      <3>3. ~Validate
        BY <3>1, HandleChanges DEF Validate, BeginConstraint, ConstraintMet, ConstraintFailed, callVars
      <3>4. pc' # pc
        OBVIOUS
      <3> QED
        BY <3>2, <3>3, <3>4
        DEF Next, vars, callVars, Start, Restart, Loaded, Update, LoadAdded, Accept, NodeDone
    <2>2. nodes = {} /\ Between
      BY <2>1 DEF RemoveXPathReference
    <2>3. n \in ToMeet /\ ConstraintsOf(n) = DeleteConstraints[n]
      BY GoneAreRemoved DEF ToMeet, ConstraintsOf, Loading
    <2> QED
      BY <2>2, <2>3, AllChecked DEF Updating
  <1>2. TypeOK /\ ChecksLeft(Updating) /\ [Next]_vars
          => [pc = "removing" /\ pc' = "adding" =>
                 \A n \in DOMAIN config \ DOMAIN target : \A i \in DOMAIN DeleteConstraints[n] :
                     <<n, DeleteConstraints[n][i]>> \in passed]_vars
    BY <1>1
  <1> QED
    BY <1>2, UpdatesLeft, TypeCorrect, PTL DEF Spec, RemovedIsChecked

-----------------------------------------------------------------------------
(***************************************************************************)
(* The tree that an update is checked in.                                  *)
(***************************************************************************)

\* What LoadAdded puts together has what the target has, and has all of it where
\* a path is part of an xpath only as its beginning.
LEMMA LoadedAdded ==
  ASSUME TypeOK, LoadAdded
  PROVE  /\ \A n \in Tree' : n \in DOMAIN target /\ root'[n] = target[n]
         /\ (\A m, p \in Paths : HasSubstring(m, p) => IsPrefix(p, m)) => Tree' = DOMAIN target
  <1>1. root' = [n \in Remaining \cup Reloaded |-> IF n \in Reloaded THEN target[n] ELSE config[n]]
    BY DEF LoadAdded
  <1>2. Tree' = Remaining \cup Reloaded
    BY <1>1 DEF Tree
  <1>3. ASSUME NEW n \in Tree'
        PROVE  n \in DOMAIN target /\ root'[n] = target[n]
    <2>1. CASE n \in Reloaded
      BY <1>1, <1>2, <2>1 DEF Reloaded, Below
    <2>2. CASE n \notin Reloaded
      <3>1. n \in Remaining /\ n \in DOMAIN config /\ root'[n] = config[n]
        BY <1>1, <1>2, <2>2 DEF Remaining
      <3>2. n \in DOMAIN target
        BY <3>1, GoneAreRemoved DEF Remaining
      <3>3. config[n] = target[n]
        <4> SUFFICES ASSUME config[n] # target[n] PROVE FALSE
          OBVIOUS
        <4>1. n \in Added
          BY <3>1, <3>2, TreesOfCall DEF Added, AddedPaths
        <4>2. IsPrefix(n, n)
          BY <3>2, TreesOfCall, PrefixIs
        <4> QED
          BY <2>2, <3>2, <4>1, <4>2, BelowAdded
      <3> QED
        BY <3>1, <3>2, <3>3
    <2> QED
      BY <2>1, <2>2
  <1>4. ASSUME \A m, p \in Paths : HasSubstring(m, p) => IsPrefix(p, m), NEW n \in DOMAIN target
        PROVE  n \in Tree'
    <2>1. CASE n \in DOMAIN config
      <3>1. ASSUME NEW m \in Removed, IsPrefix(m, n) PROVE FALSE
        <4>1. PICK p \in RemovedPaths(config, target) : HasSubstring(m, p)
          BY DEF Removed, Doomed
        <4>2. m \in DOMAIN config /\ p \in DOMAIN config \ DOMAIN target
          BY DEF Removed, Doomed, RemovalTree, RemovedPaths
        <4>3. IsPrefix(p, m)
          BY <1>4, <4>1, <4>2, PathsOfConfigs DEF TypeOK
        <4>4. IsPrefix(p, n)
          BY <3>1, <4>2, <4>3, PrefixOfPrefix, TreesOfCall
        <4> QED
          BY <4>2, <4>4, PrefixInTree, TreesOfCall
      <3> QED
        BY <1>2, <2>1, <3>1 DEF Remaining
    <2>2. CASE n \notin DOMAIN config
      <3>1. PICK p \in DOMAIN target \ DOMAIN config :
                p # <<>> /\ Parent(p) \in DOMAIN config /\ IsPrefix(p, n)
        BY <2>2, FirstMissing, TreesOfCall
      <3>2. p \in Added
        BY <3>1 DEF Added, AddedPaths
      <3> QED
        BY <1>2, <3>1, <3>2, BelowAdded
    <2> QED
      BY <2>1, <2>2
  <1> QED
    BY <1>3, <1>4

LEMMA TreeStays ==
  ASSUME TypeOK, [Next]_vars, pc' = "updating"
  PROVE  LoadAdded \/ UNCHANGED <<pc, target, root>>
  <1>1. ~Refuse
    BY DEF Refuse
  <1>2. CASE NextNode \/ StillReferenced \/ NoParent
    BY <1>1, <1>2 DEF NextNode, StillReferenced, NoParent, callVars
  <1>3. CASE Validate \/ UNCHANGED vars
    BY <1>1, <1>3, HandleChanges
    DEF Validate, BeginConstraint, ConstraintMet, ConstraintFailed, callVars, vars
  <1>4. CASE NodeDone
    BY <1>4 DEF NodeDone
  <1>5. CASE Start \/ Restart \/ Loaded \/ Update \/ RemoveXPathReference \/ Accept
    BY <1>5 DEF Start, Restart, Loaded, Update, RemoveXPathReference, Accept
  <1> QED
    BY <1>2, <1>3, <1>4, <1>5 DEF Next

\* Nothing that was to go, and no value from before, is left in the tree in which
\* the constraints of an update are evaluated (config.cpp:1330-1391).
THEOREM TreeIsFresh == Spec => []NothingStale
  <1>1. Init => NothingStale
    BY DEF Init, NothingStale
  <1>2. TypeOK /\ NothingStale /\ [Next]_vars => NothingStale'
    <2> SUFFICES ASSUME TypeOK, NothingStale, [Next]_vars, pc' = "updating", NEW p \in Tree'
                 PROVE  p \in DOMAIN target' /\ root'[p] = target'[p]
      BY DEF NothingStale
    <2>1. CASE LoadAdded
      BY <2>1, LoadedAdded DEF LoadAdded
    <2>2. CASE UNCHANGED <<pc, target, root>>
      BY <2>2 DEF NothingStale, Tree
    <2> QED
      BY <2>1, <2>2, TreeStays
  <1> QED
    BY <1>1, <1>2, TypeCorrect, PTL DEF Spec

\* Where the path of a node is part of another's xpath only as its beginning, the
\* tree in which an update is checked is that of the config it leads to
\* (config.cpp:1112 compares substrings, so that otherwise more is removed).
THEOREM TreeIsTarget ==
  ASSUME \A m, p \in Paths : HasSubstring(m, p) => IsPrefix(p, m)
  PROVE  Spec => [](pc = "updating" => Tree = DOMAIN target)
  <1> DEFINE Whole == pc = "updating" => Tree = DOMAIN target
  <1>1. Init => Whole
    BY DEF Init
  <1>2. TypeOK /\ Whole /\ [Next]_vars => Whole'
    <2> SUFFICES ASSUME TypeOK, Whole, [Next]_vars, pc' = "updating"
                 PROVE  Tree' = DOMAIN target'
      OBVIOUS
    <2>1. CASE LoadAdded
      BY <2>1, LoadedAdded DEF LoadAdded
    <2>2. CASE UNCHANGED <<pc, target, root>>
      BY <2>2 DEF Tree
    <2> QED
      BY <2>1, <2>2, TreeStays
  <1> HIDE DEF Whole
  <1>3. Spec => []Whole
    BY <1>1, <1>2, TypeCorrect, PTL DEF Spec
  <1> QED
    BY <1>3 DEF Whole

-----------------------------------------------------------------------------
(***************************************************************************)
(* What is listed is in the tree, and is what select finds.                *)
(***************************************************************************)

\* Whatever is still to be checked is in the tree: of what is removed, nothing
\* that is left is below the node being checked.
InTree ==
    /\ pc \in Loading \cup {"idle"} => root = config
    /\ Closed(Tree)
    /\ nodes \cup ({xpath} \ {<<>>}) \subseteq Tree
    /\ node = xpath
    /\ pc = "removing" /\ xpath # <<>> => \A m \in nodes : ~IsPrefix(xpath, m)

\* The tree of a config, and what an update makes of it, has all parents.
LEMMA ClosedTrees ==
  ASSUME TypeOK
  PROVE  /\ \A c \in Configs : Closed(DOMAIN c)
         /\ \A removed \in SUBSET Paths : Closed(RemovalTree(config, removed))
         /\ (\A p \in Added : Parent(p) \in Remaining \cup Reloaded)
               => Closed(Remaining \cup Reloaded)
  <1>0. /\ Paths \subseteq Seq(DOMAIN Rank)
        /\ DOMAIN config \subseteq Paths /\ DOMAIN target \subseteq Paths
    BY PathsOfConfigs, ConfigsAssumption DEF TypeOK
  <1>1. \A c \in Configs : Closed(DOMAIN c)
    BY ConfigsAssumption DEF Closed
  <1>2. ASSUME NEW removed \in SUBSET Paths
        PROVE  Closed(RemovalTree(config, removed))
    <2>1. SUFFICES ASSUME NEW n \in RemovalTree(config, removed) \ {<<>>}
                   PROVE  Parent(n) \in RemovalTree(config, removed)
      BY DEF Closed
    <2>2. n \in DOMAIN config /\ n \in Seq(DOMAIN Rank) \ {<<>>} /\ Parent(n) \in DOMAIN config
      BY <1>0, <1>1 DEF RemovalTree, Closed, TypeOK
    <2>3. PICK p \in removed : n[1] = p[1]
      BY DEF RemovalTree
    <2>4. CASE Parent(n) = <<>>
      BY <2>2, <2>4 DEF RemovalTree
    <2>5. CASE Parent(n) # <<>>
      <3>1. Len(Parent(n)) \in Nat \ {0} /\ Len(Parent(n)) = Len(n) - 1
        BY <2>2, <2>5, ParentIs, EmptySeq
      <3>2. Parent(n)[1] = n[1]
        BY <2>2, <3>1, ParentIs
      <3> QED
        BY <2>2, <2>3, <3>2 DEF RemovalTree
    <2> QED
      BY <2>4, <2>5
  <1>3. ASSUME \A p \in Added : Parent(p) \in Remaining \cup Reloaded
        PROVE  Closed(Remaining \cup Reloaded)
    <2>1. SUFFICES ASSUME NEW n \in (Remaining \cup Reloaded) \ {<<>>}
                   PROVE  Parent(n) \in Remaining \cup Reloaded
      BY DEF Closed
    <2>2. CASE n \in Remaining
      <3>1. n \in DOMAIN config /\ n \in Seq(DOMAIN Rank) \ {<<>>} /\ Parent(n) \in DOMAIN config
        BY <1>0, <1>1, <2>1, <2>2 DEF Remaining, Closed, TypeOK
      <3>2. ASSUME NEW p \in Removed, IsPrefix(p, Parent(n)) PROVE FALSE
        <4>1. p \in Seq(DOMAIN Rank)
          BY <1>0 DEF Removed, Doomed, RemovalTree
        <4>2. IsPrefix(p, n)
          BY <3>1, <3>2, <4>1, ParentBelow
        <4> QED
          BY <2>2, <4>2 DEF Remaining
      <3> QED
        BY <3>1, <3>2 DEF Remaining
    <2>3. CASE n \in Reloaded
      <3>1. PICK p \in Added : n \in DOMAIN target /\ IsStrictPrefix(Parent(p), n)
        BY <2>3 DEF Reloaded, Below
      <3>2. /\ p \in Seq(DOMAIN Rank) \ {<<>>} /\ n \in Seq(DOMAIN Rank) \ {<<>>}
            /\ Parent(n) \in DOMAIN target /\ Parent(p) \in Seq(DOMAIN Rank)
        <4>1. p \in DOMAIN target \ {<<>>}
          BY DEF Added, AddedPaths
        <4> QED
          BY <1>0, <1>1, <2>1, <3>1, <4>1, ParentIs DEF Closed, TypeOK
      <3>3. Parent(p) = Parent(n) \/ IsStrictPrefix(Parent(p), Parent(n))
        BY <3>1, <3>2, ParentBelow
      <3> QED
        BY <1>3, <3>2, <3>3 DEF Reloaded, Below
    <2> QED
      BY <2>2, <2>3
  <1> QED
    BY <1>1, <1>2, <1>3

\* What is still to be checked stays in the tree.
LEMMA InTreeStep ==
  ASSUME "value" \notin DOMAIN Rank, TypeOK, InTree, [Next]_vars
  PROVE  InTree'
  <1>0. /\ \A c \in Configs : Closed(DOMAIN c)
        /\ \A removed \in SUBSET Paths : Closed(RemovalTree(config, removed))
        /\ (\A p \in Added : Parent(p) \in Remaining \cup Reloaded)
               => Closed(Remaining \cup Reloaded)
        /\ Paths \subseteq Seq(DOMAIN Rank) /\ config \in Configs
    BY ClosedTrees, ConfigsAssumption DEF TypeOK
  <1>1. ASSUME Refuse PROVE InTree'
    <2>1. Closed(DOMAIN NoTree)
      BY DEF NoTree, Closed
    <2> QED
      BY <1>0, <1>1, <2>1 DEF Refuse, Reset, InTree, Tree, Loading
  <1>2. CASE Start \/ Restart
    BY <1>0, <1>2 DEF Start, Restart, InTree, Tree, Loading, Between, TypeOK, checkVars
  <1>3. CASE Loaded \/ RemoveXPathReference
    BY <1>3 DEF Loaded, RemoveXPathReference, InTree, Tree, Loading, Between, checkVars
  <1>4. CASE Update
    <2>1. PICK to \in Configs :
              /\ root' = [p \in RemovalTree(config, RemovedPaths(config, to)) |-> config[p]]
              /\ nodes' = Doomed(config, RemovedPaths(config, to))
      BY <1>4 DEF Update
    <2>2. RemovedPaths(config, to) \in SUBSET Paths
      BY PathsOfConfigs DEF RemovedPaths, TypeOK
    <2>3. Closed(Tree)' /\ nodes' \subseteq Tree'
      BY <1>0, <2>1, <2>2 DEF Tree, Doomed
    <2>4. xpath' = <<>> /\ node' = <<>> /\ pc' = "removing"
      BY <1>4 DEF Update, checkVars, TypeOK, Between, InTree
    <2> QED
      BY <2>3, <2>4 DEF InTree, Loading
  <1>5. CASE LoadAdded
    <2>1. Closed(Tree)' /\ nodes' \subseteq Tree'
      BY <1>0, <1>5 DEF LoadAdded, Tree, Touched
    <2>2. xpath' = <<>> /\ node' = <<>> /\ pc' = "updating"
      BY <1>5 DEF LoadAdded, checkVars, TypeOK, Between, InTree
    <2> QED
      BY <2>1, <2>2 DEF InTree, Loading
  <1>6. CASE Accept
    BY <1>0, <1>6 DEF Accept, InTree, Tree, Loading, Between, TypeOK, checkVars
  <1>7. CASE NextNode
    <2>1. PICK n \in Ready :
              \/ /\ xpath' = n /\ node' \in Select(Tree, n) /\ nodes' = nodes \ {n}
                 /\ UNCHANGED <<callVars, evaluating, parseVars, histVars>>
              \/ nodes' = nodes \ {n} /\ UNCHANGED <<callVars, checkVars, parseVars, histVars>>
              \/ Refuse
      BY <1>7 DEF NextNode
    <2>2. n \in nodes /\ n \in Tree \ {<<>>} /\ Tree \in SUBSET Seq(DOMAIN Rank)
      BY <1>0 DEF Ready, FirstOf, InTree, TypeOK
    <2>3. CASE /\ xpath' = n /\ node' \in Select(Tree, n) /\ nodes' = nodes \ {n}
               /\ UNCHANGED <<callVars, evaluating, parseVars, histVars>>
      <3>1. Select(Tree, n) = {n}
        BY <2>2, SelectsPath DEF InTree, Closed
      <3>2. ASSUME pc = "removing", NEW m \in nodes, m # n, IsPrefix(n, m) PROVE FALSE
        BY <2>2, <3>2 DEF Ready, Below, IsStrictPrefix
      <3> QED
        BY <2>2, <2>3, <3>1, <3>2 DEF InTree, Tree, callVars
    <2>4. CASE nodes' = nodes \ {n} /\ UNCHANGED <<callVars, checkVars, parseVars, histVars>>
      BY <2>4 DEF InTree, Tree, callVars, checkVars
    <2> QED
      BY <1>1, <2>1, <2>3, <2>4
  <1>8. CASE NodeDone
    <2>1. /\ xpath' = <<>> /\ node' = <<>> /\ UNCHANGED <<pc, config, nodes>> /\ xpath # <<>>
          /\ root' = IF pc = "removing"
                     THEN [p \in Tree \ ({xpath} \cup Below(Tree, xpath)) |-> root[p]]
                     ELSE root
      BY <1>8 DEF NodeDone, InTree
    <2>2. CASE pc = "removing"
      <3>1. Tree' = Tree \ ({xpath} \cup Below(Tree, xpath))
        BY <2>1, <2>2 DEF Tree
      <3>2. xpath \in Seq(DOMAIN Rank) /\ Tree \in SUBSET Seq(DOMAIN Rank)
        BY <1>0 DEF TypeOK
      <3>3. \A m \in nodes : m \in Tree /\ m \in Seq(DOMAIN Rank) \ {<<>>} /\ ~IsPrefix(xpath, m)
        BY <2>1, <2>2, <3>2 DEF InTree, TypeOK
      <3>4. nodes \subseteq Tree'
        BY <3>1, <3>2, <3>3, ParentBelow DEF Below
      <3>5. ASSUME NEW m \in Tree' \ {<<>>} PROVE Parent(m) \in Tree'
        <4>1. m \in Tree /\ m \in Seq(DOMAIN Rank) \ {<<>>} /\ Parent(m) \in Tree
          BY <3>1, <3>2 DEF InTree, Closed
        <4>2. ~IsStrictPrefix(xpath, m)
          BY <3>1, <4>1 DEF Below
        <4>3. xpath # Parent(m) /\ ~IsStrictPrefix(xpath, Parent(m))
          BY <3>2, <4>1, <4>2, ParentBelow
        <4> QED
          BY <3>1, <4>1, <4>3 DEF Below
      <3> QED
        BY <2>1, <2>2, <3>4, <3>5 DEF InTree, Closed, Loading
    <2>3. CASE pc # "removing"
      BY <2>1, <2>3 DEF InTree, Tree
    <2> QED
      BY <2>2, <2>3
  <1>9. CASE StillReferenced \/ NoParent \/ ConstraintFailed
    BY <1>1, <1>9 DEF StillReferenced, NoParent, ConstraintFailed
  <1>10. CASE BeginConstraint \/ ConstraintMet \/ Handle \/ UNCHANGED vars
    <2>1. UNCHANGED <<pc, config, root, nodes, xpath, node>>
      BY <1>10, HandleChanges DEF BeginConstraint, ConstraintMet, vars, callVars, checkVars
    <2> QED
      BY <2>1 DEF InTree, Tree
  <1> QED
    BY <1>2, <1>3, <1>4, <1>5, <1>6, <1>7, <1>8, <1>9, <1>10 DEF Next, Validate

LEMMA TreeInvariant ==
  ASSUME "value" \notin DOMAIN Rank
  PROVE  Spec => []InTree
  <1>1. Init => InTree
    BY DEF Init, InTree, Tree, NoTree, Closed, Loading
  <1>2. TypeOK /\ InTree /\ [Next]_vars => InTree'
    BY InTreeStep
  <1> QED
    BY <1>1, <1>2, TypeCorrect, PTL DEF Spec

\* The node that constraints are evaluated for is the one that is listed
\* (xpath.cpp:14-29, config.cpp:358, 1129 and 1417), for any tree in which no node
\* is called "value".
THEOREM SelectionIsExact ==
  ASSUME "value" \notin DOMAIN Rank
  PROVE  Spec => []SelectsItself
  <1>1. InTree => SelectsItself
    BY DEF InTree, SelectsItself
  <1> QED
    BY <1>1, TreeInvariant, PTL

\* Every node that is listed is found: a removal takes no other listed node with
\* it (config.cpp:1128 reverses the list), so no node is checked in vain.
THEOREM ListedAreFound ==
  ASSUME "value" \notin DOMAIN Rank
  PROVE  Spec => [](\A n \in nodes : Exists(Tree, n))
  <1>1. TypeOK /\ InTree => \A n \in nodes : Exists(Tree, n)
    <2> SUFFICES ASSUME TypeOK, InTree, NEW n \in nodes PROVE Exists(Tree, n)
      OBVIOUS
    <2>1. n \in Tree \ {<<>>} /\ Tree \in SUBSET Seq(DOMAIN Rank)
      BY ConfigsAssumption DEF InTree, TypeOK
    <2>2. Select(Tree, n) = {n}
      BY <2>1, SelectsPath DEF InTree, Closed
    <2> QED
      BY <2>2 DEF Exists
  <1> QED
    BY <1>1, TypeCorrect, TreeInvariant, PTL

LEMMA LoadsLeft ==
  ASSUME "value" \notin DOMAIN Rank
  PROVE  Spec => []ChecksLeft(Loading)
  <1>1. TypeOK /\ (\A n \in nodes : Exists(Tree, n)) /\ ChecksLeft(Loading) /\ [Next]_vars
            => ChecksLeft(Loading)'
    BY ChecksLeftStep
  <1>2. Init => ChecksLeft(Loading)
    BY DEF Init, ChecksLeft, Loading
  <1> QED
    BY <1>1, <1>2, TypeCorrect, ListedAreFound, PTL DEF Spec

\* A load has evaluated every constraint of every node when it ends
\* (config.cpp:358-389): the nodes that it would pass over are none.
THEOREM LoadIsChecked ==
  ASSUME "value" \notin DOMAIN Rank
  PROVE  Spec => LoadedIsChecked
  <1>1. ASSUME TypeOK, ChecksLeft(Loading), [Next]_vars, pc' = "idle", pc \in Loading,
               NEW n \in DOMAIN config \ {<<>>}, NEW i \in DOMAIN UpdateConstraints[n]
        PROVE  <<n, UpdateConstraints[n][i]>> \in passed
    <2> USE <1>1
    <2>1. Loaded
      <3>1. ~Refuse
        BY DEF Refuse, Loading
      <3>2. ~NextNode /\ ~StillReferenced /\ ~NoParent
        BY <3>1 DEF NextNode, StillReferenced, NoParent, callVars, Loading
      <3>3. ~Validate
        BY <3>1, HandleChanges
        DEF Validate, BeginConstraint, ConstraintMet, ConstraintFailed, callVars, Loading
      <3>4. pc' # pc
        BY DEF Loading
      <3> QED
        BY <3>2, <3>3, <3>4
        DEF Next, vars, callVars, Start, Restart, Update, RemoveXPathReference, LoadAdded, Accept,
            NodeDone, Loading
    <2>2. nodes = {} /\ Between
      BY <2>1 DEF Loaded
    <2>3. n \in ToMeet /\ ConstraintsOf(n) = UpdateConstraints[n]
      BY DEF ToMeet, ConstraintsOf, Loading
    <2> QED
      BY <2>2, <2>3, AllChecked
  <1>2. TypeOK /\ ChecksLeft(Loading) /\ [Next]_vars
          => [pc' = "idle" /\ pc \in Loading =>
                 \A n \in DOMAIN config \ {<<>>} : \A i \in DOMAIN UpdateConstraints[n] :
                     <<n, UpdateConstraints[n][i]>> \in passed]_vars
    BY <1>1
  <1> QED
    BY <1>2, LoadsLeft, TypeCorrect, PTL DEF Spec, LoadedIsChecked

=============================================================================
