--------------------- MODULE ConstraintEvaluationProofs ----------------------
(***************************************************************************)
(* Proofs about what the evaluation of a constraint comes to, action by    *)
(* action: "must(exists(xpath(@)))" keeps the references of a config, and  *)
(* "must(count(xpath('...')) == 0)" never refuses a removal.               *)
(***************************************************************************)
EXTENDS ConstraintCheckerProofs

\* How many actions of constraint c were called, if it is the one evaluated, and
\* that those which were not are still to be.
Done(c) == Len(Actions[c]) - Len(rest)
Stands(c) ==
    /\ Done(c) \in 0 .. Len(Actions[c])
    /\ rest = SubSeq(Actions[c], Done(c) + 1, Len(Actions[c]))

\* An action is called and another one comes next.
LEMMA NextAction ==
  ASSUME NEW c \in Constraints, Stands(c), rest # <<>>, rest' = Tail(rest)
  PROVE  /\ Stands(c)' /\ Done(c)' = Done(c) + 1 /\ Done(c) < Len(Actions[c])
         /\ Head(rest) = Actions[c][Done(c) + 1]
  <1> DEFINE A == Actions[c]
             n == Len(A)
             k == Done(c) + 1
  <1>1. PICK S : A \in Seq(S)
    BY ConstraintsAssumption
  <1>2. n \in Nat /\ k \in 1 .. n + 1 /\ rest = SubSeq(A, k, n)
    BY <1>1 DEF Stands
  <1>3. k # n + 1
    BY <1>2, SubSeqEmpty
  <1>4. Head(rest) = A[k] /\ Tail(rest) = SubSeq(A, k + 1, n)
    <2>1. k \in 1 .. n /\ n \in k .. n
      BY <1>2, <1>3
    <2> HIDE DEF A, k
    <2> QED
      BY <1>1, <1>2, <2>1, HeadTailOfSubSeq DEF n
  <1>5. Len(Tail(rest)) = n - k
    <2>1. Len(SubSeq(A, k + 1, n)) = IF k + 1 <= n THEN n - (k + 1) + 1 ELSE 0
      <3>1. \A i \in k + 1 .. n : A[i] \in S
        BY <1>1, <1>2
      <3> HIDE DEF A, k
      <3> QED
        BY <1>1, <1>2, <3>1, SubSeqProperties DEF n
    <2> QED
      BY <1>2, <1>3, <1>4, <2>1
  <1>6. Done(c)' = k
    BY <1>2, <1>3, <1>5 DEF Done
  <1>7. Done(c) \in Int /\ Done(c) < n /\ k \in 0 .. n
    BY <1>2, <1>3 DEF Stands
  <1>8. Stands(c)'
    BY <1>4, <1>6, <1>7 DEF Stands
  <1> QED
    BY <1>4, <1>6, <1>7, <1>8

\* At the beginning no action was called.
LEMMA FirstAction ==
  ASSUME NEW c \in Constraints, rest' = Actions[c]
  PROVE  Stands(c)' /\ Done(c)' = 0
  <1>1. PICK S : Actions[c] \in Seq(S)
    BY ConstraintsAssumption
  <1>2. Len(Actions[c]) \in Nat /\ SubSeq(Actions[c], 1, Len(Actions[c])) = Actions[c]
    BY <1>1
  <1>3. Done(c)' = 0
    BY <1>2 DEF Done
  <1> QED
    BY <1>2, <1>3 DEF Stands

\* The handler that is called, as long as no condition was false.
LEMMA Called ==
  ASSUME Handle
  PROVE  /\ Handler = "MUST" => MustHandle
         /\ continueProcessing =>
               /\ Handler \in {"STRING", "NUMBER", "RELATIVE_OPERATOR"} => TokenHandle
               /\ Handler = "REFERENCE" => ReferenceHandle
               /\ Handler = "XPATH" => XPathHandle
               /\ Handler = "EXISTS" => ExistsHandle
               /\ Handler = "COUNT" => CountHandle
               /\ Handler = "INFIX" => InfixExpressionHandle
  BY DEF Handle, Skipped, TokenHandle, CountHandle, ExistsHandle, InfixExpressionHandle,
         MustHandle, ThenStatementHandle, ReferenceHandle, XPathHandle, XPathValueHandle,
         XPathMatchRegexHandle, XPathAnyHandle, XPathAllHandle, XPathKeyBasedHandle,
         XPathKeyRegexReplaceHandle, XPathValueKeyRegexReplaceHandle, Calls

\* Every handler takes one action from those that are left.
LEMMA HandleReturns ==
  ASSUME Handle
  PROVE  rest' = Tail(rest)
  BY DEF Handle, Skipped, TokenHandle, CountHandle, ExistsHandle, InfixExpressionHandle,
         MustHandle, ThenStatementHandle, ReferenceHandle, XPathHandle, XPathValueHandle,
         XPathMatchRegexHandle, XPathAnyHandle, XPathAllHandle, XPathKeyBasedHandle,
         XPathKeyRegexReplaceHandle, XPathValueKeyRegexReplaceHandle, Yields, Fails, Returns

\* The value of a handler takes the place of the only one, or comes after it.
LEMMA OneValue ==
  ASSUME NEW v, NEW w
  PROVE  /\ SubSeq(<<v>>, 1, 0) = <<>> /\ SubSeq(<<v>>, 1, 1) = <<v>>
         /\ Append(<<>>, w) = <<w>> /\ SubSeq(<<>>, 1, 0) = <<>>
  <1>1. <<v>> \in Seq({v}) /\ <<>> \in Seq({v}) /\ Len(<<v>>) = 1
    OBVIOUS
  <1>2. SubSeq(<<v>>, 1, 0) = <<>> /\ SubSeq(<<>>, 1, 0) = <<>>
    BY EmptySeq
  <1>3. SubSeq(<<v>>, 1, 1) = <<v>>
    <2>1. SubSeq(<<v>>, 1, Len(<<v>>)) = <<v>>
      BY <1>1, SubSeqFull
    <2> QED
      BY <1>1, <2>1
  <1>4. Append(<<>>, w) = <<w>>
    OBVIOUS
  <1> QED
    BY <1>2, <1>3, <1>4

LEMMA MoreValues ==
  ASSUME NEW u, NEW v, NEW w
  PROVE  Append(<<u>>, v) = <<u, v>> /\ Append(<<u, v>>, w) = <<u, v, w>>
  <1> DEFINE S == {u, v, w}
  <1>1. <<u>> \in Seq(S) /\ <<u, v>> \in Seq(S) /\ <<u, v, w>> \in Seq(S)
    OBVIOUS
  <1>2. Append(<<u>>, v) = <<u, v>>
    <2> DEFINE s == Append(<<u>>, v)
    <2>1. s \in Seq(S) /\ Len(s) = 2 /\ s[1] = u /\ s[2] = v
      BY <1>1
    <2> HIDE DEF s
    <2>2. \A i \in 1 .. Len(s) : s[i] = <<u, v>>[i]
      <3>1. \A i \in 1 .. 2 : i = 1 \/ i = 2
        OBVIOUS
      <3> QED
        BY <2>1, <3>1
    <2>3. s = <<u, v>>
      BY <1>1, <2>1, <2>2, SeqEqual
    <2> QED
      BY <2>3 DEF s
  <1>3. Append(<<u, v>>, w) = <<u, v, w>>
    <2> DEFINE s == Append(<<u, v>>, w)
    <2>1. s \in Seq(S) /\ Len(s) = 3 /\ s[1] = u /\ s[2] = v /\ s[3] = w
      BY <1>1
    <2> HIDE DEF s
    <2>2. \A i \in 1 .. Len(s) : s[i] = <<u, v, w>>[i]
      <3>1. \A i \in 1 .. 3 : i = 1 \/ i = 2 \/ i = 3
        OBVIOUS
      <3> QED
        BY <2>1, <3>1
    <2>3. s = <<u, v, w>>
      BY <1>1, <2>1, <2>2, SeqEqual
    <2> QED
      BY <2>3 DEF s
  <1> QED
    BY <1>2, <1>3

\* A handler that reads the only value.
LEMMA Replaces ==
  ASSUME NEW v, Returns(v), values = <<values[1]>>, Arity(Handler) = 1
  PROVE  values' = <<v>> /\ Arg(1) = values[1]
  <1>1. Len(values) = 1
    OBVIOUS
  <1>2. values' = Append(SubSeq(values, 1, 0), v)
    BY <1>1 DEF Returns
  <1>3. SubSeq(values, 1, 0) = <<>>
    BY OneValue
  <1>4. values' = <<v>>
    BY <1>2, <1>3, OneValue
  <1>5. Arg(1) = values[1]
    BY <1>1 DEF Arg
  <1> QED
    BY <1>4, <1>5

-----------------------------------------------------------------------------
(***************************************************************************)
(* "must(exists(xpath(@)))".                                               *)
(***************************************************************************)

\* The node s has a target among the nodes of the tree.
HasTarget(tree, s) == \E i \in DOMAIN References[s] : Exists(tree, RefXPath(s, References[s][i]))

\* What each action leaves: the xpath of a target, the target, that there is one.
TargetInv(c) ==
    /\ Stands(c)
    /\ rest # <<>> => continueProcessing /\ ~expressionResult
    /\ Done(c) = 0 => values = <<>>
    /\ Done(c) \in 1 .. 3 => values = <<values[1]>>
    /\ Done(c) = 1 /\ values[1].val # <<>> => HasTarget(Tree, xpath)
    /\ Done(c) = 2 /\ values[1].val # {} => HasTarget(Tree, xpath)
    /\ Done(c) = 3 /\ values[1] = Bool(TRUE) => HasTarget(Tree, xpath)
    /\ expressionResult => HasTarget(Tree, xpath)

\* The actions are four, and these.
LEMMA TargetActions ==
  ASSUME NEW c \in Constraints, AsksForTarget(c)
  PROVE  /\ Len(Actions[c]) = 4
         /\ Actions[c][1].handler = "REFERENCE" /\ Actions[c][2].handler = "XPATH"
         /\ Actions[c][3].handler = "EXISTS" /\ Actions[c][4].handler = "MUST"
  <1>1. DOMAIN Actions[c] = 1 .. Len(Actions[c]) /\ Len(Actions[c]) \in Nat
    BY ConstraintsAssumption
  <1>2. HandlersOf(c) = <<"REFERENCE", "XPATH", "EXISTS", "MUST">>
    BY DEF AsksForTarget
  <1>3. DOMAIN HandlersOf(c) = DOMAIN Actions[c]
    BY DEF HandlersOf
  <1>4. DOMAIN HandlersOf(c) = 1 .. 4
    BY <1>2
  <1>5. Len(Actions[c]) = 4
    BY <1>1, <1>3, <1>4
  <1>6. \A i \in 1 .. 4 : HandlersOf(c)[i] = Actions[c][i].handler
    BY <1>3, <1>4 DEF HandlersOf
  <1> QED
    BY <1>2, <1>5, <1>6

\* An action of this constraint is called.
LEMMA TargetStep ==
  ASSUME Handle, NEW c \in Constraints, AsksForTarget(c), TargetInv(c),
         node = xpath, xpath \in Paths
  PROVE  TargetInv(c)'
  <1>1. /\ Stands(c)' /\ Done(c)' = Done(c) + 1 /\ Done(c) < 4 /\ Done(c) \in 0 .. 4
        /\ Head(rest) = Actions[c][Done(c) + 1]
    BY NextAction, HandleReturns, HandleChanges, TargetActions DEF TargetInv, Stands
  <1>2. UNCHANGED <<xpath, root>> /\ (HasTarget(Tree, xpath)' <=> HasTarget(Tree, xpath))
    BY HandleChanges DEF callVars, checkVars, HasTarget, Tree
  <1>3. rest' # <<>> => Done(c) # 3
    <2>1. Len(Actions[c]) = 4
      BY TargetActions
    <2>2. Done(c) = 3 => rest' = SubSeq(Actions[c], 5, 4)
      BY <1>1, <2>1 DEF Stands
    <2>3. SubSeq(Actions[c], 5, 4) = <<>>
      <3>1. PICK S : Actions[c] \in Seq(S)
        BY ConstraintsAssumption
      <3> QED
        BY <2>1, <3>1
    <2> QED
      BY <2>2, <2>3
  <1>4. continueProcessing /\ ~expressionResult
    BY HandleChanges DEF TargetInv
  <1>5. CASE Done(c) = 0
    <2>1. ReferenceHandle /\ Handler = "REFERENCE" /\ values = <<>>
      BY <1>1, <1>4, <1>5, Called, TargetActions DEF Handler, TargetInv
    <2> DEFINE first == SelectInSeq(References[node],
                            LAMBDA ref : Exists(Tree, RefXPath(node, ref)))
               v == IF first = 0 THEN <<>> ELSE RefXPath(node, References[node][first])
    <2>2. Yields(String(v))
      BY <2>1 DEF ReferenceHandle
    <2> HIDE DEF v
    <2>3. values' = <<String(v)>> /\ UNCHANGED <<continueProcessing, expressionResult>>
      <3>1. Arity(Handler) = 0
        BY <2>1 DEF Arity
      <3>2. values' = Append(SubSeq(values, 1, Len(values) - 0), String(v))
        BY <2>2, <3>1 DEF Yields, Returns
      <3>3. Len(values) - 0 = 0
        BY <2>1
      <3> QED
        BY <2>1, <2>2, <3>2, <3>3, OneValue DEF Yields
    <2>4. v # <<>> => HasTarget(Tree, xpath)
      <3>1. SUFFICES ASSUME first # 0 PROVE HasTarget(Tree, xpath)
        BY DEF v
      <3> DEFINE I == {i \in 1 .. Len(References[node]) :
                          Exists(Tree, RefXPath(node, References[node][i]))}
      <3>2. first = (IF I # {} THEN Min(I) ELSE 0)
        BY DEF SelectInSeq
      <3>3. I # {}
        BY <3>1, <3>2
      <3>4. PICK i \in 1 .. Len(References[node]) :
                Exists(Tree, RefXPath(node, References[node][i]))
        BY <3>3
      <3>5. i \in DOMAIN References[node]
        BY ConstraintsAssumption
      <3> QED
        BY <3>4, <3>5 DEF HasTarget
    <2>5. values'[1].val = v
      BY <2>3 DEF String, Value
    <2> QED
      BY <1>1, <1>2, <1>4, <1>5, <2>3, <2>4, <2>5 DEF TargetInv
  <1>6. CASE Done(c) = 1
    <2>1. /\ XPathHandle /\ Handler = "XPATH" /\ values = <<values[1]>>
          /\ values[1].val # <<>> => HasTarget(Tree, xpath)
      BY <1>1, <1>4, <1>6, Called, TargetActions DEF Handler, TargetInv
    <2>2. Arity(Handler) = 1
      BY <2>1 DEF Arity
    <2>3. PICK x : Yields(XPaths(IF Arg(1).val # <<>> /\ Exists(Tree, x) THEN {x} ELSE {}))
      BY <2>1 DEF XPathHandle
    <2> DEFINE v == IF Arg(1).val # <<>> /\ Exists(Tree, x) THEN {x} ELSE {}
    <2>4. Yields(XPaths(v))
      BY <2>3
    <2>5. v # {} => Arg(1).val # <<>>
      OBVIOUS
    <2> HIDE DEF v
    <2>6. /\ values' = <<XPaths(v)>> /\ Arg(1) = values[1]
          /\ UNCHANGED <<continueProcessing, expressionResult>>
      BY <2>1, <2>2, <2>4, Replaces DEF Yields
    <2>7. values'[1].val = v
      BY <2>6 DEF XPaths, Value
    <2> QED
      BY <1>1, <1>2, <1>4, <1>6, <2>1, <2>5, <2>6, <2>7 DEF TargetInv
  <1>7. CASE Done(c) = 2
    <2>1. /\ ExistsHandle /\ Handler = "EXISTS" /\ values = <<values[1]>>
          /\ values[1].val # {} => HasTarget(Tree, xpath)
      BY <1>1, <1>4, <1>7, Called, TargetActions DEF Handler, TargetInv
    <2>2. Arity(Handler) = 1 /\ Default(Handler) = Bool(FALSE)
      BY <2>1 DEF Arity, Default
    <2>3. PICK b \in BOOLEAN :
              /\ b => Arg(1).val # {}
              /\ Returns(Bool(b)) /\ continueProcessing' = continueProcessing
              /\ expressionResult' => expressionResult
      <3>1. CASE Arg(1).type = "xpaths"
        <4> DEFINE b == \E x \in Arg(1).val : Exists(Tree, x)
        <4>1. Yields(Bool(b)) /\ b \in BOOLEAN /\ (b => Arg(1).val # {})
          BY <2>1, <3>1 DEF ExistsHandle
        <4> HIDE DEF b
        <4> QED
          BY <4>1 DEF Yields
      <3>2. CASE Arg(1).type # "xpaths"
        BY <2>1, <2>2, <3>2 DEF ExistsHandle, Fails
      <3> QED
        BY <3>1, <3>2
    <2>4. values' = <<Bool(b)>> /\ Arg(1) = values[1]
      BY <2>1, <2>2, <2>3, Replaces
    <2>5. values'[1] = Bool(TRUE) => b
      BY <2>4 DEF Bool, Value
    <2>6. values'[1] = Bool(TRUE) => HasTarget(Tree, xpath)
      BY <2>1, <2>3, <2>4, <2>5
    <2>7. /\ values' = <<values'[1]>> /\ ~expressionResult'
          /\ continueProcessing' = continueProcessing
      BY <1>4, <2>3, <2>4
    <2> QED
      <3>1. Done(c)' = 3 /\ Stands(c)'
        BY <1>1, <1>7
      <3>2. (Done(c) = 3 /\ values[1] = Bool(TRUE) => HasTarget(Tree, xpath))'
        BY <1>2, <2>6
      <3> QED
        <4>1. (rest # <<>> => continueProcessing /\ ~expressionResult)'
          BY <1>4, <2>7
        <4>2. (Done(c) # 0 /\ Done(c) # 1 /\ Done(c) # 2)'
          BY <3>1
        <4>3. ~expressionResult'
          BY <2>7
        <4>4. values' = <<values'[1]>>
          BY <2>7
        <4> QED
          BY <3>1, <3>2, <4>1, <4>2, <4>3, <4>4, Zenon DEF TargetInv
  <1>8. CASE Done(c) = 3
    <2>1. /\ MustHandle /\ Handler = "MUST" /\ values = <<values[1]>>
          /\ values[1] = Bool(TRUE) => HasTarget(Tree, xpath)
      <3>1. Handler = "MUST"
        BY <1>1, <1>8, TargetActions DEF Handler
      <3>2. MustHandle
        BY <3>1, Called
      <3> QED
        BY <1>8, <3>1, <3>2 DEF TargetInv, Bool, Value
    <2>2. Arity(Handler) = 1
      BY <2>1 DEF Arity
    <2>3. Arg(1) = values[1]
      <3>1. Len(values) = 1
        BY <2>1
      <3> QED
        BY <2>2, <3>1 DEF Arg
    <2>4. expressionResult' => Arg(1) = Bool(TRUE)
      BY <1>4, <2>1 DEF MustHandle
    <2>5. rest' = <<>>
      BY <1>3, <1>8
    <2>6. expressionResult' => HasTarget(Tree, xpath)
      BY <2>1, <2>3, <2>4
    <2> QED
      BY <1>1, <1>2, <1>8, <2>5, <2>6 DEF TargetInv
  <1> QED
    BY <1>1, <1>5, <1>6, <1>7, <1>8

-----------------------------------------------------------------------------
(***************************************************************************)
(* Whose references have a target.                                         *)
(***************************************************************************)

\* Between two constraints nothing is left of an evaluation.
IdleInv ==
    ~evaluating => /\ rest = <<>> /\ values = <<>>
                   /\ continueProcessing /\ ~expressionResult

\* A step is one of the evaluation, or there is none.
LEMMA EvaluationSteps ==
  ASSUME TypeOK, IdleInv, [Next]_vars
  PROVE  \/ Handle
         \/ BeginConstraint
         \/ ~evaluating' /\ IdleInv'
         \/ UNCHANGED vars
  <1>1. CASE Refuse
    BY <1>1 DEF Refuse, Reset, IdleInv
  <1>2. CASE Start \/ Restart \/ Loaded \/ Update \/ RemoveXPathReference \/ LoadAdded \/ Accept
    <2>1. ~evaluating
      BY <1>2
      DEF Start, Restart, Loaded, Update, RemoveXPathReference, LoadAdded, Accept, TypeOK, Between
    <2>2. UNCHANGED <<checkVars, parseVars>>
      BY <1>2 DEF Start, Restart, Loaded, Update, RemoveXPathReference, LoadAdded, Accept
    <2> QED
      BY <2>1, <2>2 DEF checkVars, parseVars, IdleInv
  <1>3. CASE NextNode /\ ~Refuse
    <2>1. ~evaluating /\ UNCHANGED <<evaluating, parseVars>>
      BY <1>3 DEF NextNode, Between, checkVars
    <2> QED
      BY <2>1 DEF parseVars, IdleInv
  <1>4. CASE NodeDone
    BY <1>4 DEF NodeDone, parseVars, IdleInv
  <1>5. CASE ConstraintMet
    BY <1>5 DEF ConstraintMet, Evaluated, IdleInv
  <1>6. CASE StillReferenced \/ NoParent \/ ConstraintFailed
    BY <1>1, <1>6 DEF StillReferenced, NoParent, ConstraintFailed
  <1> QED
    BY <1>1, <1>2, <1>3, <1>4, <1>5, <1>6 DEF Next, Validate

\* Whenever a reference is asked for, the values on the stack say whether it has a
\* target.
AskInv ==
    /\ IdleInv
    /\ evaluating /\ AsksForTarget(Head(constraints)) => TargetInv(Head(constraints))

LEMMA AskStep ==
  ASSUME TypeOK, InTree, AskInv, [Next]_vars
  PROVE  AskInv'
  <1>1. CASE Handle
    <2>1. UNCHANGED <<constraints, evaluating>> /\ evaluating /\ node = xpath
      BY <1>1, HandleChanges DEF checkVars, InTree
    <2>2. Head(constraints) \in Constraints /\ xpath \in Paths
      BY <2>1 DEF TypeOK
    <2> QED
      BY <1>1, <2>1, <2>2, TargetStep DEF AskInv, IdleInv
  <1>2. CASE BeginConstraint
    <2>1. PICK c \in Constraints : c = Head(constraints)
      BY <1>2 DEF BeginConstraint, TypeOK
    <2>2. /\ UNCHANGED <<constraints, values, continueProcessing, expressionResult>>
          /\ evaluating' /\ ~evaluating /\ rest' = Actions[c]
      BY <1>2, <2>1 DEF BeginConstraint
    <2>3. Stands(c)' /\ Done(c)' = 0
      BY <2>2, FirstAction
    <2>4. values' = <<>> /\ continueProcessing' /\ ~expressionResult'
      BY <2>2 DEF AskInv, IdleInv
    <2>5. TargetInv(c)'
      BY <2>3, <2>4 DEF TargetInv
    <2>6. Head(constraints)' = c
      BY <2>1, <2>2
    <2> QED
      BY <2>2, <2>5, <2>6 DEF AskInv, IdleInv
  <1>3. CASE ~evaluating' /\ IdleInv'
    BY <1>3 DEF AskInv
  <1>4. CASE UNCHANGED vars
    <2>1. UNCHANGED <<evaluating, constraints, xpath, root, rest, values, continueProcessing, expressionResult>>
      BY <1>4 DEF vars, checkVars, parseVars, callVars
    <2> QED
      BY <2>1 DEF AskInv, IdleInv, TargetInv, Stands, Done, HasTarget, Tree
  <1> QED
    BY <1>1, <1>2, <1>3, <1>4, EvaluationSteps DEF AskInv

\* A constraint that asks for a target is met only by a node that has one.
PassedInv ==
    pc \in Loading \cup {"updating"} =>
        \A w \in passed : AsksForTarget(w[2]) => HasTarget(Tree, w[1])

LEMMA PassedStep ==
  ASSUME TypeOK, AskInv, PassedInv, [Next]_vars
  PROVE  PassedInv'
  <1> SUFFICES ASSUME pc' \in Loading \cup {"updating"}
               PROVE  \A w \in passed' : AsksForTarget(w[2]) => HasTarget(Tree, w[1])'
    BY DEF PassedInv
  <1>0. ~Refuse
    BY DEF Refuse, Loading
  <1>1. CASE Start \/ Restart \/ LoadAdded
    <2>1. passed' = {}
      BY <1>1 DEF Start, Restart, LoadAdded, TypeOK
    <2> QED
      BY <2>1
  <1>2. CASE ConstraintMet
    <2>1. /\ passed' = passed \cup {<<xpath, Head(constraints)>>} /\ UNCHANGED <<pc, root>>
          /\ evaluating /\ expressionResult
      BY <1>2 DEF ConstraintMet, Evaluated, callVars
    <2>2. AsksForTarget(Head(constraints)) => HasTarget(Tree, xpath)
      BY <2>1 DEF AskInv, TargetInv
    <2>3. ASSUME NEW w \in passed', AsksForTarget(w[2]) PROVE HasTarget(Tree, w[1])
      BY <2>1, <2>2, <2>3 DEF PassedInv
    <2> QED
      BY <2>1, <2>3 DEF HasTarget, Tree
  <1>3. CASE UNCHANGED <<pc, root, passed>>
    BY <1>3 DEF PassedInv, HasTarget, Tree
  <1>4. CASE NextNode \/ NodeDone
    <2>1. UNCHANGED <<pc, root, passed>>
      BY <1>0, <1>4 DEF NextNode, NodeDone, callVars, histVars, Loading
    <2> QED
      BY <1>3, <2>1
  <1>5. CASE BeginConstraint \/ Handle \/ UNCHANGED vars
    <2>1. UNCHANGED <<pc, root, passed>>
      BY <1>5, HandleChanges DEF BeginConstraint, vars, callVars, histVars
    <2> QED
      BY <1>3, <2>1
  <1>6. CASE Loaded \/ Update \/ RemoveXPathReference \/ Accept
    BY <1>6 DEF Loaded, Update, RemoveXPathReference, Accept, Loading
  <1>7. CASE StillReferenced \/ NoParent \/ ConstraintFailed
    BY <1>0, <1>7 DEF StillReferenced, NoParent, ConstraintFailed
  <1> QED
    BY <1>1, <1>2, <1>4, <1>5, <1>6, <1>7 DEF Next, Validate

\* Every reference of the config has a target there.
AllResolved(c) == \A s \in DOMAIN c : References[s] # <<>> => HasTarget(DOMAIN c, s)

\* As long as no refused update took references with it, what the manager knows of
\* the references is complete, but for those of the nodes that go; and where a
\* removal was granted no reference to a node that goes is left.
RefsInv ==
    ~disturbed =>
        /\ pc \in {"idle", "removing"} => AllResolved(config) /\ Recorded(config) \subseteq refs
        /\ pc \in {"adding", "updating"} =>
              /\ AllResolved(config)
              /\ \A r \in Recorded(config) : r[2] \in Removed \/ r \in refs
              /\ \A r \in refs : r[1] \notin Removed

\* What selects something in a tree is the path of one of its nodes.
LEMMA TargetIsNode ==
  ASSUME ReferencesAsk, NEW tree \in SUBSET Paths, NEW s \in Paths,
         NEW i \in DOMAIN References[s], Exists(tree, RefXPath(s, References[s][i]))
  PROVE  RefXPath(s, References[s][i]) \in tree \ {<<>>}
  <1> DEFINE x == RefXPath(s, References[s][i])
  <1>1. References[s] # <<>>
    OBVIOUS
  <1>2. InOnePlace(Paths, x)
    BY <1>1 DEF ReferencesAsk
  <1> HIDE DEF x
  <1>3. Select(tree, x) \subseteq {x} \cap tree
    BY <1>2, SelectsAtMost, ConfigsAssumption
  <1>4. Select(tree, <<>>) = {}
    BY DEF Select
  <1> QED
    BY <1>3, <1>4 DEF x, Exists

\* The path of a node selects something.
LEMMA NodeExists ==
  ASSUME "value" \notin DOMAIN Rank, NEW c \in Configs, NEW p \in DOMAIN c \ {<<>>}
  PROVE  Exists(DOMAIN c, p)
  <1>1. DOMAIN c \in SUBSET Seq(DOMAIN Rank)
    BY PathsOfConfigs, ConfigsAssumption
  <1>2. Select(DOMAIN c, p) = {p}
    BY <1>1, SelectsPath, ConfigsAssumption
  <1> QED
    BY <1>2 DEF Exists

\* At the end of a loop the nodes that had to ask for their target have one.
LEMMA AskedHave ==
  ASSUME ReferencesAsk, TypeOK, PassedInv, NEW loops, ChecksLeft(loops), pc \in loops,
         pc \in Loading \cup {"updating"}, nodes = {}, Between,
         NEW s \in ToMeet, s \in Paths, References[s] # <<>>
  PROVE  HasTarget(Tree, s)
  <1>1. PICK i \in DOMAIN UpdateConstraints[s] : AsksForTarget(UpdateConstraints[s][i])
    BY DEF ReferencesAsk
  <1>2. ConstraintsOf(s) = UpdateConstraints[s]
    BY DEF ConstraintsOf, Loading
  <1>3. <<s, UpdateConstraints[s][i]>> \in passed
    BY <1>2, AllChecked
  <1> QED
    BY <1>1, <1>3 DEF PassedInv

LEMMA LoadedResolves ==
  ASSUME ReferencesAsk, TypeOK, InTree, PassedInv, ChecksLeft(Loading), Loaded
  PROVE  AllResolved(config)
  <1>1. pc \in Loading /\ Between /\ nodes = {} /\ Tree = DOMAIN config
    BY DEF Loaded, InTree, Tree
  <1> SUFFICES ASSUME NEW s \in DOMAIN config, References[s] # <<>>
               PROVE  HasTarget(DOMAIN config, s)
    BY DEF AllResolved
  <1>2. s \in Paths /\ s # <<>>
    BY PathsOfConfigs DEF TypeOK, ReferencesAsk
  <1>3. s \in ToMeet
    BY <1>1, <1>2 DEF ToMeet
  <1> QED
    BY <1>1, <1>2, <1>3, AskedHave

LEMMA AcceptedResolves ==
  ASSUME "value" \notin DOMAIN Rank, ReferencesAsk, TypeOK, NothingStale, PassedInv, RefsInv,
         ChecksLeft(Updating), ~disturbed, Accept
  PROVE  AllResolved(target)
  <1>1. pc = "updating" /\ Between /\ nodes = {}
    BY DEF Accept
  <1>2. /\ DOMAIN target \subseteq Paths /\ DOMAIN config \subseteq Paths /\ Tree \subseteq Paths
        /\ target \in Configs /\ config \in Configs /\ Paths \subseteq Seq(DOMAIN Rank)
    BY PathsOfConfigs, ConfigsAssumption DEF TypeOK
  <1> SUFFICES ASSUME NEW s \in DOMAIN target, References[s] # <<>>
               PROVE  HasTarget(DOMAIN target, s)
    BY DEF AllResolved
  <1>3. s \in Paths /\ s # <<>>
    BY <1>2 DEF ReferencesAsk
  <1>4. CASE \E p \in Added : IsPrefix(p, s)
    <2>1. s \in ToMeet
      BY <1>1, <1>4 DEF ToMeet, Loading
    <2>2. HasTarget(Tree, s)
      BY <1>1, <1>3, <2>1, AskedHave DEF Updating
    <2>3. PICK i \in DOMAIN References[s] : Exists(Tree, RefXPath(s, References[s][i]))
      BY <2>2 DEF HasTarget
    <2>4. RefXPath(s, References[s][i]) \in Tree \ {<<>>}
      BY <1>2, <1>3, <2>3, TargetIsNode
    <2>5. RefXPath(s, References[s][i]) \in DOMAIN target \ {<<>>}
      BY <1>1, <2>4 DEF NothingStale
    <2>6. Exists(DOMAIN target, RefXPath(s, References[s][i]))
      BY <1>2, <2>5, NodeExists
    <2> QED
      BY <2>6 DEF HasTarget
  <1>5. CASE ~ \E p \in Added : IsPrefix(p, s)
    <2>1. s \in DOMAIN config
      <3> SUFFICES ASSUME s \notin DOMAIN config PROVE FALSE
        OBVIOUS
      <3>1. PICK p \in DOMAIN target \ DOMAIN config :
                p # <<>> /\ Parent(p) \in DOMAIN config /\ IsPrefix(p, s)
        BY FirstMissing, TreesOfCall
      <3> QED
        BY <1>5, <3>1 DEF Added, AddedPaths
    <2>2. PICK i \in DOMAIN References[s] : Exists(DOMAIN config, RefXPath(s, References[s][i]))
      BY <1>1, <2>1 DEF RefsInv, AllResolved, HasTarget
    <2> DEFINE x == RefXPath(s, References[s][i])
    <2>3. x \in DOMAIN config \ {<<>>}
      BY <1>2, <1>3, <2>2, TargetIsNode
    <2>4. <<x, s>> \in Recorded(config)
      BY <1>3, <2>1, <2>2 DEF Recorded
    <2>5. s \notin Removed
      <3> SUFFICES ASSUME s \in Removed PROVE FALSE
        OBVIOUS
      <3>1. PICK p \in RemovedPaths(config, target) : HasSubstring(s, p)
        BY DEF Removed, Doomed
      <3>2. p \in DOMAIN config \ DOMAIN target
        BY DEF RemovedPaths
      <3>3. IsPrefix(p, s)
        BY <1>2, <1>3, <3>1, <3>2 DEF ReferencesAsk
      <3> QED
        BY <1>2, <3>2, <3>3, PrefixInTree, TreesOfCall
    <2> HIDE DEF x
    <2>6. x \notin Removed
      BY <1>1, <2>4, <2>5 DEF RefsInv
    <2>7. x \in DOMAIN target \ {<<>>}
      BY <2>3, <2>6, GoneAreRemoved
    <2>8. Exists(DOMAIN target, x)
      BY <1>2, <2>7, NodeExists
    <2> QED
      BY <2>8 DEF HasTarget, x
  <1> QED
    BY <1>4, <1>5

LEMMA RefsStep ==
  ASSUME "value" \notin DOMAIN Rank, ReferencesAsk, TypeOK, InTree, NothingStale,
         ChecksLeft(Updating), ChecksLeft(Loading), PassedInv, RefsInv, [Next]_vars
  PROVE  RefsInv'
  <1> SUFFICES ASSUME ~disturbed' PROVE RefsInv'
    BY DEF RefsInv
  <1>1. ASSUME Refuse, pc # "down" PROVE RefsInv'
    <2>1. CASE pc \in Loading
      BY <1>1, <2>1 DEF Refuse, RefsInv, Loading
    <2>2. CASE pc \notin Loading
      <3>1. ~disturbed /\ Recorded(config) \subseteq refs /\ UNCHANGED <<config, refs>> /\ pc' = "idle"
        BY <1>1, <2>2 DEF Refuse
      <3>2. AllResolved(config)
        BY <1>1, <2>2, <3>1 DEF RefsInv, TypeOK
      <3> QED
        BY <3>1, <3>2 DEF RefsInv
    <2> QED
      BY <2>1, <2>2
  <1>2. CASE UNCHANGED <<pc, config, target, refs, disturbed>>
    BY <1>2 DEF RefsInv, Removed
  <1>3. CASE Start \/ Restart
    BY <1>3 DEF Start, Restart, RefsInv
  <1>4. CASE Loaded
    <2>1. AllResolved(config)
      BY <1>4, LoadedResolves
    <2> QED
      BY <1>4, <2>1 DEF Loaded, RefsInv
  <1>5. CASE Update
    BY <1>5 DEF Update, RefsInv, histVars
  <1>6. CASE RemoveXPathReference
    <2>1. /\ \A r \in refs : r[1] \in Removed => r[2] \in Removed
          /\ refs' = {r \in refs : r[2] \notin Removed} /\ pc' = "adding" /\ pc = "removing"
          /\ UNCHANGED <<config, target, disturbed>>
      BY <1>6 DEF RemoveXPathReference, histVars
    <2>2. Removed' = Removed
      BY <2>1 DEF Removed
    <2>3. AllResolved(config) /\ Recorded(config) \subseteq refs
      BY <2>1 DEF RefsInv
    <2> QED
      BY <2>1, <2>2, <2>3 DEF RefsInv
  <1>7. CASE LoadAdded
    BY <1>7 DEF LoadAdded, RefsInv, Removed
  <1>8. CASE Accept
    <2>1. AllResolved(target)
      BY <1>8, AcceptedResolves DEF Accept
    <2> QED
      BY <1>8, <2>1 DEF Accept, RefsInv
  <1>9. CASE NextNode \/ NodeDone
    <2>1. (Refuse /\ pc # "down") \/ UNCHANGED <<pc, config, target, refs, disturbed>>
      BY <1>9 DEF NextNode, NodeDone, Ready, FirstOf, TypeOK, callVars, histVars
    <2> QED
      BY <1>1, <1>2, <2>1
  <1>10. CASE BeginConstraint \/ ConstraintMet \/ Handle \/ UNCHANGED vars
    <2>1. UNCHANGED <<pc, config, target, refs, disturbed>>
      BY <1>10, HandleChanges DEF BeginConstraint, ConstraintMet, vars, callVars, histVars
    <2> QED
      BY <1>2, <2>1
  <1>11. CASE StillReferenced \/ NoParent \/ ConstraintFailed
    BY <1>1, <1>11 DEF StillReferenced, NoParent, ConstraintFailed, Evaluated, TypeOK, Between
  <1> QED
    BY <1>3, <1>4, <1>5, <1>6, <1>7, <1>8, <1>9, <1>10, <1>11 DEF Next, Validate

\* The config a client gets to see has the target of each of its references, if
\* each node with references has "must(exists(xpath(@)))" and no target, and no
\* such node, is taken for another: what an update adds has asked for its target
\* in the new tree, and what it leaves alone keeps its target, since no reference
\* to a node that goes is left (config.cpp:1161, 1393, 1455).
THEOREM ReferencesKept ==
  ASSUME "value" \notin DOMAIN Rank, ReferencesAsk
  PROVE  Spec => []ReferencesExist
  <1>1. Init => AskInv /\ PassedInv /\ RefsInv
    BY DEF Init, AskInv, IdleInv, PassedInv, RefsInv, Loading
  <1>2. TypeOK /\ InTree /\ AskInv /\ [Next]_vars => AskInv'
    BY AskStep
  <1>3. TypeOK /\ AskInv /\ PassedInv /\ [Next]_vars => PassedInv'
    BY PassedStep
  <1>4. TypeOK /\ InTree /\ NothingStale /\ ChecksLeft(Updating) /\ ChecksLeft(Loading)
          /\ PassedInv /\ RefsInv /\ [Next]_vars => RefsInv'
    BY RefsStep
  <1>5. RefsInv => ReferencesExist
    BY DEF RefsInv, ReferencesExist, AllResolved, HasTarget
  <1>6. Spec => []TypeOK /\ []InTree /\ []NothingStale /\ []ChecksLeft(Updating) /\ []ChecksLeft(Loading)
    BY TypeCorrect, TreeInvariant, TreeIsFresh, UpdatesLeft, LoadsLeft
  <1> QED
    BY <1>1, <1>2, <1>3, <1>4, <1>5, <1>6, PTL DEF Spec

-----------------------------------------------------------------------------
(***************************************************************************)
(* "must(count(xpath('...')) == 0)".                                       *)
(***************************************************************************)

Zero   == Value("int", 0)
Equals == String(<<"==">>)

\* What each action leaves when there is nothing to count.
NoneInv(c) ==
    /\ Stands(c)
    /\ continueProcessing
    /\ Done(c) = 0 => values = <<>>
    /\ Done(c) = 1 => values = <<Actions[c][1].value>>
    /\ Done(c) = 2 => values = <<XPaths({})>>
    /\ Done(c) = 3 => values = <<Zero>>
    /\ Done(c) = 4 => values = <<Zero, Equals>>
    /\ Done(c) = 5 => values = <<Zero, Equals, Zero>>
    /\ Done(c) = 6 => values = <<Bool(TRUE)>>
    /\ rest = <<>> => expressionResult

\* The actions are seven, and these.
LEMMA NoneActions ==
  ASSUME NEW c \in Constraints, NEW n, AsksForNone(n, c)
  PROVE  /\ Len(Actions[c]) = 7
         /\ Actions[c][1].handler = "STRING" /\ Actions[c][2].handler = "XPATH"
         /\ Actions[c][3].handler = "COUNT" /\ Actions[c][4].handler = "RELATIVE_OPERATOR"
         /\ Actions[c][5].handler = "NUMBER" /\ Actions[c][6].handler = "INFIX"
         /\ Actions[c][7].handler = "MUST"
  <1>1. DOMAIN Actions[c] = 1 .. Len(Actions[c]) /\ Len(Actions[c]) \in Nat
    BY ConstraintsAssumption
  <1>2. HandlersOf(c) = <<"STRING", "XPATH", "COUNT", "RELATIVE_OPERATOR", "NUMBER", "INFIX", "MUST">>
    BY DEF AsksForNone
  <1>3. DOMAIN HandlersOf(c) = DOMAIN Actions[c]
    BY DEF HandlersOf
  <1>4. DOMAIN HandlersOf(c) = 1 .. 7
    BY <1>2
  <1>5. Len(Actions[c]) = 7
    BY <1>1, <1>3, <1>4
  <1>6. \A i \in 1 .. 7 : HandlersOf(c)[i] = Actions[c][i].handler
    BY <1>3, <1>4 DEF HandlersOf
  <1> QED
    BY <1>2, <1>5, <1>6

\* Where nothing is below the node, its xpath selects nothing.
LEMMA NothingBelow ==
  ASSUME NEW c \in Constraints, NEW n \in Paths, AsksForNone(n, c),
         NEW tree \in SUBSET Paths, Below(tree, n) = {}
  PROVE  ~Exists(tree, EvaluateXPath(n, Actions[c][1].value.val))
  <1> DEFINE x == EvaluateXPath(n, Actions[c][1].value.val)
  <1>1. IsStrictPrefix(n, x) /\ InOnePlace(Paths, x)
    BY DEF AsksForNone
  <1> HIDE DEF x
  <1>2. Select(tree, x) \subseteq {x} \cap tree
    BY <1>1, SelectsAtMost, ConfigsAssumption
  <1>3. x \notin tree
    BY <1>1 DEF Below
  <1> QED
    BY <1>2, <1>3 DEF Exists, x

\* An action of this constraint is called for a node with nothing below it.
LEMMA NoneStep ==
  ASSUME Handle, NEW c \in Constraints, AsksForNone(xpath, c), NoneInv(c),
         node = xpath, xpath \in Paths, Tree \subseteq Paths, Below(Tree, xpath) = {}
  PROVE  NoneInv(c)'
  <1>1. /\ Stands(c)' /\ Done(c)' = Done(c) + 1 /\ Done(c) \in 0 .. 6
        /\ Handler = Actions[c][Done(c) + 1].handler
        /\ Head(rest) = Actions[c][Done(c) + 1]
    <2>1. Len(Actions[c]) = 7
      BY NoneActions
    <2>2. Stands(c) /\ rest # <<>> /\ rest' = Tail(rest)
      BY HandleReturns, HandleChanges DEF NoneInv
    <2>3. /\ Stands(c)' /\ Done(c)' = Done(c) + 1 /\ Done(c) < Len(Actions[c])
          /\ Head(rest) = Actions[c][Done(c) + 1]
      BY <2>2, NextAction
    <2>4. Done(c) \in 0 .. 6
      BY <2>1, <2>2, <2>3 DEF Stands
    <2> QED
      BY <2>3, <2>4 DEF Handler
  <1>2. continueProcessing
    BY DEF NoneInv
  <1>3. rest' = <<>> => Done(c) = 6
    <2>1. Len(Actions[c]) = 7 /\ Done(c)' = 7 - Len(rest')
      BY NoneActions DEF Done
    <2> QED
      BY <1>1, <2>1
  <1>4. ASSUME Done(c) \in {0, 3, 4}
        PROVE  /\ values' = Append(values, Actions[c][Done(c) + 1].value)
               /\ continueProcessing'
    <2>1. TokenHandle /\ Handler \in {"STRING", "RELATIVE_OPERATOR", "NUMBER"}
      BY <1>1, <1>2, <1>4, Called, NoneActions
    <2>2. Arity(Handler) = 0
      BY <2>1 DEF Arity
    <2>3. Yields(Actions[c][Done(c) + 1].value)
      BY <1>1, <2>1 DEF TokenHandle
    <2>4. /\ values' = Append(SubSeq(values, 1, Len(values) - 0), Actions[c][Done(c) + 1].value)
          /\ continueProcessing'
      BY <1>2, <2>2, <2>3 DEF Yields, Returns
    <2>5. values \in Seq({Zero, Equals}) /\ Len(values) - 0 = Len(values)
      <3>1. CASE Done(c) = 0
        BY <3>1 DEF NoneInv
      <3>2. CASE Done(c) = 3
        <4>1. values = <<Zero>>
          BY <3>2 DEF NoneInv
        <4> QED
          BY <4>1
      <3>3. CASE Done(c) = 4
        <4>1. values = <<Zero, Equals>>
          BY <3>3 DEF NoneInv
        <4> QED
          BY <4>1
      <3> QED
        BY <1>4, <3>1, <3>2, <3>3
    <2> QED
      BY <2>4, <2>5, SubSeqFull
  <1>5. CASE Done(c) = 0
    <2>1. values' = <<Actions[c][1].value>> /\ continueProcessing'
      BY <1>4, <1>5, OneValue DEF NoneInv
    <2> QED
      BY <1>1, <1>3, <1>5, <2>1 DEF NoneInv
  <1>6. CASE Done(c) = 3
    <2>1. values = <<Zero>> /\ values' = Append(values, Equals) /\ continueProcessing'
      BY <1>4, <1>6 DEF NoneInv, AsksForNone, Equals
    <2>2. values' = <<Zero, Equals>>
      BY <2>1, MoreValues
    <2>3. continueProcessing' /\ Done(c)' = 4 /\ rest' # <<>>
      BY <1>1, <1>3, <1>6, <2>1
    <2> QED
      BY <1>1, <2>2, <2>3 DEF NoneInv
  <1>7. CASE Done(c) = 4
    <2>1. values = <<Zero, Equals>> /\ values' = Append(values, Zero) /\ continueProcessing'
      BY <1>4, <1>7 DEF NoneInv, AsksForNone, Zero
    <2>2. values' = <<Zero, Equals, Zero>>
      BY <2>1, MoreValues
    <2>3. continueProcessing' /\ Done(c)' = 5 /\ rest' # <<>>
      BY <1>1, <1>3, <1>7, <2>1
    <2> QED
      BY <1>1, <2>2, <2>3 DEF NoneInv
  <1>8. CASE Done(c) = 1
    <2>1. XPathHandle /\ Handler = "XPATH" /\ values = <<Actions[c][1].value>>
      BY <1>1, <1>2, <1>8, Called, NoneActions DEF NoneInv
    <2>2. Arity(Handler) = 1 /\ values = <<values[1]>> /\ values[1] = Actions[c][1].value
      BY <2>1 DEF Arity
    <2>3. Arg(1) = values[1]
      <3>1. Len(values) = 1
        BY <2>1
      <3> QED
        BY <2>2, <3>1 DEF Arg
    <2>4. ~Exists(Tree, EvaluateXPath(node, Arg(1).val))
      BY <2>2, <2>3, NothingBelow
    <2>5. Yields(XPaths({}))
      BY <2>1, <2>4 DEF XPathHandle
    <2>6. values' = <<XPaths({})>> /\ continueProcessing'
      BY <1>2, <2>2, <2>5, Replaces DEF Yields
    <2> QED
      BY <1>1, <1>3, <1>8, <2>6 DEF NoneInv
  <1>9. CASE Done(c) = 2
    <2>1. CountHandle /\ Handler = "COUNT" /\ values = <<XPaths({})>>
      BY <1>1, <1>2, <1>9, Called, NoneActions DEF NoneInv
    <2>2. Arity(Handler) = 1 /\ values = <<values[1]>> /\ values[1] = XPaths({})
      BY <2>1 DEF Arity
    <2>3. Arg(1) = values[1]
      <3>1. Len(values) = 1
        BY <2>1
      <3> QED
        BY <2>2, <3>1 DEF Arg
    <2>4. Arg(1).type = "xpaths" /\ Arg(1).val = {}
      BY <2>2, <2>3 DEF XPaths, Value
    <2>5. Cardinality({x \in Arg(1).val : Exists(Tree, x)}) = 0
      <3>1. {x \in Arg(1).val : Exists(Tree, x)} = {}
        BY <2>4
      <3> QED
        BY <3>1, FS_EmptySet
    <2>6. Yields(Zero)
      BY <2>1, <2>4, <2>5 DEF CountHandle, Zero
    <2>7. values' = <<Zero>> /\ continueProcessing'
      BY <1>2, <2>2, <2>6, Replaces DEF Yields
    <2> QED
      BY <1>1, <1>3, <1>9, <2>7 DEF NoneInv
  <1>10. CASE Done(c) = 5
    <2>1. InfixExpressionHandle /\ Handler = "INFIX" /\ values = <<Zero, Equals, Zero>>
      BY <1>1, <1>2, <1>10, Called, NoneActions DEF NoneInv
    <2>2. Arity(Handler) = 3 /\ Len(values) = 3
      BY <2>1 DEF Arity
    <2>3. Arg(1) = Zero /\ Arg(2) = Equals /\ Arg(3) = Zero
      BY <2>1, <2>2 DEF Arg
    <2>4. /\ Arg(1).type = "int" /\ Arg(3).type = Arg(1).type
          /\ ((Arg(2).val = <<"==">>) <=> (Arg(1).val = Arg(3).val)) = TRUE
      BY <2>3 DEF Zero, Equals, String, Value
    <2>5. Returns(Bool(TRUE)) /\ continueProcessing'
      BY <2>1, <2>4 DEF InfixExpressionHandle
    <2>6. values' = Append(SubSeq(values, 1, 0), Bool(TRUE))
      BY <2>2, <2>5 DEF Returns
    <2>7. values' = <<Bool(TRUE)>>
      <3>1. PICK b : b = Bool(TRUE)
        OBVIOUS
      <3>2. SubSeq(values, 1, 0) = <<>>
        BY SubSeqEmpty
      <3>3. values' = <<b>>
        BY <2>6, <3>1, <3>2, OneValue
      <3> QED
        BY <3>1, <3>3
    <2> QED
      BY <1>1, <1>3, <1>10, <2>5, <2>7 DEF NoneInv
  <1>11. CASE Done(c) = 6
    <2>1. MustHandle /\ Handler = "MUST" /\ values = <<Bool(TRUE)>>
      <3>1. Handler = "MUST"
        BY <1>1, <1>11, NoneActions
      <3>2. MustHandle
        BY <3>1, Called
      <3>3. values = <<Bool(TRUE)>>
        BY <1>11, Zenon DEF NoneInv
      <3> QED
        BY <3>1, <3>2, <3>3
    <2>2. Arity(Handler) = 1 /\ Len(values) = 1
      BY <2>1 DEF Arity
    <2>3. Arg(1) = Bool(TRUE)
      <3>1. Arg(1) = values[1]
        BY <2>2 DEF Arg
      <3> QED
        BY <2>1, <3>1
    <2>4. Arg(1).type = "bool"
      BY <2>3 DEF Bool, Value
    <2>5. expressionResult' /\ continueProcessing'
      BY <1>2, <2>1, <2>3, <2>4 DEF MustHandle
    <2> QED
      BY <1>1, <1>11, <2>5 DEF NoneInv
  <1> QED
    BY <1>1, <1>5, <1>6, <1>7, <1>8, <1>9, <1>10, <1>11

-----------------------------------------------------------------------------
(***************************************************************************)
(* Removals go from the leaves up.                                         *)
(***************************************************************************)

\* Nothing is left below the node that is checked: what goes with it is among the
\* nodes to remove, and comes before it.
LeavesInv ==
    pc = "removing" =>
        /\ nodes \cup ({xpath} \ {<<>>}) \subseteq Removed
        /\ Tree \subseteq RemovalTree(config, RemovedPaths(config, target))
        /\ Tree \cap Removed \subseteq nodes \cup {xpath}
        /\ xpath # <<>> => Below(Tree, xpath) = {}
        /\ \A j \in DOMAIN constraints : AsksForNone(xpath, constraints[j])

\* What is part of an xpath is part of every xpath that begins with it.
LEMMA SubstringBelow ==
  ASSUME NEW p \in Seq(DOMAIN Rank), NEW n \in Seq(DOMAIN Rank), NEW d \in Seq(DOMAIN Rank),
         IsPrefix(n, d), HasSubstring(n, p)
  PROVE  HasSubstring(d, p)
  <1>1. /\ Len(p) \in Nat /\ Len(n) \in Nat /\ Len(d) \in Nat /\ Len(n) <= Len(d)
        /\ \A i \in 1 .. Len(n) : n[i] = d[i]
    BY PrefixIs
  <1>2. PICK k \in 0 .. Len(n) - Len(p) :
            \A i \in DOMAIN p : \/ n[k + i] = p[i]
                                \/ i = Len(p) /\ <<p[i], n[k + i]>> \in Starts
    BY DEF HasSubstring
  <1>3. DOMAIN p = 1 .. Len(p)
    OBVIOUS
  <1>4. \A i \in DOMAIN p : n[k + i] = d[k + i]
    BY <1>1, <1>3
  <1>5. k \in 0 .. Len(d) - Len(p)
    BY <1>1
  <1> QED
    BY <1>2, <1>4, <1>5 DEF HasSubstring

\* With a node goes what is below it in the tree of the removals.
LEMMA RemovedDown ==
  ASSUME TypeOK, NEW n \in Removed,
         NEW d \in RemovalTree(config, RemovedPaths(config, target)), IsStrictPrefix(n, d)
  PROVE  d \in Removed
  <1>1. n \in DOMAIN config /\ d \in DOMAIN config /\ n # <<>>
    BY DEF Removed, Doomed, RemovalTree
  <1>2. n \in Seq(DOMAIN Rank) \ {<<>>} /\ d \in Seq(DOMAIN Rank)
    BY <1>1, TreesOfCall
  <1>3. IsPrefix(n, d) /\ d # <<>>
    <2>1. Len(n) \in Nat /\ Len(d) \in Nat /\ Len(n) < Len(d) /\ IsPrefix(n, d)
      BY <1>2, PrefixIs DEF IsStrictPrefix
    <2> QED
      BY <1>2, <2>1, EmptySeq
  <1>4. \E p \in RemovedPaths(config, target) : HasSubstring(d, p)
    <2>1. PICK p \in RemovedPaths(config, target) : HasSubstring(n, p)
      BY DEF Removed, Doomed
    <2>2. p \in Seq(DOMAIN Rank)
      BY TreesOfCall DEF RemovedPaths
    <2> QED
      BY <1>2, <1>3, <2>1, <2>2, SubstringBelow
  <1>5. ASSUME NEW q \in RemovedPaths(config, target), IsStrictPrefix(d, q) PROVE FALSE
    <2>1. q \in Seq(DOMAIN Rank)
      BY TreesOfCall DEF RemovedPaths
    <2>2. IsPrefix(d, q) /\ Len(n) < Len(d) /\ Len(d) < Len(q)
      BY <1>2, <1>5, <2>1, PrefixIs DEF IsStrictPrefix
    <2>3. IsPrefix(n, q)
      BY <1>2, <1>3, <2>1, <2>2, PrefixOfPrefix
    <2>4. n # q
      BY <1>2, <2>1, <2>2
    <2>5. IsStrictPrefix(n, q)
      BY <2>3, <2>4 DEF IsStrictPrefix
    <2> QED
      BY <2>5 DEF Removed, Doomed
  <1> QED
    BY <1>3, <1>4, <1>5 DEF Removed, Doomed

LEMMA LeavesStep ==
  ASSUME DeletesAskForNone, TypeOK, InTree, LeavesInv, [Next]_vars
  PROVE  LeavesInv'
  <1> SUFFICES ASSUME pc' = "removing" PROVE LeavesInv'
    BY DEF LeavesInv
  <1>0. ~Refuse
    BY DEF Refuse
  <1>1. CASE Update
    <2>1. PICK to \in Configs :
              /\ target' = to
              /\ root' = [p \in RemovalTree(config, RemovedPaths(config, to)) |-> config[p]]
              /\ nodes' = Doomed(config, RemovedPaths(config, to))
      BY <1>1 DEF Update
    <2>2. xpath = <<>> /\ constraints = <<>> /\ UNCHANGED <<config, xpath, constraints>>
      BY <1>1 DEF Update, TypeOK, Between, checkVars
    <2>3. Removed' = nodes' /\ Tree' = RemovalTree(config, RemovedPaths(config, target))'
      BY <2>1, <2>2 DEF Removed, Tree
    <2> QED
      BY <2>2, <2>3, EmptySeq DEF LeavesInv
  <1>2. CASE NextNode
    <2>1. PICK n \in Ready :
              /\ xpath' = n /\ nodes' = nodes \ {n} /\ constraints' = ConstraintsOf(n)
              /\ UNCHANGED callVars
      BY <1>0, <1>2 DEF NextNode, callVars, Loading
    <2>2. /\ UNCHANGED <<pc, config, target, root>> /\ Tree' = Tree /\ Removed' = Removed
          /\ xpath = <<>> /\ pc = "removing"
      BY <1>2, <2>1 DEF NextNode, Between, callVars, Tree, Removed
    <2>3. n \in nodes /\ Below(nodes, n) = {} /\ constraints' = DeleteConstraints[n]
      BY <2>1, <2>2 DEF Ready, ConstraintsOf
    <2>4. n \in Removed /\ n \in Paths /\ n # <<>>
      BY <2>2, <2>3 DEF LeavesInv, TypeOK
    <2>5. Below(Tree, n) = {}
      <3> SUFFICES ASSUME NEW d \in Below(Tree, n) PROVE FALSE
        OBVIOUS
      <3>1. d \in Tree /\ IsStrictPrefix(n, d)
        BY DEF Below
      <3>2. d \in Removed
        BY <2>2, <2>4, <3>1, RemovedDown DEF LeavesInv
      <3>3. d # <<>>
        BY <3>2 DEF Removed, Doomed
      <3>4. d \in nodes
        BY <2>2, <3>1, <3>2, <3>3 DEF LeavesInv
      <3> QED
        BY <2>3, <3>1, <3>4 DEF Below
    <2>6. \A j \in DOMAIN constraints' : AsksForNone(xpath', constraints'[j])
      BY <2>1, <2>3, <2>4 DEF DeletesAskForNone
    <2>7. Tree \cap Removed \subseteq nodes
      BY <2>2 DEF LeavesInv, Removed, Doomed
    <2>8. Tree \subseteq RemovalTree(config, RemovedPaths(config, target))
      BY <2>2 DEF LeavesInv
    <2>9. nodes \subseteq Removed
      BY <2>2 DEF LeavesInv
    <2>10. RemovalTree(config, RemovedPaths(config, target))'
              = RemovalTree(config, RemovedPaths(config, target))
      BY <2>2
    <2>11. Below(Tree, xpath)' = {}
      BY <2>1, <2>2, <2>5 DEF Below
    <2> QED
      BY <2>1, <2>2, <2>4, <2>6, <2>7, <2>8, <2>9, <2>10, <2>11 DEF LeavesInv
  <1>3. CASE NodeDone
    <2>1. /\ pc = "removing" /\ xpath' = <<>> /\ constraints = <<>>
          /\ UNCHANGED <<config, target, nodes, constraints>>
          /\ root' = [p \in Tree \ ({node} \cup Below(Tree, node)) |-> root[p]]
      BY <1>3 DEF NodeDone
    <2>2. Tree' \subseteq Tree \ {xpath} /\ Removed' = Removed
      BY <2>1 DEF Tree, InTree, Removed
    <2>3. RemovalTree(config, RemovedPaths(config, target))'
              = RemovalTree(config, RemovedPaths(config, target))
      BY <2>1
    <2> QED
      BY <2>1, <2>2, <2>3, EmptySeq DEF LeavesInv
  <1>4. CASE ConstraintMet
    <2>1. /\ UNCHANGED <<callVars, nodes, xpath>> /\ constraints' = Tail(constraints)
          /\ constraints # <<>> /\ constraints \in Seq(Constraints)
      BY <1>4 DEF ConstraintMet, Evaluated, TypeOK
    <2>2. UNCHANGED <<pc, config, target, root>> /\ Tree' = Tree /\ Removed' = Removed
      BY <2>1 DEF callVars, Tree, Removed
    <2>3. \A j \in DOMAIN Tail(constraints) :
              j + 1 \in DOMAIN constraints /\ Tail(constraints)[j] = constraints[j + 1]
      BY <2>1
    <2>4. \A j \in DOMAIN constraints : AsksForNone(xpath, constraints[j])
      BY <2>2 DEF LeavesInv
    <2>5. \A j \in DOMAIN constraints' : AsksForNone(xpath, constraints[j + 1])
      BY <2>1, <2>3, <2>4
    <2>6. \A j \in DOMAIN constraints' : AsksForNone(xpath', constraints'[j])
      BY <2>1, <2>3, <2>5
    <2>7. Below(Tree, xpath)' = Below(Tree, xpath)
      BY <2>1, <2>2 DEF Below
    <2>8. RemovalTree(config, RemovedPaths(config, target))'
              = RemovalTree(config, RemovedPaths(config, target))
      BY <2>2
    <2> QED
      BY <2>1, <2>2, <2>6, <2>7, <2>8 DEF LeavesInv
  <1>5. CASE BeginConstraint \/ Handle \/ UNCHANGED vars
    <2>1. UNCHANGED <<pc, config, target, root, nodes, xpath, constraints>>
      BY <1>5, HandleChanges DEF BeginConstraint, vars, callVars, checkVars
    <2>2. Tree' = Tree /\ Removed' = Removed /\ Below(Tree, xpath)' = Below(Tree, xpath)
      BY <2>1 DEF Tree, Removed, Below
    <2>3. RemovalTree(config, RemovedPaths(config, target))'
              = RemovalTree(config, RemovedPaths(config, target))
      BY <2>1
    <2> QED
      BY <2>1, <2>2, <2>3 DEF LeavesInv
  <1>6. CASE Start \/ Restart \/ Loaded \/ RemoveXPathReference \/ LoadAdded \/ Accept
    BY <1>6 DEF Start, Restart, Loaded, RemoveXPathReference, LoadAdded, Accept
  <1>7. CASE StillReferenced \/ NoParent \/ ConstraintFailed
    BY <1>0, <1>7 DEF StillReferenced, NoParent, ConstraintFailed
  <1> QED
    BY <1>1, <1>2, <1>3, <1>4, <1>5, <1>6, <1>7 DEF Next, Validate

\* Whenever a constraint on removal is evaluated, nothing that it counts is left.
CountInv == pc = "removing" /\ evaluating => NoneInv(Head(constraints))

LEMMA CountStep ==
  ASSUME TypeOK, InTree, IdleInv, LeavesInv, CountInv, [Next]_vars
  PROVE  CountInv'
  <1> SUFFICES ASSUME pc' = "removing", evaluating' PROVE NoneInv(Head(constraints))'
    BY DEF CountInv
  <1>1. CASE Handle
    <2>1. UNCHANGED <<pc, constraints, evaluating>> /\ evaluating /\ node = xpath /\ Tree \subseteq Paths
      BY <1>1, HandleChanges DEF callVars, checkVars, InTree, TypeOK
    <2>2. /\ constraints # <<>> /\ constraints \in Seq(Constraints)
          /\ xpath \in Paths /\ xpath # <<>>
      BY <2>1 DEF TypeOK
    <2>3. PICK c \in Constraints : c = Head(constraints)
      BY <2>2
    <2>4. AsksForNone(xpath, c) /\ Below(Tree, xpath) = {}
      <3>1. 1 \in DOMAIN constraints /\ constraints[1] = c
        BY <2>2, <2>3
      <3> QED
        BY <2>1, <2>2, <3>1 DEF LeavesInv
    <2>5. NoneInv(c)
      BY <2>1, <2>3 DEF CountInv
    <2>6. NoneInv(c)'
      BY <1>1, <2>1, <2>2, <2>4, <2>5, NoneStep
    <2>7. Head(constraints)' = c
      BY <2>1, <2>3
    <2> QED
      BY <2>6, <2>7
  <1>2. CASE BeginConstraint
    <2>1. PICK c \in Constraints : c = Head(constraints)
      BY <1>2 DEF BeginConstraint, TypeOK
    <2>2. /\ UNCHANGED <<pc, constraints, xpath, values, continueProcessing, expressionResult>>
          /\ ~evaluating /\ rest' = Actions[c] /\ constraints # <<>>
      BY <1>2, <2>1 DEF BeginConstraint, callVars
    <2>3. Stands(c)' /\ Done(c)' = 0
      BY <2>2, FirstAction
    <2>4. AsksForNone(xpath, c)
      <3>1. constraints \in Seq(Constraints)
        BY DEF TypeOK
      <3>2. 1 \in DOMAIN constraints /\ constraints[1] = c
        BY <2>1, <2>2, <3>1
      <3> QED
        BY <2>2, <3>2 DEF LeavesInv
    <2>5. rest' # <<>>
      <3>1. Len(Actions[c]) = 7
        BY <2>4, NoneActions
      <3> QED
        BY <2>2, <3>1
    <2>6. values' = <<>> /\ continueProcessing'
      BY <2>2 DEF IdleInv
    <2>7. NoneInv(c)'
      BY <2>3, <2>5, <2>6 DEF NoneInv
    <2>8. Head(constraints)' = c
      BY <2>1, <2>2
    <2> QED
      BY <2>7, <2>8
  <1>3. CASE UNCHANGED vars
    <2>1. UNCHANGED <<pc, evaluating, constraints, rest, values, continueProcessing, expressionResult>>
      BY <1>3 DEF vars, checkVars, parseVars, callVars
    <2> QED
      BY <2>1 DEF CountInv, NoneInv, Stands, Done
  <1> QED
    BY <1>1, <1>2, <1>3, EvaluationSteps

\* A removal ends in a refusal only in the test of the references.
LEMMA OnlyReferencesRefuse ==
  ASSUME TypeOK, \A n \in nodes : Exists(Tree, n), CountInv, [Next]_vars,
         pc = "removing", pc' = "idle"
  PROVE  Between /\ nodes = {}
  <1>1. CASE NextNode
    <2>1. PICK n \in Ready : ~Exists(Tree, n)
      BY <1>1 DEF NextNode, callVars
    <2>2. n \in nodes
      BY DEF Ready, FirstOf
    <2> QED
      BY <2>1, <2>2
  <1>2. CASE ConstraintFailed
    BY <1>2 DEF ConstraintFailed, Evaluated, CountInv, NoneInv
  <1>3. CASE StillReferenced
    BY <1>3 DEF StillReferenced
  <1>4. CASE BeginConstraint \/ Handle \/ ConstraintMet \/ NodeDone \/ UNCHANGED vars
    <2>1. UNCHANGED pc
      BY <1>4, HandleChanges DEF BeginConstraint, ConstraintMet, NodeDone, vars, callVars
    <2> QED
      BY <2>1
  <1>5. CASE Start \/ Restart \/ Loaded \/ Update \/ RemoveXPathReference \/ LoadAdded \/ NoParent \/ Accept
    BY <1>5
    DEF Start, Restart, Loaded, Update, RemoveXPathReference, LoadAdded, NoParent, Accept, Loading
  <1> QED
    BY <1>1, <1>2, <1>3, <1>4, <1>5 DEF Next, Validate

\* That a lag or a vlan be empty never refuses a removal, whatever the order among
\* branches, if the constraints on removal only ask that nothing be left of an xpath
\* below the node: what goes with a node is gone when the node is checked
\* (config.cpp:1112-1158).
THEOREM RemovalsGranted ==
  ASSUME "value" \notin DOMAIN Rank, DeletesAskForNone
  PROVE  Spec => DeletesNeverRefused
  <1>1. Init => IdleInv /\ LeavesInv /\ CountInv
    BY DEF Init, IdleInv, LeavesInv, CountInv
  <1>2. TypeOK /\ IdleInv /\ [Next]_vars => IdleInv'
    <2> SUFFICES ASSUME TypeOK, IdleInv, [Next]_vars PROVE IdleInv'
      OBVIOUS
    <2>1. CASE Handle
      BY <2>1, HandleChanges DEF IdleInv, checkVars
    <2>2. CASE BeginConstraint
      BY <2>2 DEF BeginConstraint, IdleInv
    <2>3. CASE UNCHANGED vars
      BY <2>3 DEF vars, checkVars, parseVars, IdleInv
    <2> QED
      BY <2>1, <2>2, <2>3, EvaluationSteps
  <1>3. TypeOK /\ InTree /\ LeavesInv /\ [Next]_vars => LeavesInv'
    BY LeavesStep
  <1>4. TypeOK /\ InTree /\ IdleInv /\ LeavesInv /\ CountInv /\ [Next]_vars => CountInv'
    BY CountStep
  <1> DEFINE Found == \A n \in nodes : Exists(Tree, n)
  <1>5. TypeOK /\ Found /\ CountInv /\ [Next]_vars
          => [pc = "removing" /\ ~(Between /\ nodes = {}) => pc' # "idle"]_vars
    BY OnlyReferencesRefuse
  <1>6. Spec => []Found
    BY ListedAreFound
  <1> HIDE DEF Found
  <1> QED
    BY <1>1, <1>2, <1>3, <1>4, <1>5, <1>6, TypeCorrect, TreeInvariant, PTL
    DEF Spec, DeletesNeverRefused

=============================================================================
