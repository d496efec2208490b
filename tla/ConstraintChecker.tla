------------------------- MODULE ConstraintChecker --------------------------
(***************************************************************************)
(* The constraints of the schema (constraint_checking.cpp) and when they   *)
(* are checked: at the start for every node of the config (fPerformAction),*)
(* and in an update for the nodes to remove, from the leaves up, and for   *)
(* the nodes that the patch adds or changes (fMakeCandidateConfigInternal).*)
(*                                                                         *)
(* A constraint is given by the semantic actions that the parser calls     *)
(* while it reads it, in their order: those of the operands before that of *)
(* the operator.  The values they return are kept on a stack.  The parser  *)
(* calls InfixExpressionHandle for an operator and not for a lone operand. *)
(* STOP_PROCESSING changes a copy of the argument: all it does is leave    *)
(* the handler with the default value of its type.                         *)
(*                                                                         *)
(* A config maps the path of each of its nodes to the value of the leaf or *)
(* to Composite.  What an accepted update sends and saves is the subject   *)
(* of ConfigManager; here the config is simply replaced, and to cancel is  *)
(* to update to an earlier config.  Operators marked "Mutation:" are       *)
(* variants with a bug, which the properties must tell from the definition *)
(* they precede.                                                           *)
(***************************************************************************)
EXTENDS XPath

CONSTANTS
    Configs,            \* the configs that validateJsonConfig admits
    Composite,          \* what a config has for a node that is not a leaf
    UpdateConstraints,  \* the constraints of each node, in the order of FindAttr
    DeleteConstraints,
    References,         \* the xpaths of the "reference" attribute of each node
    Actions,            \* the semantic actions of each constraint
    RegexSearch,        \* what each regex finds in each name; Key: nothing
    RegexMatch,         \* the xpaths that each regex matches as a whole
    MaxItems            \* bound: the items of a patch

Paths == UNION {DOMAIN c : c \in Configs}
Constraints == DOMAIN Actions

ASSUME ConfigsAssumption ==
    /\ Paths \subseteq Seq(DOMAIN Rank)
    /\ \A c \in Configs : <<>> \in DOMAIN c /\ c[<<>>] = Composite
    /\ \A c \in Configs : \A p \in DOMAIN c \ {<<>>} : Parent(p) \in DOMAIN c
ASSUME ConstraintsAssumption ==
    /\ UpdateConstraints \in [Paths -> Seq(Constraints)]
    /\ DeleteConstraints \in [Paths -> Seq(Constraints)]
    /\ References \in [Paths -> Seq(Seq(STRING))]
    /\ \A c \in Constraints : Actions[c] \in Seq(ToSet(Actions[c]))

VARIABLES
    pc,                  \* what the manager is doing
    config,              \* the config it has, or is loading
    target,              \* the config that the update leads to
    refs,                \* _candidate_xpath_source_reference_by_target
    root,                \* RootNodeConfig: the tree, with its values
    nodes,               \* ordered_nodes_by_xpath still to be checked
    xpath,               \* the one being checked; <<>> between two
    node,                \* CurrentProcessingNode: the node selected for it
    constraints,         \* its constraints still to be met
    evaluating,          \* the first of them is being evaluated
    rest,                \* the actions the parser has yet to call
    values,              \* the values they returned and no action has taken
    continueProcessing,  \* ContinueProcessing
    expressionResult,    \* ExpressionResult
    passed,              \* history: what was met in this loop over the nodes
    disturbed            \* history: a refused update took references with it

parseVars == <<rest, values, continueProcessing, expressionResult>>
checkVars == <<xpath, node, constraints, evaluating>>
callVars  == <<pc, config, target, refs, root>>
histVars  == <<passed, disturbed>>
vars == <<callVars, nodes, checkVars, parseVars, histVars>>

Loading == {"loading", "restarting"}
NoTree  == [p \in {} |-> Composite]
Tree    == DOMAIN root

-----------------------------------------------------------------------------
(***************************************************************************)
(* Values on the stack.                                                    *)
(***************************************************************************)

Value(t, v)   == [type |-> t, val |-> v]
Bool(b)       == Value("bool", b)
String(s)     == Value("string", s)
XPaths(xs)    == Value("xpaths", xs)
Void          == Value("void", <<>>)

Handlers == {"BOOLEAN", "COUNT", "EXISTS", "INFIX", "MUST", "NUMBER", "REFERENCE",
             "RELATIVE_OPERATOR", "STRING", "THEN", "XPATH", "XPATH_VALUE",
             "XPATH_MATCH_REGEX", "XPATH_ANY", "XPATH_ALL", "XPATH_KEY_BASED",
             "XPATH_KEY_REGEX_REPLACE", "XPATH_VALUE_KEY_REGEX_REPLACE"}

\* What "return {}" returns.
Default(handler) ==
    CASE handler \in {"BOOLEAN", "EXISTS", "INFIX", "MUST"}             -> Bool(FALSE)
      [] handler \in {"COUNT", "NUMBER"}                                -> Value("int", 0)
      [] handler \in {"REFERENCE", "RELATIVE_OPERATOR", "STRING"}       -> String(<<>>)
      [] handler \in {"THEN", "XPATH_VALUE",
                      "XPATH_VALUE_KEY_REGEX_REPLACE"}                  -> Void
      [] OTHER                                                          -> XPaths({})

\* How many values a handler reads.
Arity(handler) ==
    CASE handler \in {"BOOLEAN", "NUMBER", "REFERENCE", "RELATIVE_OPERATOR",
                      "STRING", "THEN"}                                 -> 0
      [] handler \in {"INFIX", "XPATH_MATCH_REGEX"}                     -> 3
      [] handler \in {"XPATH_KEY_BASED", "XPATH_KEY_REGEX_REPLACE",
                      "XPATH_VALUE_KEY_REGEX_REPLACE"}                  -> 2
      [] OTHER                                                          -> 1

Handler == Head(rest).handler
Arg(i)  == values[Len(values) - Arity(Handler) + i]

\* The parser calls a handler; it goes past CHECK_PEG_ARGUMENT.
Calls(handler) ==
    /\ evaluating
    /\ rest # <<>>
    /\ Handler = handler
    /\ continueProcessing
    /\ UNCHANGED <<callVars, nodes, checkVars, histVars>>

\* The handler returns a value in the place of those it read.
Returns(v) ==
    /\ rest' = Tail(rest)
    /\ values' = Append(SubSeq(values, 1, Len(values) - Arity(Handler)), v)

Yields(v) == Returns(v) /\ UNCHANGED <<continueProcessing, expressionResult>>

\* A cast of the wrong type or STOP_PROCESSING.
Fails ==
    /\ Returns(Default(Handler))
    /\ expressionResult' = FALSE
    /\ UNCHANGED continueProcessing

-----------------------------------------------------------------------------
(***************************************************************************)
(* The handlers.                                                           *)
(***************************************************************************)

\* CHECK_PEG_ARGUMENT: nothing is done after a condition was false.
Skipped ==
    /\ evaluating
    /\ rest # <<>>
    /\ Handler \notin {"MUST", "THEN"}
    /\ ~continueProcessing
    /\ Yields(Default(Handler))
    /\ UNCHANGED <<callVars, nodes, checkVars, histVars>>

\* BooleanHandle, NumberHandle, StringHandle, RelativeOperatorHandle: the value
\* of the token.
TokenHandle ==
    \E handler \in {"BOOLEAN", "NUMBER", "RELATIVE_OPERATOR", "STRING"} :
        /\ Calls(handler)
        /\ Yields(Head(rest).value)

CountHandle ==
    /\ Calls("COUNT")
    /\ IF Arg(1).type = "xpaths"
       THEN Yields(Value("int", Cardinality({x \in Arg(1).val : Exists(Tree, x)})))
       ELSE Fails

ExistsHandle ==
    /\ Calls("EXISTS")
    /\ IF Arg(1).type = "xpaths"
       THEN Yields(Bool(\E x \in Arg(1).val : Exists(Tree, x)))
       ELSE Fails

\* Mutation: the result is returned and ContinueProcessing left as it was.
InfixAlwaysContinues ==
    /\ Calls("INFIX")
    /\ IF Arg(1).type \in {"bool", "string", "int"} /\ Arg(3).type = Arg(1).type
       THEN Yields(Bool((Arg(2).val = <<"==">>) <=> (Arg(1).val = Arg(3).val)))
       ELSE Fails

\* Both sides must have one type.  A comparison that is false stops the
\* processing; one that cannot be made does not.
InfixExpressionHandle ==
    /\ Calls("INFIX")
    /\ IF Arg(1).type \in {"bool", "string", "int"} /\ Arg(3).type = Arg(1).type
       THEN LET result == (Arg(2).val = <<"==">>) <=> (Arg(1).val = Arg(3).val)
            IN  /\ Returns(Bool(result))
                /\ continueProcessing' = result
                /\ UNCHANGED expressionResult
       ELSE Fails

\* Mutation: the test of ContinueProcessing comes first, as in the others.
MustSkipped ==
    /\ evaluating
    /\ rest # <<>>
    /\ Handler = "MUST"
    /\ IF ~continueProcessing
       THEN /\ Returns(Bool(FALSE))
            /\ expressionResult' = FALSE
            /\ UNCHANGED continueProcessing
       ELSE /\ Returns(Arg(1))
            /\ expressionResult' = (Arg(1) = Bool(TRUE))
            /\ UNCHANGED continueProcessing
    /\ UNCHANGED <<callVars, nodes, checkVars, histVars>>

\* After a condition that was false the result is what it is by now.
MustHandle ==
    /\ evaluating
    /\ rest # <<>>
    /\ Handler = "MUST"
    /\ IF ~continueProcessing
       THEN Yields(Bool(expressionResult))
       ELSE IF Arg(1).type = "bool"
       THEN /\ Returns(Arg(1))
            /\ expressionResult' = (Arg(1) = Bool(TRUE))
            /\ UNCHANGED continueProcessing
       ELSE /\ Returns(Bool(FALSE))
            /\ expressionResult' = FALSE
            /\ continueProcessing' = FALSE
    /\ UNCHANGED <<callVars, nodes, checkVars, histVars>>

\* Between a condition and its consequence: without the condition it is met.
ThenStatementHandle ==
    /\ evaluating
    /\ rest # <<>>
    /\ Handler = "THEN"
    /\ Returns(Void)
    /\ expressionResult' = (expressionResult \/ ~continueProcessing)
    /\ UNCHANGED <<callVars, nodes, checkVars, continueProcessing, histVars>>

\* The target of a reference, "@" being the name of the source.
RefXPath(source, ref) ==
    EvaluateXPath(source, [i \in DOMAIN ref |->
        IF ref[i] = Reference /\ Last(ref) = Reference THEN Last(source) ELSE ref[i]])

\* The first reference of the node that selects something.
ReferenceHandle ==
    /\ Calls("REFERENCE")
    /\ LET first == SelectInSeq(References[node],
                        LAMBDA ref : Exists(Tree, RefXPath(node, ref)))
       IN  Yields(String(IF first = 0 THEN <<>> ELSE RefXPath(node, References[node][first])))

XPathHandle ==
    /\ Calls("XPATH")
    /\ LET x == EvaluateXPath(node, Arg(1).val)
       IN  Yields(XPaths(IF Arg(1).val # <<>> /\ Exists(Tree, x) THEN {x} ELSE {}))

\* Each "[@key]" is replaced by the token that the node's own xpath has in the
\* same place, or by what Replace makes of it.
ReplaceKeys(path, Replace(_)) ==
    [i \in DOMAIN path |->
        IF path[i] = Key /\ i \in DOMAIN node THEN Replace(node[i]) ELSE path[i]]

\* Leaves are loaded as strings.
LeafValue(path) == String(<<root[CHOOSE p \in Select(Tree, path) : TRUE]>>)
IsLeaf(path) == \E p \in Select(Tree, path) : root[p] # Composite

XPathValueHandle ==
    /\ Calls("XPATH_VALUE")
    /\ LET x == ReplaceKeys(Arg(1).val, LAMBDA name : name)
       IN  IF ~Exists(Tree, x) THEN Yields(Void)
           ELSE IF IsLeaf(x) THEN Yields(LeafValue(x))
           ELSE Fails

\* The xpaths of the children of the node above the wildcard; none if there is
\* no such node.
WildcardChildren(path) ==
    LET star == SelectInSeq(path, LAMBDA token : token = Wildcard)
    IN  UNION {Children(Tree, p) : p \in Select(Tree, SubSeq(path, 1, star - 1))}

HasWildcard(path) == \E i \in DOMAIN path : path[i] = Wildcard

\* The xpath is matched as a whole, and it begins with a separator.
XPathMatchRegexHandle ==
    /\ Calls("XPATH_MATCH_REGEX")
    /\ LET above    == EvaluateXPath(node, SubSeq(Arg(2).val, 1,
                          SelectInSeq(Arg(2).val, LAMBDA token : token = Wildcard) - 1))
           subnodes == IF HasWildcard(Arg(2).val)
                       THEN UNION {Children(Tree, p) : p \in Select(Tree, above)}
                       ELSE {Arg(2).val}
           given    == Select(Tree, EvaluateXPath(node, Arg(1).val))
       IN  Yields(XPaths({x \in subnodes :
                  /\ \E p \in given : HasSubstring(x, p)
                  /\ x \in RegexMatch[Arg(3).val]
                  /\ Exists(Tree, x)}))

\* The children that have the rest of the xpath below them, "@" being the name
\* of the node.  "[@key]" is not resolved.
WildcardMatches(path) ==
    LET named == IF Last(path) = Reference THEN Append(Front(path), Last(node)) ELSE path
        star  == SelectInSeq(named, LAMBDA token : token = Wildcard)
        below == SubSeq(named, star + 1, Len(named))
    IN  IF ~HasWildcard(named) THEN {}
        ELSE {c \in WildcardChildren(named) : Exists(Tree, c \o below)}

\* The list of children is in reverse order and the first match ends the loop.
XPathAnyHandle ==
    /\ Calls("XPATH_ANY")
    /\ Yields(XPaths(LastOf(WildcardMatches(Arg(1).val))))

XPathAllHandle ==
    /\ Calls("XPATH_ALL")
    /\ Yields(XPaths(WildcardMatches(Arg(1).val)))

\* "[@key]" of the first xpath is replaced by the second one as a whole.
XPathKeyBasedHandle ==
    /\ Calls("XPATH_KEY_BASED")
    /\ LET key == EvaluateXPath(node, Arg(2).val)
           x   == FlattenSeq([i \in DOMAIN Arg(1).val |->
                      IF Arg(1).val[i] = Key THEN key ELSE <<Arg(1).val[i]>>])
       IN  Yields(XPaths(IF Exists(Tree, x) THEN {x} ELSE {}))

XPathKeyRegexReplaceHandle ==
    /\ Calls("XPATH_KEY_REGEX_REPLACE")
    /\ LET x == ReplaceKeys(Arg(1).val, LAMBDA name : RegexSearch[Arg(2).val][name])
       IN  Yields(XPaths(IF Exists(Tree, x) THEN {x} ELSE {}))

XPathValueKeyRegexReplaceHandle ==
    /\ Calls("XPATH_VALUE_KEY_REGEX_REPLACE")
    /\ LET x == ReplaceKeys(Arg(1).val, LAMBDA name : RegexSearch[Arg(2).val][name])
       IN  Yields(IF IsLeaf(x) THEN LeafValue(x) ELSE Void)

-----------------------------------------------------------------------------
(***************************************************************************)
(* ConstraintChecker::validate: one constraint.                            *)
(***************************************************************************)

\* The nodes of c that refer to another node, with the nodes they refer to, as
\* saveXPathReference records them: <<target, source>>.
Recorded(c) ==
    {r \in UNION {{<<RefXPath(s, References[s][i]), s>> : i \in DOMAIN References[s]} :
                  s \in DOMAIN c \ {<<>>}} : Exists(DOMAIN c, r[1])}

\* Mutation: only the loop over the constraints of one node is left.
ResetButConstraints ==
    /\ xpath' = <<>> /\ node' = <<>>
    /\ evaluating' = FALSE
    /\ rest' = <<>> /\ values' = <<>>
    /\ continueProcessing' = TRUE /\ expressionResult' = FALSE
    /\ UNCHANGED constraints

Reset ==
    /\ xpath' = <<>> /\ node' = <<>>
    /\ constraints' = <<>> /\ evaluating' = FALSE
    /\ rest' = <<>> /\ values' = <<>>
    /\ continueProcessing' = TRUE /\ expressionResult' = FALSE

BeginConstraint ==
    /\ ~evaluating
    /\ constraints # <<>>
    /\ evaluating' = TRUE
    /\ rest' = Actions[Head(constraints)]
    /\ UNCHANGED <<callVars, nodes, xpath, node, constraints, values,
                   continueProcessing, expressionResult, histVars>>

\* A load ends the program, an update is given up.  What the update had taken
\* from the references stays taken.
Refuse ==
    /\ pc' = IF pc \in Loading THEN "down" ELSE "idle"
    /\ root' = IF pc \in Loading THEN NoTree ELSE config
    /\ target' = config
    /\ nodes' = {}
    /\ passed' = {}
    /\ disturbed' = (disturbed \/ (pc \notin Loading /\ ~(Recorded(config) \subseteq refs)))
    /\ Reset
    /\ UNCHANGED <<config, refs>>

Evaluated == evaluating /\ rest = <<>>

\* Mutation: the loop over the constraints ends with the first that is met.
ConstraintMetEnds ==
    /\ Evaluated
    /\ expressionResult
    /\ passed' = passed \cup {<<xpath, Head(constraints)>>}
    /\ constraints' = <<>>
    /\ evaluating' = FALSE
    /\ values' = <<>>
    /\ continueProcessing' = TRUE
    /\ expressionResult' = FALSE
    /\ UNCHANGED <<callVars, nodes, xpath, node, rest, disturbed>>

ConstraintMet ==
    /\ Evaluated
    /\ expressionResult
    /\ passed' = passed \cup {<<xpath, Head(constraints)>>}
    /\ constraints' = Tail(constraints)
    /\ evaluating' = FALSE
    /\ values' = <<>>
    /\ continueProcessing' = TRUE
    /\ expressionResult' = FALSE
    /\ UNCHANGED <<callVars, nodes, xpath, node, rest, disturbed>>

ConstraintFailed == Evaluated /\ ~expressionResult /\ Refuse

-----------------------------------------------------------------------------
(***************************************************************************)
(* The loops over the nodes.                                               *)
(***************************************************************************)

\* Mutation: the list of the nodes to remove is not reversed.
ReadyParentsFirst == FirstOf(nodes)

\* Removals go from the leaves up, in an order that depends on more than the
\* tree.  Elsewhere the tree stays the same while it is checked, so the order
\* does not matter to the verdict, and one will do.
Ready ==
    IF pc = "removing" THEN {n \in nodes : Below(nodes, n) = {}} ELSE FirstOf(nodes)

Between == ~evaluating /\ xpath = <<>>

\* Mutation: removals are checked as updates are.
ConstraintsOfUpdates(n) == UpdateConstraints[n]

ConstraintsOf(n) ==
    IF pc = "removing" THEN DeleteConstraints[n] ELSE UpdateConstraints[n]

\* A load goes on without a node that is not found, an update does not.
NextNode ==
    /\ Between
    /\ \E n \in Ready :
          IF Exists(Tree, n)
          THEN /\ xpath' = n
               /\ node' \in Select(Tree, n)
               /\ nodes' = nodes \ {n}
               /\ constraints' = ConstraintsOf(n)
               /\ UNCHANGED <<callVars, evaluating, parseVars, histVars>>
          ELSE IF pc \in Loading
          THEN nodes' = nodes \ {n} /\ UNCHANGED <<callVars, checkVars, parseVars, histVars>>
          ELSE Refuse

\* What is to be removed is taken from the tree at once.
NodeDone ==
    /\ ~evaluating
    /\ xpath # <<>>
    /\ constraints = <<>>
    /\ xpath' = <<>> /\ node' = <<>>
    /\ root' = IF pc = "removing"
               THEN [p \in Tree \ ({node} \cup Below(Tree, node)) |-> root[p]]
               ELSE root
    /\ UNCHANGED <<pc, config, target, refs, nodes, constraints, evaluating,
                   parseVars, histVars>>

-----------------------------------------------------------------------------
(***************************************************************************)
(* Config::Manager::load.                                                  *)
(***************************************************************************)

Init ==
    /\ pc = "down"
    /\ config \in Configs
    /\ target = config
    /\ refs = {}
    /\ root = NoTree
    /\ nodes = {}
    /\ xpath = <<>> /\ node = <<>>
    /\ constraints = <<>> /\ evaluating = FALSE
    /\ rest = <<>> /\ values = <<>>
    /\ continueProcessing = TRUE /\ expressionResult = FALSE
    /\ passed = {}
    /\ disturbed = FALSE

\* With a file that somebody wrote.
Start ==
    /\ pc = "down"
    /\ pc' = "loading"
    /\ \E c \in Configs :
          /\ config' = c
          /\ target' = c
          /\ root' = c
          /\ nodes' = DOMAIN c \ {<<>>}
    /\ refs' = {}
    /\ disturbed' = FALSE
    /\ UNCHANGED <<checkVars, parseVars, passed>>

\* With the file that a commit wrote.
Restart ==
    /\ pc = "idle"
    /\ pc' = "restarting"
    /\ nodes' = DOMAIN config \ {<<>>}
    /\ refs' = {}
    /\ disturbed' = FALSE
    /\ UNCHANGED <<config, target, root, checkVars, parseVars, passed>>

Loaded ==
    /\ pc \in Loading
    /\ Between
    /\ nodes = {}
    /\ pc' = "idle"
    /\ refs' = Recorded(config)
    /\ passed' = {}
    /\ UNCHANGED <<config, target, root, nodes, checkVars, parseVars, disturbed>>

-----------------------------------------------------------------------------
(***************************************************************************)
(* makeCandidateConfig, with a patch that leads from the config to target. *)
(***************************************************************************)

\* The paths of the patch: a whole subtree is one item.
RemovedPaths(from, to) ==
    {p \in DOMAIN from \ DOMAIN to : Parent(p) \in DOMAIN to}
AddedPaths(from, to) ==
    {p \in DOMAIN to \ {<<>>} :
        IF p \in DOMAIN from THEN from[p] # to[p] ELSE Parent(p) \in DOMAIN from}

\* Everything below the first names of the removed paths.
RemovalTree(from, removed) ==
    {n \in DOMAIN from : n = <<>> \/ \E p \in removed : n[1] = p[1]}

\* The nodes whose xpath has a removed path as a substring.
Doomed(from, removed) ==
    {n \in RemovalTree(from, removed) \ {<<>>} :
        /\ \E p \in removed : HasSubstring(n, p)
        /\ ~ \E p \in removed : IsStrictPrefix(n, p)}

Update ==
    /\ pc = "idle"
    /\ \E to \in Configs \ {config} :
          LET removed == RemovedPaths(config, to)
          IN  /\ Cardinality(removed \cup AddedPaths(config, to)) <= MaxItems
              /\ \A p \in removed : Exists(Tree, p)
              /\ target' = to
              /\ root' = [p \in RemovalTree(config, removed) |-> config[p]]
              /\ nodes' = Doomed(config, removed)
    /\ pc' = "removing"
    /\ UNCHANGED <<config, refs, checkVars, parseVars, histVars>>

Removed == Doomed(config, RemovedPaths(config, target))

\* Mutation: a target may go although a source stays.
RemoveXPathReferenceUnchecked ==
    /\ pc = "removing"
    /\ Between
    /\ nodes = {}
    /\ refs' = {r \in refs : r[2] \notin Removed}
    /\ pc' = "adding"
    /\ UNCHANGED <<config, target, root, nodes, checkVars, parseVars, histVars>>

RemoveXPathReference ==
    /\ pc = "removing"
    /\ Between
    /\ nodes = {}
    /\ \A r \in refs : r[1] \in Removed => r[2] \in Removed
    /\ refs' = {r \in refs : r[2] \notin Removed}
    /\ pc' = "adding"
    /\ UNCHANGED <<config, target, root, nodes, checkVars, parseVars, histVars>>

StillReferenced ==
    /\ pc = "removing"
    /\ Between
    /\ nodes = {}
    /\ \E r \in refs : r[1] \in Removed /\ r[2] \notin Removed
    /\ Refuse

\* Mutation: the tree is loaded as it was before the removals.
RemainingAll == DOMAIN config

\* What the removals leave of the tree, and what is loaded anew: everything
\* below the parents of the added paths.
Remaining == {n \in DOMAIN config : ~ \E p \in Removed : IsPrefix(p, n)}
Added     == AddedPaths(config, target)
Reloaded  == UNION {Below(DOMAIN target, Parent(p)) : p \in Added}

\* Mutation: only the paths of the patch, without what is below them.
TouchedItself == Added

\* The nodes whose xpath has an added path as a substring.
Touched == {n \in (Remaining \cup Reloaded) \ {<<>>} : \E p \in Added : HasSubstring(n, p)}

\* A parent that the removals took may have been loaded by an earlier item.
LoadAdded ==
    /\ pc = "adding"
    /\ \A p \in Added : Parent(p) \in Remaining \cup Reloaded
    /\ root' = [n \in Remaining \cup Reloaded |->
                   IF n \in Reloaded THEN target[n] ELSE config[n]]
    /\ nodes' = Touched
    /\ pc' = "updating"
    /\ passed' = {}
    /\ UNCHANGED <<config, target, refs, checkVars, parseVars, disturbed>>

NoParent ==
    /\ pc = "adding"
    /\ \E p \in Added : Parent(p) \notin Remaining
    /\ Refuse

\* The tree is loaded once more, from the new config.
Accept ==
    /\ pc = "updating"
    /\ Between
    /\ nodes = {}
    /\ pc' = "idle"
    /\ config' = target
    /\ root' = target
    /\ refs' = refs \cup Recorded(target)
    /\ passed' = {}
    /\ UNCHANGED <<target, nodes, checkVars, parseVars, disturbed>>

-----------------------------------------------------------------------------
Handle ==
    \/ Skipped
    \/ TokenHandle
    \/ CountHandle
    \/ ExistsHandle
    \/ InfixExpressionHandle
    \/ MustHandle
    \/ ThenStatementHandle
    \/ ReferenceHandle
    \/ XPathHandle
    \/ XPathValueHandle
    \/ XPathMatchRegexHandle
    \/ XPathAnyHandle
    \/ XPathAllHandle
    \/ XPathKeyBasedHandle
    \/ XPathKeyRegexReplaceHandle
    \/ XPathValueKeyRegexReplaceHandle

Validate == BeginConstraint \/ Handle \/ ConstraintMet \/ ConstraintFailed

Next ==
    \/ Start
    \/ Restart
    \/ Loaded
    \/ Update
    \/ RemoveXPathReference
    \/ StillReferenced
    \/ LoadAdded
    \/ NoParent
    \/ Accept
    \/ NextNode
    \/ NodeDone
    \/ Validate

Spec == Init /\ [][Next]_vars

-----------------------------------------------------------------------------
(***************************************************************************)
(* What a schema is to say for its references to be kept and its removals  *)
(* not to be refused.                                                      *)
(***************************************************************************)

HandlersOf(c) == [i \in DOMAIN Actions[c] |-> Actions[c][i].handler]

\* "must(exists(xpath(@)))"
AsksForTarget(c) == HandlersOf(c) = <<"REFERENCE", "XPATH", "EXISTS", "MUST">>

\* "must(count(xpath('...')) == 0)", for an xpath below the node.
AsksForNone(n, c) ==
    /\ HandlersOf(c) = <<"STRING", "XPATH", "COUNT", "RELATIVE_OPERATOR", "NUMBER", "INFIX", "MUST">>
    /\ Actions[c][4].value = String(<<"==">>)
    /\ Actions[c][5].value = Value("int", 0)
    /\ LET x == EvaluateXPath(n, Actions[c][1].value.val)
       IN  IsStrictPrefix(n, x) /\ InOnePlace(Paths, x)

\* A node with references asks for its target; neither the target nor the node is
\* taken for another one.
ReferencesAsk ==
    \A s \in Paths : References[s] # <<>> =>
        /\ s # <<>>
        /\ \E i \in DOMAIN UpdateConstraints[s] : AsksForTarget(UpdateConstraints[s][i])
        /\ \A i \in DOMAIN References[s] : InOnePlace(Paths, RefXPath(s, References[s][i]))
        /\ \A p \in Paths : HasSubstring(s, p) => IsPrefix(p, s)

DeletesAskForNone ==
    \A n \in Paths : \A i \in DOMAIN DeleteConstraints[n] : AsksForNone(n, DeleteConstraints[n][i])

-----------------------------------------------------------------------------
(***************************************************************************)
(* Properties.                                                             *)
(***************************************************************************)

\* What a call works with belongs together: no constraint without its node, no
\* evaluation without its constraint, and nothing left of a call that ended.
TypeOK ==
    /\ pc \in Loading \cup {"down", "idle", "removing", "adding", "updating"}
    /\ config \in Configs /\ target \in Configs
    /\ Tree \subseteq Paths
    /\ nodes \subseteq Paths \ {<<>>}
    /\ xpath \in Paths
    /\ constraints \in Seq(Constraints)
    /\ evaluating \in BOOLEAN
    /\ continueProcessing \in BOOLEAN /\ expressionResult \in BOOLEAN
    /\ passed \subseteq Paths \X Constraints
    /\ disturbed \in BOOLEAN
    /\ evaluating => constraints # <<>>
    /\ constraints # <<>> => xpath # <<>>
    /\ pc \in {"down", "idle", "adding"} => nodes = {} /\ Between
    /\ pc \in {"down", "idle"} => passed = {}

\* Although select() searches the whole subtree for each name, it finds the node
\* that has the xpath, and not one of the same name deeper in the tree or before
\* it: constraints are evaluated for the node that is listed.
SelectsItself == node = xpath

\* The config a client gets to see has the target of each of its references, as
\* long as no refused update took references with it (config.cpp:1161).
ReferencesExist ==
    pc = "idle" /\ ~disturbed =>
        \A s \in DOMAIN config :
            References[s] # <<>> =>
                \E i \in DOMAIN References[s] : Exists(DOMAIN config, RefXPath(s, References[s][i]))

\* The tree that the constraints of an update are evaluated in has nothing but
\* what the client gets: nothing that was to go, and no value from before.
NothingStale ==
    pc = "updating" => \A p \in Tree : p \in DOMAIN target /\ root[p] = target[p]

\* A load evaluates every constraint of every node of the config, although it
\* goes on without a node that is not found.
LoadedIsChecked ==
    [][pc' = "idle" /\ pc \in Loading =>
          \A n \in DOMAIN config \ {<<>>} : \A i \in DOMAIN UpdateConstraints[n] :
              <<n, UpdateConstraints[n][i]>> \in passed]_vars

\* Whatever an update takes from the config has met every one of its constraints
\* on removal, although only the tops of what goes are in the patch.
RemovedIsChecked ==
    [][pc = "removing" /\ pc' = "adding" =>
          \A n \in DOMAIN config \ DOMAIN target : \A i \in DOMAIN DeleteConstraints[n] :
              <<n, DeleteConstraints[n][i]>> \in passed]_vars

\* What an accepted update adds or changes, and everything below it, has met
\* every one of its constraints.
AcceptedIsChecked ==
    [][pc = "updating" /\ pc' = "idle" /\ config' = target =>
          \A n \in DOMAIN target : \A p \in AddedPaths(config, target) :
              IsPrefix(p, n) =>
                  \A i \in DOMAIN UpdateConstraints[n] :
                      <<n, UpdateConstraints[n][i]>> \in passed]_vars

\* Nodes are removed from the leaves up, in whatever order among branches: the
\* constraint that a lag or a vlan be empty never refuses a removal, nor does a
\* node that went with its parent.
DeletesNeverRefused ==
    [][pc = "removing" /\ ~(Between /\ nodes = {}) => pc' # "idle"]_vars

\* Once the condition of an "if" was false its constraint is met, whatever the
\* actions of the consequence return: none of them undoes "then".
VacuousIsMet ==
    [][evaluating /\ ~continueProcessing /\ expressionResult /\ evaluating' =>
          ~continueProcessing' /\ expressionResult']_vars

\* lacp.json:50 "must(xpath_value('/interface/aggregate-ethernet[@key]/protocol')
\* == 'lacp')": what the updates leave behind meets the constraints of the
\* schema, so a restart loads it.
RestartAccepts == [][~(pc = "restarting" /\ pc' = "down")]_vars

=============================================================================
