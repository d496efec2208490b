--------------------------- MODULE MCNodesOrdering ----------------------------
(***************************************************************************)
(* Two kinds of calls.  Any: a node, its child and its grandchild, and one *)
(* beside them that sorts before them, with every dependency among the     *)
(* four.  Shipped: the configs of MCSchema with the dependencies that the  *)
(* shipped schema declares.                                                *)
(***************************************************************************)
EXTENDS NodesOrdering, MCSchema

AnyXPaths == {<<"protocol">>, <<"vlan">>, <<"vlan", "2">>, <<"vlan", "2", "members">>}
AnyTrees  == {t \in SUBSET AnyXPaths : \A p \in t : Len(p) = 1 \/ Front(p) \in t}

ShippedTrees == {t \in {DOMAIN c \ {<<>>} : c \in SchemaConfigs} :
                    \A p \in Referring \cap t : ReferenceOf(p) \in t}
MCShipped    == ShippedTrees
AllTrees     == AnyTrees \cup ShippedTrees
MCTrees      == AllTrees

MCDeclarations(tree) ==
    IF tree \in AnyTrees THEN [tree -> SUBSET AnyXPaths] ELSE {[p \in tree |-> Dependencies(p)]}

XPaths    == AnyXPaths \cup
             UNION {t \cup UNION {UNION {Resolve(t, d) : d \in Dependencies(n)} : n \in t} :
                    t \in ShippedTrees}
SubXPaths == {w \in XPaths \X XPaths : w[1] # w[2] /\ HasSubstring(w[2], w[1])}
InOrder   == LET insert(x, s) == InsertAt(s, 1 + Cardinality({i \in DOMAIN s : Precedes(s[i], x)}), x)
             IN  FoldSet(insert, <<>>, XPaths)
MCSorted  == InOrder
MCWithin  == SubXPaths

\* In the shipped configs no name before a token is that of another node: what is
\* proved of the resolvers is about every dependency of the shipped schema.
ASSUME DependenciesAssumption ==
    \A tree \in ShippedTrees : \A n \in tree :
        /\ ToSet(n) \cap {Key, Wildcard, Reference} = {}
        /\ \A dep \in Dependencies(n) : \A token \in {Key, Wildcard, Reference} :
              HasToken(dep, token) /\ Pre(dep, token) \in tree => InOnePlace(tree, Pre(dep, token))

-----------------------------------------------------------------------------
\* The call is one of a shipped config.
Shipped == <<"interface">> \in Keys

\* The xpath of a node is one that the dependency may stand for.
Fits(p, dep) ==
    /\ Len(p) = Len(dep)
    /\ \A i \in DOMAIN dep : dep[i] \in {p[i], Wildcard, Key, Reference}

\* Although the resolvers look for names and not for xpaths, they find what is
\* there: of the nodes that a "[@key]" or a "*" may stand for each one, of those
\* that a "@" may stand for at least one (nodes_ordering.cpp:65: never more).
Covered ==
    pc = "building" /\ Shipped =>
        \A n \in Keys : \A dep \in Dependencies(n) :
            LET fitting == {p \in Keys : Fits(p, dep)}
            IN  IF HasToken(dep, Reference) THEN fitting = {} \/ fitting \cap deps[n] # {}
                ELSE fitting \subseteq deps[n]

\* Whatever the resolvers make of its dependencies, a shipped config has no
\* cycle: neither a long one, on which the recursion would not end
\* (topo_sort.cpp:75), nor the error of the sort, which resolve ignores
\* (nodes_ordering.cpp:373).  So every node of the config is sent.
NothingDropped ==
    Shipped => /\ pc = "building" => Acyclic
               /\ pc \in {"done", "failed"} => ToSet(ordered) = Keys

\* An interface is sent before the lag's or vlan's member that refers to it, the
\* lag before its LACP settings and, when it has a member, before the vlan's
\* member that refers to it: also where "@" was resolved to another node.  (A lag
\* without members is sent after the vlan's member, and the LACP settings with
\* their members may come before the members of the lag.)
TargetsFirst ==
    pc = "done" /\ Shipped =>
        \A n \in Referring \cap Keys :
            LET weak == \/ n = Lacp \o <<"members", "e1">>
                        \/ n = Vlan \o <<"members", "tagged", "l1">>
                           /\ Append(Lag, "members") \notin Keys
            IN  weak \/ First(ordered, ReferenceOf(n)) < First(ordered, n)

=============================================================================
