-------------------------- MODULE DependencyPaths ---------------------------
(***************************************************************************)
(* How the xpaths of "update-dependencies" become xpaths of a config       *)
(* (nodes_ordering.cpp): the three resolvers and the part of               *)
(* NodeDependencyManager::resolve that combines them.  The sort that takes *)
(* the result is NodesOrdering.                                            *)
(*                                                                         *)
(* A dependency is a sequence of tokens as in XPath; "*" and "@" are       *)
(* tokens of their own.  Operators marked "Mutation:" are variants with a  *)
(* bug, which the properties must tell from the definition they precede.   *)
(***************************************************************************)
EXTENDS XPath

HasToken(dep, token) == \E i \in DOMAIN dep : dep[i] = token
PlaceOf(dep, token)  == SelectInSeq(dep, LAMBDA t : t = token)
Pre(dep, token)  == SubSeq(dep, 1, PlaceOf(dep, token) - 1)
Post(dep, token) == SubSeq(dep, PlaceOf(dep, token) + 1, Len(dep))

\* The node of that name which a walk of the tree meets next.
ReachNext(tree, met, name) ==
    UNION {FirstOf({q \in Below(tree, <<>>) : Last(q) = name /\ Precedes(p, q)}) : p \in met}

\* The node met with each number of names.
ReachedAfter(tree, names) ==
    LET met[i \in 0 .. Len(names)] ==
            IF i = 0 THEN {<<>>} ELSE ReachNext(tree, met[i - 1], names[i])
    IN  met

\* A resolver takes the tokens before the one it resolves off its list as it
\* meets nodes with these names, anywhere in the tree: the node it meets last, if
\* it gets to the end of the list.
Reached(tree, names) == IF names = <<>> THEN {} ELSE ReachedAfter(tree, names)[Len(names)]

\* SubnodeChildsVisitor: the nodes below p whose parent has the name of p.
Subnodes(tree, p) == {d \in Below(tree, p) : Len(d) > 1 /\ d[Len(d) - 1] = Last(p)}

\* What the token is replaced by, for each of the subnodes.
Replaced(dep, token, subnodes) ==
    {Pre(dep, token) \o <<Last(d)>> \o Post(dep, token) : d \in subnodes}

\* WildcardDependencyResolverVisitior and KeySelectorResolverVisitior: every
\* subnode takes the place of the token.
ResolveEach(tree, dep, token) ==
    Replaced(dep, token, UNION {Subnodes(tree, p) : p \in Reached(tree, Pre(dep, token))})

\* Mutation: the first of the list is taken for the one that was met last.
ResolveKeyToOne(tree, dep, token) ==
    Replaced(dep, token, UNION {FirstOf(Subnodes(tree, p)) : p \in Reached(tree, Pre(dep, token))})

ResolveKey(tree, dep, token) == ResolveEach(tree, dep, token)

\* NodeReferenceResolverVisitior: the list is in reverse order and the loop ends
\* with the first, whatever the name of the node that depends.
ResolveReference(tree, dep) ==
    Replaced(dep, Reference,
             UNION {LastOf(Subnodes(tree, p)) : p \in Reached(tree, Pre(dep, Reference))})

\* One xpath that took the place of a wildcard: a key and a reference in it are
\* resolved one without the other.
ResolveInWildcard(tree, dep) ==
    IF ~HasToken(dep, Key) /\ ~HasToken(dep, Reference) THEN {dep}
    ELSE {d \in IF HasToken(dep, Key) THEN ResolveKey(tree, dep, Key) ELSE {} : ~HasToken(d, Reference)}
         \cup (IF HasToken(dep, Reference) THEN ResolveReference(tree, dep) ELSE {})

WithWildcard(tree, dep) ==
    IF HasToken(dep, Wildcard)
    THEN UNION {ResolveInWildcard(tree, d) : d \in ResolveEach(tree, dep, Wildcard)}
    ELSE {}

WithoutWildcard(tree, dep) ==
    CASE HasToken(dep, Reference) -> ResolveReference(tree, dep)
      [] HasToken(dep, Key) /\ ~HasToken(dep, Reference) -> ResolveKey(tree, dep, Key)
      [] OTHER -> {}

\* The xpaths that a node with this dependency depends on; the dependency as it
\* is when nothing comes of it.
Resolve(tree, dep) ==
    LET wild  == WithWildcard(tree, dep)
        plain == WithoutWildcard(tree, dep)
    IN  IF wild # {} THEN wild ELSE IF plain # {} THEN plain ELSE {dep}

=============================================================================
