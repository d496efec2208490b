------------------------------- MODULE XPath --------------------------------
(***************************************************************************)
(* The node tree (node/*.cpp) and how nodes are found in it by their xpath *)
(* (xpath.cpp).                                                            *)
(*                                                                         *)
(* A node is known by its path, the sequence of the names from the root's  *)
(* child down to it; the root is <<>>.  A tree is a set of paths with all  *)
(* their prefixes.  An xpath is the sequence of its tokens: the code puts  *)
(* a separator before every "[@key]" before it looks at the tokens, so     *)
(* "/a[@key]/b" is <<"a", "[@key]", "b">>; the empty string is <<>>.       *)
(*                                                                         *)
(* Composite::Accept walks a tree in preorder, the children of a node in   *)
(* the order of std::map.  visit() returning false ends the loop over the  *)
(* children of that one composite; the loops further up go on.             *)
(***************************************************************************)
EXTENDS Naturals, Sequences, SequencesExt, FiniteSets

CONSTANTS
    Rank,    \* the names that may occur, each with its place in the order
    Starts   \* <<a, b>>: the name b begins with the name a and is longer

ASSUME RankAssumption ==
    /\ \A a \in DOMAIN Rank : Rank[a] \in Nat
    /\ \A a, b \in DOMAIN Rank : Rank[a] = Rank[b] => a = b

Key       == "[@key]"
Wildcard  == "*"
Reference == "@"

-----------------------------------------------------------------------------
(***************************************************************************)
(* The tree.                                                               *)
(***************************************************************************)

Parent(p) == Front(p)
Children(tree, p) == {c \in tree : c # <<>> /\ Parent(c) = p}
Below(tree, p) == {d \in tree : IsStrictPrefix(p, d)}

\* Node a is met before node b in a walk of the tree.
Precedes(a, b) ==
    \/ IsStrictPrefix(a, b)
    \/ \E i \in DOMAIN a \cap DOMAIN b :
          /\ \A j \in 1 .. i - 1 : a[j] = b[j]
          /\ Rank[a[i]] < Rank[b[i]]

FirstOf(nodes) == {p \in nodes : \A q \in nodes \ {p} : Precedes(p, q)}
LastOf(nodes)  == {p \in nodes : \A q \in nodes \ {p} : Precedes(q, p)}

\* xpath.find(part) != npos, for a part that begins with a separator.
HasSubstring(xpath, part) ==
    \E k \in 0 .. Len(xpath) - Len(part) :
        \A i \in DOMAIN part :
            \/ xpath[k + i] = part[i]
            \/ i = Len(part) /\ <<part[i], xpath[k + i]>> \in Starts

-----------------------------------------------------------------------------
(***************************************************************************)
(* Selection: NodeFinder and XPath::select.  "No node" is the empty set.   *)
(***************************************************************************)

\* The nodes below p that a finder wanting key visits: of each composite those
\* up to the child named key.
Visited(tree, p, key) ==
    {d \in Below(tree, p) :
        \A i \in Len(p) + 1 .. Len(d) :
            LET wanted == Append(SubSeq(d, 1, i - 1), key)
            IN  wanted \in tree => d = wanted \/ Rank[d[i]] < Rank[key]}

\* Mutation: the first node of the wanted name ends the whole walk.
FindFirst(tree, p, key) == FirstOf({d \in Below(tree, p) : Last(d) = key})

\* Mutation: only the children of the node are searched.
FindChild(tree, p, key) == {Append(p, key)} \cap tree

\* A finder keeps the last node of the wanted name that it visits.
Find(tree, p, key) == LastOf({d \in Visited(tree, p, key) : Last(d) = key})

FindNext(tree, found, key) == UNION {Find(tree, p, key) : p \in found}

\* The nodes found after each number of names.
FoundAfter(tree, keys) ==
    LET found[i \in 0 .. Len(keys)] ==
            IF i = 0 THEN {<<>>} ELSE FindNext(tree, found[i - 1], keys[i])
    IN  found

\* A last token "value" stands for the node itself.
Select(tree, xpath) ==
    LET keys == IF xpath # <<>> /\ Last(xpath) = "value" THEN Front(xpath) ELSE xpath
    IN  IF xpath = <<>> THEN {} ELSE FoundAfter(tree, keys)[Len(keys)]

Exists(tree, xpath) == Select(tree, xpath) # {}

\* No name of the xpath is, below what comes before it, that of another of the
\* paths than its own: the xpath is not found in any other place.
InOnePlace(paths, xpath) ==
    /\ xpath \in Seq(STRING)
    /\ \A i \in DOMAIN xpath :
          /\ xpath[i] # "value"
          /\ \A p \in paths :
                IsStrictPrefix(SubSeq(xpath, 1, i - 1), p) /\ Last(p) = xpath[i] =>
                    p = SubSeq(xpath, 1, i)

-----------------------------------------------------------------------------
(***************************************************************************)
(* Resolution of "[@key]" for the node whose path is own.                  *)
(***************************************************************************)

\* The parent of the nearest node from own upwards that has the wanted name;
\* if there is none, own itself.  The root's name is "/".
KeyName(own, wanted) ==
    LET at == {i \in DOMAIN own : own[i] = wanted}
        i  == CHOOSE i \in at : \A j \in at : j <= i
    IN  IF at = {} THEN Last(own) ELSE IF i = 1 THEN "/" ELSE own[i - 1]

\* XPath::evaluateXPath: the token after the last "[@key]" is looked for among
\* the node and its ancestors ("[@key]" itself where nothing follows), and all
\* occurrences get the same name.
EvaluateXPath(own, xpath) ==
    LET last == SelectLastInSeq(xpath, LAMBDA token : token = Key)
        wanted == xpath[IF last < Len(xpath) THEN last + 1 ELSE last]
    IN  IF last = 0 THEN xpath
        ELSE [i \in DOMAIN xpath |->
                 IF xpath[i] = Key THEN KeyName(own, wanted) ELSE xpath[i]]

=============================================================================
