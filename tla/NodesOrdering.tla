--------------------------- MODULE NodesOrdering ----------------------------
(***************************************************************************)
(* The order in which nodes are sent to the backend: one call of           *)
(* NodeDependencyManager::resolve (nodes_ordering.cpp) and of the          *)
(* topological sort it uses, run_update_op (topo_sort.cpp).                *)
(*                                                                         *)
(* A call is given a config; the xpaths its nodes depend on, which need    *)
(* not be in the config, come from DependencyPaths.  makeGraphNode         *)
(* unfolds the dependencies into one tree per node and depResolve walks    *)
(* each tree; the walk of the trees visits what a walk of the graph with   *)
(* the same recursion visits, so the trees are not kept.  The recursion is *)
(* an explicit stack, whose nodes are the list "unresolved".  Containers   *)
(* of std::map and std::set are iterated in the order of their xpaths.     *)
(* Operators marked "Mutation:" are variants with a bug, which the         *)
(* properties must tell from the definition they precede.                  *)
(***************************************************************************)
EXTENDS DependencyPaths

CONSTANTS
    Sorted,  \* every xpath that may occur, in the order of std::map
    Within,  \* <<p, n>>: p is a proper substring of n, as a parent's xpath is
    Trees,   \* the trees of the configs, without their roots
    Declarations(_)  \* what "update-dependencies" may have for the nodes of a tree

Names == ToSet(Sorted)

ASSUME SortedAssumption == Sorted \in Seq(Names) /\ Cardinality(Names) = Len(Sorted)
ASSUME WithinAssumption ==
    /\ Within \subseteq Names \X Names
    /\ \A v, w \in Within : v[1] # v[2] /\ (v[2] = w[1] => <<v[1], w[2]>> \in Within)
ASSUME TreesAssumption ==
    \A tree \in Trees :
        /\ tree \subseteq Names
        /\ \A declared \in Declarations(tree) : \A n \in tree : \A d \in declared[n] :
              Resolve(tree, d) \subseteq Names

VARIABLES
    pc,        \* where the call is
    deps,      \* cmds: the xpaths each node depends on
    roots,     \* graph_nodes still to be resolved
    stack,     \* the calls of depResolve: the node and the edges still to follow
    resolved,  \* what depResolve appends to; a node may occur more than once
    rest,      \* resolved nodes still to be merged
    ordered    \* ordered_cmds

vars == <<pc, deps, roots, stack, resolved, rest, ordered>>

NoDeps == [n \in {} |-> {}]
Keys == DOMAIN deps

\* What an iteration of a std::map or std::set meets first, or last, of S.
FirstIn(S) == Sorted[CHOOSE i \in DOMAIN Sorted :
                 Sorted[i] \in S /\ \A j \in DOMAIN Sorted : Sorted[j] \in S => i <= j]
LastIn(S)  == Sorted[CHOOSE i \in DOMAIN Sorted :
                 Sorted[i] \in S /\ \A j \in DOMAIN Sorted : Sorted[j] \in S => j <= i]

Init ==
    /\ pc = "idle"
    /\ deps = NoDeps
    /\ roots = {} /\ stack = <<>> /\ resolved = <<>>
    /\ rest = <<>> /\ ordered = <<>>

Call ==
    /\ pc = "idle"
    /\ \E tree \in Trees : \E declared \in Declarations(tree) :
          deps' = [n \in tree |-> UNION {Resolve(tree, d) : d \in declared[n]}]
    /\ pc' = "building"
    /\ UNCHANGED <<roots, stack, resolved, rest, ordered>>

\* Mutation: the list of resolved nodes outlives the call.
ReturnKeepsResolved ==
    /\ pc \in {"done", "failed"}
    /\ pc' = "idle"
    /\ deps' = NoDeps
    /\ ordered' = <<>>
    /\ stack' = <<>>
    /\ roots' = {}
    /\ UNCHANGED <<resolved, rest>>

\* The caller takes the list; run_update_op's error is not looked at, so a
\* call that failed hands back what is in the list, nothing.
Return ==
    /\ pc \in {"done", "failed"}
    /\ pc' = "idle"
    /\ deps' = NoDeps
    /\ resolved' = <<>>
    /\ ordered' = <<>>
    /\ stack' = <<>>
    /\ roots' = {}
    /\ UNCHANGED rest

-----------------------------------------------------------------------------
(***************************************************************************)
(* makeGraphNode.                                                          *)
(***************************************************************************)

\* Two nodes that depend on each other, or one that depends on itself.
TwoCycle == \E n \in Keys : \E m \in deps[n] \cap Keys : n \in deps[m]

\* The nodes left after each of as many rounds as there are nodes: in a round
\* those go that need none of the others.
LeftAfter(needs) ==
    LET left[i \in 0 .. Cardinality(DOMAIN needs)] ==
            IF i = 0 THEN DOMAIN needs
            ELSE LET S == left[i - 1] IN {n \in S : needs[n] \cap S # {}}
    IN  left

\* The largest set of nodes in which each needs one of them: those on a cycle
\* and those that lead to it.
LeftOver(needs) == LeftAfter(needs)[Cardinality(DOMAIN needs)]

Acyclic == LeftOver(deps) = {}

\* Mutation: cycles are not looked for and not unfolded.
BuildUnchecked ==
    /\ pc = "building"
    /\ pc' = "sorting"
    /\ roots' = Keys
    /\ UNCHANGED <<deps, stack, resolved, rest, ordered>>

BuildGraph ==
    /\ pc = "building"
    /\ Acyclic
    /\ pc' = "sorting"
    /\ roots' = Keys
    /\ UNCHANGED <<deps, stack, resolved, rest, ordered>>

RefuseTwoCycle ==
    /\ pc = "building"
    /\ TwoCycle
    /\ pc' = "failed"
    /\ UNCHANGED <<deps, roots, stack, resolved, rest, ordered>>

\* A longer cycle unfolds without end: the stack overflows and the process is
\* started anew.  With a pair as well, either may be met first.
Overflow ==
    /\ pc = "building"
    /\ Cardinality(LeftOver(deps)) > 2
    /\ pc' = "idle"
    /\ deps' = NoDeps
    /\ UNCHANGED <<roots, stack, resolved, rest, ordered>>

-----------------------------------------------------------------------------
(***************************************************************************)
(* depResolve.                                                             *)
(***************************************************************************)

Edges(n) == IF n \in Keys THEN deps[n] ELSE {}
Frame(n) == [node |-> n, edges |-> Edges(n)]

\* Mutation: a node stays on the list when it is resolved.
UnresolvedKept == {stack[i].node : i \in 1 .. Len(stack)} \cup ToSet(resolved)

Unresolved == {stack[i].node : i \in 1 .. Len(stack)}

\* emplace_front has put the last xpath in front.
ResolveRoot ==
    /\ pc = "sorting"
    /\ stack = <<>>
    /\ roots # {}
    /\ stack' = <<Frame(LastIn(roots))>>
    /\ roots' = roots \ {LastIn(roots)}
    /\ UNCHANGED <<pc, deps, resolved, rest, ordered>>

\* The stack with the first edge of the innermost call taken.
EdgeTaken == [stack EXCEPT ![Len(stack)].edges = @ \ {FirstIn(@)}]

\* The edges of a node that is resolved already are passed over.  (The comment
\* says "edge not in resolved", the code looks for the node.)
ResolveEdge ==
    /\ pc = "sorting"
    /\ stack # <<>>
    /\ Last(stack).edges # {}
    /\ LET edge == FirstIn(Last(stack).edges)
       IN  IF Last(stack).node \in ToSet(resolved)
           THEN stack' = EdgeTaken /\ UNCHANGED pc
           ELSE IF edge \in Unresolved
           THEN pc' = "failed" /\ UNCHANGED stack
           ELSE stack' = Append(EdgeTaken, Frame(edge)) /\ UNCHANGED pc
    /\ UNCHANGED <<deps, roots, resolved, rest, ordered>>

\* Mutation: a node is pushed to the front of the list.
ResolvedToFront ==
    /\ pc = "sorting"
    /\ stack # <<>>
    /\ Last(stack).edges = {}
    /\ resolved' = <<Last(stack).node>> \o resolved
    /\ stack' = Front(stack)
    /\ UNCHANGED <<pc, deps, roots, rest, ordered>>

NodeResolved ==
    /\ pc = "sorting"
    /\ stack # <<>>
    /\ Last(stack).edges = {}
    /\ resolved' = Append(resolved, Last(stack).node)
    /\ stack' = Front(stack)
    /\ UNCHANGED <<pc, deps, roots, rest, ordered>>

AllResolved ==
    /\ pc = "sorting"
    /\ stack = <<>>
    /\ roots = {}
    /\ pc' = "merging"
    /\ rest' = resolved
    /\ UNCHANGED <<deps, roots, stack, resolved, ordered>>

-----------------------------------------------------------------------------
(***************************************************************************)
(* The merge of the trees.                                                 *)
(***************************************************************************)

\* Mutation: the last xpath that holds n is looked for.
InsertBeforeLast(n) ==
    LET at == SelectLastInSeq(ordered, LAMBDA m : <<n, m>> \in Within)
    IN  IF at = 0 THEN Append(ordered, n) ELSE InsertAt(ordered, at, n)

\* Mutation: a node with nothing below it is put in front.
InsertInFront(n) ==
    LET at == SelectInSeq(ordered, LAMBDA m : <<n, m>> \in Within)
    IN  IF at = 0 THEN <<n>> \o ordered ELSE InsertAt(ordered, at, n)

\* Before the first xpath of the list that has n as a substring, or at the end.
Inserted(n) ==
    LET at == SelectInSeq(ordered, LAMBDA m : <<n, m>> \in Within)
    IN  IF at = 0 THEN Append(ordered, n) ELSE InsertAt(ordered, at, n)

\* Mutation: what was merged is not erased from adj_list.
MergeAgain ==
    /\ pc = "merging"
    /\ rest # <<>>
    /\ rest' = Tail(rest)
    /\ ordered' = IF Head(rest) \in Keys THEN Inserted(Head(rest)) ELSE ordered
    /\ UNCHANGED <<pc, deps, roots, stack, resolved>>

\* A node is merged once, and only if it is in the config.
Merge ==
    /\ pc = "merging"
    /\ rest # <<>>
    /\ rest' = Tail(rest)
    /\ ordered' = IF Head(rest) \in Keys \ ToSet(ordered)
                  THEN Inserted(Head(rest)) ELSE ordered
    /\ UNCHANGED <<pc, deps, roots, stack, resolved>>

Merged ==
    /\ pc = "merging"
    /\ rest = <<>>
    /\ pc' = "done"
    /\ UNCHANGED <<deps, roots, stack, resolved, rest, ordered>>

Next ==
    \/ Call
    \/ BuildGraph
    \/ RefuseTwoCycle
    \/ Overflow
    \/ ResolveRoot
    \/ ResolveEdge
    \/ NodeResolved
    \/ AllResolved
    \/ Merge
    \/ Merged
    \/ Return

Spec == Init /\ [][Next]_vars

-----------------------------------------------------------------------------
(***************************************************************************)
(* Properties.                                                             *)
(***************************************************************************)

\* Nothing is left of a call when the next begins, nor of the walk when the merge
\* begins.
TypeOK ==
    /\ pc \in {"idle", "building", "sorting", "merging", "done", "failed"}
    /\ Keys \subseteq Names /\ \A n \in Keys : deps[n] \subseteq Names
    /\ roots \subseteq Keys
    /\ stack \in Seq([node : Names, edges : SUBSET Names])
    /\ resolved \in Seq(Names) /\ rest \in Seq(Names) /\ ordered \in Seq(Names)
    /\ pc \in {"idle", "building"} => resolved = <<>> /\ ordered = <<>>
    /\ pc \notin {"sorting", "failed"} => roots = {} /\ stack = <<>>
    /\ pc # "merging" => rest = <<>>
    /\ pc \notin {"merging", "done"} => ordered = <<>>

\* Where n first occurs in the sequence s.
First(s, n) == SelectInSeq(s, LAMBDA m : m = n)

\* Every node of s comes after those of the nodes it depends on that are in it.
DependenciesFirst(s) ==
    \A n \in ToSet(s) \cap Keys : \A m \in deps[n] \cap ToSet(s) : First(s, m) < First(s, n)

\* The walk of the trees is a topological sort although it passes over edges by
\* looking for the node instead of the edge: at every moment the nodes resolved
\* so far come after everything they depend on.
ResolvedIsSorted ==
    /\ DependenciesFirst(resolved)
    /\ \A n \in ToSet(resolved) \cap Keys : deps[n] \subseteq ToSet(resolved)

\* A node is put before the nodes below it and no later insertion comes between:
\* whatever the dependencies, the list never has a node before its parent.
ParentsFirst ==
    \A i, j \in DOMAIN ordered : i < j => <<ordered[j], ordered[i]>> \notin Within

\* A sort that succeeds hands back each node of the config exactly once.
EachNodeOnce ==
    pc = "done" => ToSet(ordered) = Keys /\ Len(ordered) = Cardinality(Keys)

\* What makeGraphNode lets through has no cycle that depResolve could meet: a
\* sort that has begun succeeds.
NoCircularReference == pc = "failed" => resolved = <<>> /\ TwoCycle

\* Nothing below a node is resolved before what the node depends on.
NoneBelowFirst ==
    \A n \in Keys : \A m \in deps[n] \cap Keys : \A d \in Keys :
        <<n, d>> \in Within => First(resolved, m) < First(resolved, d)

\* The merge puts a node before those below it, so that it may come before what it
\* depends on; it does so in no other case.
MergeKeepsSorted == pc = "done" /\ NoneBelowFirst => DependenciesFirst(ordered)

\* Some order of the nodes has every node after its parent and after what it
\* depends on.
Orderable == LeftOver([n \in Keys |-> deps[n] \cup {p \in Keys : <<p, n>> \in Within}]) = {}

\* topo_sort.cpp:146 "Keep "resolved order" of nodes": wherever the dependencies
\* allow parents to come first, the merge that puts them first also leaves
\* every node after those it depends on.
MergeKeepsOrder == pc = "done" /\ Orderable => DependenciesFirst(ordered)

=============================================================================
