--------------------------- MODULE ConfigManager ----------------------------
(***************************************************************************)
(* Config::Manager (config.cpp): loading the saved config, making, applying *)
(* and cancelling a candidate.  Each request to the backend is a step of   *)
(* its own, as is each step of saving the file, so the process may stop    *)
(* between any two of them.                                                *)
(*                                                                         *)
(* A config maps each node of the schema to its value, or to Absent.  A    *)
(* patch that is accepted is the diff of two configs (fValidatePatch), so  *)
(* a request to update names the config it leads to.  The node trees are   *)
(* kept as the sets of their nodes.  Containers are the objects between    *)
(* the root and the nodes; they have no actions and are always there.      *)
(* Every object and member of the schema states its "type", as all do in   *)
(* the repository.  Operators marked "Mutation:" are variants with a bug,  *)
(* which the properties must tell from the definition they precede.        *)
(***************************************************************************)
EXTENDS Sequences, SequencesExt

CONSTANTS
    Nodes,        \* nodes of the config tree
    Containers,   \* objects that hold nodes and are never removed
    Parent,       \* the node or container each node is in
    Ancestors,    \* all nodes and containers above a node
    Leaves,       \* nodes with a value; the others are Composites
    Values,       \* the values of leaves
    References,   \* <<source, target>>: the "reference" attribute of source
    Overlaps,     \* <<n, m>>: the xpath of m is a substring of the xpath of n
    OnUpdate,     \* nodes with an on-update-path action
    OnDelete,     \* nodes with an on-delete-path action
    Earlier,      \* <<m, n>>: NodeDependencyManager puts m before n
    Faults,       \* what may go wrong in the environment, see AllFaults
    Absent,       \* value of a node that a config does not have
    NoConfig,     \* nlohmann::json() of a config that is not there
    Truncated     \* content of a file whose last bytes were not written

\* lost: a request or its answer is lost, Client::post returns false.
\* unheard: the backend served the request but the answer is lost.
\* status: the backend answers with an error status; Client::post returns true.
\* constraint: a delete- or update-constraint of the schema refuses the update.
\* restage: a client posts an update while a candidate is ready.
\* crash: the process stops at any step.
\* disk: a file cannot be opened, written or renamed.
\* flush: what the stream buffered does not reach the disk in flush().
AllFaults == {"lost", "unheard", "status", "constraint", "restage", "crash",
              "disk", "flush"}

Present == "present"

\* The configs that validateJsonConfig admits.
Configs ==
    {c \in [Nodes -> Values \cup {Present, Absent}] :
        \A n \in Nodes :
            /\ c[n] # Absent => (c[n] = Present <=> n \notin Leaves)
            /\ c[n] # Absent /\ Parent[n] \in Nodes => c[Parent[n]] # Absent}

\* The nodes that may be the next to be sent, of those that are still to be
\* sent: nothing that goes before them is left.
NextToAdd(nodes) == {n \in nodes : \A m \in nodes : <<m, n>> \notin Earlier}

\* Mutation: ordered_nodes_by_xpath.reverse() is missing.
NotReversed(nodes) == NextToAdd(nodes)

\* Nodes are deleted in the reverse of the order in which they are added.
NextToDelete(nodes) == {n \in nodes : \A m \in nodes : <<n, m>> \notin Earlier}

\* Nodes and containers form a forest, and a path contains itself and those
\* above it.
ASSUME TreeAssumption ==
    /\ Leaves \cup OnUpdate \cup OnDelete \subseteq Nodes
    /\ Nodes \cap Containers = {}
    /\ Parent \in [Nodes -> Nodes \cup Containers]
    /\ \A n \in Nodes :
           IF Parent[n] \in Nodes
           THEN Ancestors[n] = {Parent[n]} \cup Ancestors[Parent[n]]
           ELSE Parent[n] \in Ancestors[n] /\ Ancestors[n] \subseteq Containers
    /\ \A S \in SUBSET Nodes : S # {} => \E n \in S : Ancestors[n] \cap S = {}
    /\ \A n \in Nodes : \A m \in {n} \cup (Ancestors[n] \cap Nodes) : <<n, m>> \in Overlaps
\* Nodes that wait for each other are refused, so some node is always next.
ASSUME OrderAssumption ==
    /\ References \subseteq Nodes \X Nodes
    /\ \A S \in SUBSET Nodes : S # {} => NextToAdd(S) # {} /\ NextToDelete(S) # {}
ASSUME ValuesAssumption ==
    /\ Absent \notin Values \cup {Present}
    /\ Present \notin Values
    /\ NoConfig \notin Configs
    /\ Truncated \notin Configs \cup {NoConfig}
ASSUME FaultsAssumption == Faults \subseteq AllFaults

VARIABLES
    file,       \* the config file
    tmp,        \* the temporary file next to it
    running,    \* RunningJsonConfig
    runTree,    \* nodes of _running_config
    candidate,  \* CandidateJsonConfig; NoConfig: _is_candidate_config_ready is false
    candTree,   \* nodes of _candidate_config
    refs,       \* _candidate_xpath_source_reference_by_target
    backend,    \* what the backend was last told of each node
    pc,         \* where the call in progress is
    op,         \* the call in progress
    goal,       \* json_config: what the call leads to
    tree,       \* nodes of node_config, the tree the call works on
    savedRefs,  \* cancelCandidateConfig's copy of the references
    rest,       \* ordered_nodes_by_xpath still to be sent to the backend
    removed,    \* removed_nodes_by_xpath
    added,      \* added_nodes_by_xpath
    disturbed   \* history: see Disturb

storeVars == <<file, tmp, running, runTree, candidate, candTree>>
callVars  == <<op, goal, tree, savedRefs>>
vars == <<storeVars, refs, backend, pc, callVars, rest, removed, added, disturbed>>

States == {"down", "loading", "idle", "deleting", "undoDeletes", "adding",
           "undoAdds", "renaming", "publishing"}
Calls  == {"none", "update", "cancel", "expire"}

NodesOf(c) == {n \in Nodes : c[n] # Absent}

\* The update constraint of every source of a reference,
\* must(exists(xpath(@))), for the nodes that are being added.
TargetsExist(nodes, t) ==
    \A r \in References : r[1] \in nodes => r[2] \in t

\* Every variable stays in its type.
TypeOK ==
    /\ file \in Configs \cup {Truncated}
    /\ tmp \in Configs \cup {NoConfig, Truncated}
    /\ running \in Configs \cup {NoConfig}
    /\ candidate \in Configs \cup {NoConfig}
    /\ goal \in Configs \cup {NoConfig}
    /\ backend \in [Nodes -> Values \cup {Present, Absent}]
    /\ runTree \subseteq Nodes /\ candTree \subseteq Nodes /\ tree \subseteq Nodes
    /\ refs \subseteq References /\ savedRefs \subseteq References
    /\ pc \in States /\ op \in Calls
    /\ rest \subseteq Nodes
    /\ removed \in Seq(Nodes) /\ added \in Seq(Nodes)
    /\ disturbed \in BOOLEAN

\* The process is not running: only the files and the backend have a state.
Init ==
    /\ pc = "down"
    /\ running = NoConfig /\ runTree = {}
    /\ candidate = NoConfig /\ candTree = {}
    /\ refs = {}
    /\ op = "none" /\ goal = NoConfig /\ tree = {} /\ savedRefs = {}
    /\ rest = {} /\ removed = <<>> /\ added = <<>>
    /\ file \in {c \in Configs : TargetsExist(NodesOf(c), NodesOf(c))}
    /\ tmp = NoConfig
    /\ backend = [n \in Nodes |-> Absent]
    /\ disturbed = FALSE

-----------------------------------------------------------------------------
(***************************************************************************)
(* The backend and Client::post.                                           *)
(***************************************************************************)

\* How a request to the backend may end.
Outcomes == {"served"} \cup (Faults \cap {"lost", "unheard", "status"})

\* What Client::post returns: whatever the status, an answer is a success.
Answered(o) == o \in {"served", "status"}

\* The backend and the running process no longer need to agree once b holds.
Disturb(b) == disturbed' = (disturbed \/ b)

\* The backend is told that node n has value v.
Post(n, v, o) ==
    /\ backend' = IF o \in {"served", "unheard"}
                  THEN [backend EXCEPT ![n] = v]
                  ELSE backend
    /\ Disturb(o # "served")

\* A node without the action is passed over as if served.
PostIf(n, actions, v, o) ==
    \/ n \in actions /\ Post(n, v, o)
    \/ n \notin actions /\ o = "served" /\ UNCHANGED <<backend, disturbed>>

\* The process ends: exit(), an exception nobody catches, or a crash.
Stop ==
    /\ pc' = "down"
    /\ running' = NoConfig /\ runTree' = {}
    /\ candidate' = NoConfig /\ candTree' = {}
    /\ refs' = {}
    /\ op' = "none" /\ goal' = NoConfig /\ tree' = {} /\ savedRefs' = {}
    /\ rest' = {} /\ removed' = <<>> /\ added' = <<>>
    /\ UNCHANGED <<file, tmp>>

-----------------------------------------------------------------------------
(***************************************************************************)
(* References and the selection of nodes.                                  *)
(***************************************************************************)

\* The paths of the "remove" items of diff(c, d), and of its other items.
RemovedPaths(c, d) ==
    {n \in NodesOf(c) \ NodesOf(d) : Ancestors[n] \cap Nodes \subseteq NodesOf(d)}
AddedPaths(c, d) ==
    {n \in NodesOf(d) : c[n] # d[n] /\ Ancestors[n] \cap Nodes \subseteq NodesOf(c)}

\* Mutation: the paths are compared for equality.
SelectedExactly(t, paths) == t \cap paths

\* The nodes of a tree whose xpath has one of the paths as a substring.
Selected(t, paths) == {n \in t : \E p \in paths : <<n, p>> \in Overlaps}

\* The nodes to be deleted: selected ones that are not above a removed path.
ToRemove(t, paths) == Selected(t, paths) \ UNION {Ancestors[p] : p \in paths}

\* Mutation: sources and targets are exchanged.
SaveSourceByTarget(nodes, t) ==
    {<<r[2], r[1]>> : r \in {q \in References : q[1] \in nodes /\ q[2] \in t}}

\* saveXPathReference for some nodes of a tree: a source is registered only
\* where the tree has its target.
SaveXPathReference(nodes, t) ==
    {r \in References : r[1] \in nodes /\ r[2] \in t}

\* Mutation: the targets are not tested.
MayRemoveUnchecked(nodes) == TRUE

\* removeXPathReference erases the removed sources and fails, erasing nothing,
\* when a removed node is still the target of another source.
MayRemoveXPathReference(nodes) ==
    \A r \in refs : r[2] \in nodes => r[1] \in nodes

\* Mutation: the sources are not erased.
KeepXPathReference(nodes) == refs

RemoveXPathReference(nodes) == {r \in refs : r[1] \notin nodes}

-----------------------------------------------------------------------------
(***************************************************************************)
(* Starting: Config::Manager::load and fPerformAction.                     *)
(***************************************************************************)

\* A file that does not parse or does not pass its constraints ends the
\* process again at once, before anything is sent.
Start ==
    /\ pc = "down"
    /\ file # Truncated
    /\ TargetsExist(NodesOf(file), NodesOf(file))
    /\ pc' = "loading"
    /\ tree' = NodesOf(file)
    /\ refs' = SaveXPathReference(NodesOf(file), NodesOf(file))
    /\ rest' = NodesOf(file)
    /\ UNCHANGED <<storeVars, backend, op, goal, savedRefs, removed, added, disturbed>>

\* fPerformAction sends every node.  When a request fails, either nothing was
\* sent before and load returns false, or the first step of the rollback
\* throws: both end the process.
LoadPost(n, o) ==
    /\ pc = "loading"
    /\ n \in NextToAdd(rest)
    /\ PostIf(n, OnUpdate, file[n], o)
    /\ IF Answered(o)
       THEN /\ rest' = rest \ {n}
            /\ UNCHANGED <<storeVars, refs, pc, callVars, removed, added>>
       ELSE Stop

Loaded ==
    /\ pc = "loading"
    /\ rest = {}
    /\ pc' = "idle"
    /\ running' = file
    /\ runTree' = tree
    /\ tree' = {}
    /\ UNCHANGED <<file, tmp, candidate, candTree, refs, backend, op, goal,
                   savedRefs, rest, removed, added, disturbed>>

-----------------------------------------------------------------------------
(***************************************************************************)
(* fMakeCandidateConfigInternal, called by makeCandidateConfig from the    *)
(* running config and by cancelCandidateConfig from the candidate.         *)
(***************************************************************************)

\* The checks before anything is sent and the removal of the references of
\* the nodes to delete.  A call refused here changes nothing.
Begin(call, json, t, target) ==
    LET paths == RemovedPaths(json, target)
        doomed == ToRemove(t, paths)
    IN  /\ pc = "idle"
        /\ paths \subseteq t
        /\ MayRemoveXPathReference(doomed)
        /\ pc' = "deleting"
        /\ op' = call
        /\ goal' = target
        /\ tree' = t
        /\ savedRefs' = refs
        /\ refs' = RemoveXPathReference(doomed)
        /\ rest' = doomed
        /\ UNCHANGED <<storeVars, backend, removed, added>>

\* makeCandidateConfig starts from the running config whether or not a
\* candidate is ready.
MakeCandidateConfig(target) ==
    /\ candidate # NoConfig => "restage" \in Faults
    /\ running # NoConfig
    /\ Begin("update", running, runTree, target)
    /\ Disturb(candidate # NoConfig)

\* cancelCandidateConfig, by a client or by the timer callback, works on the
\* tree of the candidate itself.
CancelCandidateConfig(call) ==
    /\ candidate # NoConfig
    /\ Begin(call, candidate, candTree, running)
    /\ UNCHANGED disturbed

\* A call ends: its local state is gone.
Return ==
    /\ pc' = "idle"
    /\ op' = "none" /\ goal' = NoConfig /\ tree' = {} /\ savedRefs' = {}
    /\ rest' = {} /\ removed' = <<>> /\ added' = <<>>

\* The tree a failed call worked on is dropped, unless it is the candidate's.
KeepTree == candTree' = IF op = "update" THEN candTree ELSE tree

\* It returns false: only cancelCandidateConfig restores the references.
ReturnFalse ==
    /\ Return
    /\ KeepTree
    /\ refs' = IF op = "update" THEN refs ELSE savedRefs
    /\ UNCHANGED <<file, tmp, running, runTree, candidate, backend, disturbed>>

\* It throws: the handler answers 500, the thread of the timers terminates.
Throw ==
    \/ /\ op # "expire"
       /\ Return
       /\ KeepTree
       /\ UNCHANGED <<file, tmp, running, runTree, candidate, refs, backend, disturbed>>
    \/ /\ op = "expire"
       /\ Stop
       /\ UNCHANGED <<backend, disturbed>>

DeletePost(n, o) ==
    /\ pc = "deleting"
    /\ n \in NextToDelete(rest)
    /\ PostIf(n, OnDelete, Absent, o)
    /\ rest' = rest \ {n}
    /\ IF Answered(o)
       THEN removed' = Append(removed, n) /\ UNCHANGED pc
       ELSE pc' = "undoDeletes" /\ UNCHANGED removed
    /\ UNCHANGED <<storeVars, refs, callVars, added>>

\* jconfig: the config the call started from.
Base == IF op = "update" THEN running ELSE candidate

\* The nodes are taken from the tree, and for every added path everything the
\* new config has beside it is loaded into the tree.
LoadedTree ==
    (tree \ ToSet(removed)) \cup
        {n \in NodesOf(goal) : \E p \in AddedPaths(Base, goal) : Parent[p] \in Ancestors[n]}

\* The nodes to send: those of the tree selected by an added path.
ToAdd == Selected(LoadedTree, AddedPaths(Base, goal))

AddsAccepted ==
    /\ \A p \in AddedPaths(Base, goal) : Parent[p] \in Containers \cup (tree \ ToSet(removed))
    /\ TargetsExist(ToAdd, LoadedTree)

LoadAdds ==
    /\ pc = "deleting"
    /\ rest = {}
    /\ AddsAccepted
    /\ tree' = LoadedTree
    /\ refs' = refs \cup SaveXPathReference(ToAdd, LoadedTree)
    /\ rest' = ToAdd
    /\ pc' = "adding"
    /\ UNCHANGED <<storeVars, backend, op, goal, savedRefs, removed, added, disturbed>>

\* A node cannot be placed or a constraint is not met: what was deleted is
\* sent again.
RefuseAdds ==
    /\ pc = "deleting"
    /\ rest = {}
    /\ ~AddsAccepted \/ ("constraint" \in Faults /\ AddedPaths(Base, goal) # {})
    /\ tree' = LoadedTree
    /\ pc' = "undoDeletes"
    /\ Disturb(removed # <<>> \/ op # "update")
    /\ UNCHANGED <<storeVars, refs, backend, op, goal, savedRefs, rest, removed, added>>

AddPost(n, o) ==
    /\ pc = "adding"
    /\ n \in NextToAdd(rest)
    /\ PostIf(n, OnUpdate, IF n \in Leaves THEN goal[n] ELSE Present, o)
    /\ rest' = rest \ {n}
    /\ IF Answered(o)
       THEN added' = Append(added, n) /\ UNCHANGED pc
       ELSE pc' = "undoAdds" /\ UNCHANGED added
    /\ UNCHANGED <<storeVars, refs, callVars, removed>>

\* rollback_added_nodes: at("object") on the parent's schema throws for the
\* first node that has a delete action.
UndoAdd ==
    /\ pc = "undoAdds"
    /\ IF added = <<>>
       THEN /\ pc' = "undoDeletes"
            /\ UNCHANGED <<storeVars, refs, backend, callVars, rest, removed, added, disturbed>>
       ELSE IF Last(added) \in OnDelete
       THEN Throw
       ELSE /\ added' = Front(added)
            /\ UNCHANGED <<storeVars, refs, backend, pc, callVars, rest, removed, disturbed>>

\* rollback_removed_nodes: a leaf is sent as it is in the running config, a
\* composite throws at action[0], and a node that is not in the running tree
\* is passed over.  A request that fails ends the process.
Resent(n) == n \in OnUpdate /\ n \in runTree

UndoDelete(o) ==
    /\ pc = "undoDeletes"
    /\ removed # <<>>
    /\ IF Resent(Last(removed)) /\ Last(removed) \notin Leaves
       THEN o = "served" /\ Throw
       ELSE /\ PostIf(Last(removed), OnUpdate \cap runTree,
                      running[Last(removed)], o)
            /\ IF Answered(o)
               THEN /\ removed' = Front(removed)
                    /\ UNCHANGED <<storeVars, refs, pc, callVars, rest, added>>
               ELSE Stop

Undone ==
    /\ pc = "undoDeletes"
    /\ removed = <<>>
    /\ ReturnFalse

\* The candidate's tree is loaded afresh from its JSON, which registers the
\* references again.
Made ==
    /\ pc = "adding"
    /\ rest = {}
    /\ op = "update"
    /\ Return
    /\ candidate' = goal
    /\ candTree' = NodesOf(goal)
    /\ refs' = refs \cup SaveXPathReference(NodesOf(goal), NodesOf(goal))
    /\ UNCHANGED <<file, tmp, running, runTree, backend, disturbed>>

Cancelled ==
    /\ pc = "adding"
    /\ rest = {}
    /\ op \in {"cancel", "expire"}
    /\ Return
    /\ candidate' = NoConfig
    /\ candTree' = {}
    /\ UNCHANGED <<file, tmp, running, runTree, refs, backend, disturbed>>

-----------------------------------------------------------------------------
(***************************************************************************)
(* applyCandidateConfig.                                                   *)
(***************************************************************************)

\* Mutation: _is_candidate_config_ready is not tested.
WriteTmpUnready ==
    /\ pc = "idle"
    /\ tmp' = candidate
    /\ pc' = "renaming"
    /\ UNCHANGED <<file, running, runTree, candidate, candTree, refs, backend,
                   callVars, rest, removed, added, disturbed>>

\* What the temporary file may hold once it is closed: the stream is tested
\* before flush() and not after.
WriteTmp ==
    /\ pc = "idle"
    /\ candidate # NoConfig
    /\ \/ tmp' = candidate
       \/ "flush" \in Faults /\ tmp' = Truncated
    /\ pc' = "renaming"
    /\ UNCHANGED <<file, running, runTree, candidate, candTree, refs, backend,
                   callVars, rest, removed, added, disturbed>>

Rename ==
    /\ pc = "renaming"
    /\ file' = tmp
    /\ tmp' = NoConfig
    /\ pc' = "publishing"
    /\ UNCHANGED <<running, runTree, candidate, candTree, refs, backend,
                   callVars, rest, removed, added, disturbed>>

\* Mutation: the error of the rename is ignored.
RenameErrorIgnored ==
    /\ pc = "renaming"
    /\ "disk" \in Faults
    /\ pc' = "publishing"
    /\ UNCHANGED <<storeVars, refs, backend, callVars, rest, removed, added, disturbed>>

RenameFails ==
    /\ pc = "renaming"
    /\ "disk" \in Faults
    /\ pc' = "idle"
    /\ UNCHANGED <<storeVars, refs, backend, callVars, rest, removed, added, disturbed>>

\* Mutation: _running_config keeps the old tree.
PublishKeepsTree ==
    /\ pc = "publishing"
    /\ pc' = "idle"
    /\ running' = candidate
    /\ candidate' = NoConfig
    /\ candTree' = {}
    /\ UNCHANGED <<file, tmp, runTree, refs, backend, callVars, rest, removed, added, disturbed>>

Publish ==
    /\ pc = "publishing"
    /\ pc' = "idle"
    /\ running' = candidate
    /\ runTree' = candTree
    /\ candidate' = NoConfig
    /\ candTree' = {}
    /\ UNCHANGED <<file, tmp, refs, backend, callVars, rest, removed, added, disturbed>>

-----------------------------------------------------------------------------

Crash ==
    /\ "crash" \in Faults
    /\ pc # "down"
    /\ Stop
    /\ Disturb(\/ pc \in {"deleting", "undoDeletes", "adding", "undoAdds"}
               \/ candidate # NoConfig /\ pc # "publishing")
    /\ UNCHANGED backend

Next ==
    \/ Start
    \/ \E n \in rest, o \in Outcomes : LoadPost(n, o)
    \/ Loaded
    \/ \E target \in Configs : MakeCandidateConfig(target)
    \/ \E call \in {"cancel", "expire"} : CancelCandidateConfig(call)
    \/ \E n \in rest, o \in Outcomes : DeletePost(n, o)
    \/ LoadAdds
    \/ RefuseAdds
    \/ \E n \in rest, o \in Outcomes : AddPost(n, o)
    \/ UndoAdd
    \/ \E o \in Outcomes : UndoDelete(o)
    \/ Undone
    \/ Made
    \/ Cancelled
    \/ WriteTmp
    \/ Rename
    \/ RenameFails
    \/ Publish
    \/ Crash

Spec == Init /\ [][Next]_vars

-----------------------------------------------------------------------------
(***************************************************************************)
(* Properties.                                                             *)
(***************************************************************************)

\* The config the process means the backend to have.
Intended == IF candidate = NoConfig THEN running ELSE candidate

\* What the file may hold after a commit, instead of the config.
Damaged == IF "flush" \in Faults THEN {Truncated} ELSE {}

\* The config manager is a candidate store: the commit is the rename of the
\* file, and a call that fails, throws or is cut short by a crash leaves what
\* was saved as it was and never stages half a change.
Store == INSTANCE CandidateStore WITH
    saved  <- file,
    staged <- IF pc = "publishing" THEN NoConfig ELSE candidate
StoreSpec == Store!Spec

\* What is served as the running config is what a restart would load, if the
\* disk kept it: memory and disk differ only between the rename and the end of
\* the same call.
RunningIsSaved ==
    running # NoConfig /\ pc # "publishing" => file \in {running} \cup Damaged

\* The inductive invariant behind StoreSpec and RunningIsSaved: what is written,
\* renamed and published in one call of applyCandidateConfig is one config.
StoreInv ==
    /\ file \in Configs \cup Damaged
    /\ pc = "loading" => file \in Configs
    /\ running \in Configs \cup {NoConfig}
    /\ candidate \in Configs \cup {NoConfig}
    /\ op = "update" => goal \in Configs
    /\ pc = "renaming" => candidate \in Configs /\ tmp \in {candidate} \cup Damaged
    /\ pc = "publishing" => candidate \in Configs /\ file \in {candidate} \cup Damaged
    /\ RunningIsSaved

\* The backend has every node of the intended config with its value, and none
\* that it was to delete.
BackendHas(c) ==
    \A n \in OnUpdate :
        /\ c[n] # Absent => backend[n] = c[n]
        /\ c[n] = Absent /\ n \in OnDelete => backend[n] = Absent

\* No two nodes have overlapping xpaths but a node and what is above it: the
\* paths of the schema are such that Selected finds what was meant.
ExactPaths == \A v \in Overlaps : v[1] = v[2] \/ v[2] \in Ancestors[v[1]]

\* The order puts the target of a reference before its source, as TargetsFirst
\* of NodesOrdering finds it.
TargetsEarlier == \A r \in References : <<r[2], r[1]>> \in Earlier

\* The backend has the nodes with their values in c, and none of the others.
Sent(c, nodes) == \A n \in OnUpdate \cap nodes : backend[n] = c[n]
Gone(nodes) == \A n \in OnUpdate \cap OnDelete \cap nodes : backend[n] = Absent

\* The references of a config all of whose references resolve.
RefsOf(c) == SaveXPathReference(NodesOf(c), NodesOf(c))
Resolved(c) == TargetsExist(NodesOf(c), NodesOf(c))

Changing == {"deleting", "undoDeletes", "adding", "undoAdds"}

\* Where each call has its configs, whatever happened.
CallInv ==
    /\ pc \in {"down", "loading"} => running = NoConfig /\ candidate = NoConfig
    /\ pc \notin {"down", "loading"} => running \in Configs
    /\ pc = "loading" => file \in Configs
    /\ pc \in Changing => goal \in Configs /\ op # "none"
    /\ pc \notin Changing => removed = <<>>
    /\ pc \in Changing /\ op # "update" => candidate \in Configs
    /\ pc \in {"renaming", "publishing"} => candidate \in Configs
    /\ running # NoConfig /\ pc # "publishing" => file \in {running, Truncated}
    /\ pc = "renaming" => tmp \in {candidate, Truncated}
    /\ pc = "publishing" => file \in {candidate, Truncated}

\* The trees are those of their configs, and their references resolve.
TreesInv ==
    /\ running # NoConfig => runTree = NodesOf(running) /\ Resolved(running)
    /\ candidate # NoConfig => candTree = NodesOf(candidate) /\ Resolved(candidate)

\* While the saved config is being sent.
LoadingInv ==
    /\ tree = NodesOf(file) /\ rest \subseteq tree
    /\ Resolved(file) /\ refs = RefsOf(file)
    /\ Sent(file, tree \ rest)

\* Between calls, and while applyCandidateConfig is writing.
SettledInv ==
    /\ refs = RefsOf(Intended)
    /\ Sent(Intended, NodesOf(Intended)) /\ Gone(Nodes \ NodesOf(Intended))

\* What a change that has not failed works on.
ChangingInv ==
    /\ op = "update" => candidate = NoConfig
    /\ op # "update" => goal = running

\* Of what the old config has and the new one has not, some is deleted and the
\* rest is still to be; what both have keeps its references and its values.
DeletingInv ==
    LET kept == NodesOf(Base) \cap NodesOf(goal)
    IN  /\ tree = NodesOf(Base)
        /\ ToSet(removed) \cup rest = NodesOf(Base) \ NodesOf(goal)
        /\ TargetsExist(kept, kept)
        /\ refs = {r \in References : r[1] \in kept}
        /\ Sent(Base, rest \cup kept) /\ Gone(Nodes \ (rest \cup kept))

\* What the new config has but for what is still to be sent.
AddingInv ==
    /\ rest \subseteq NodesOf(goal) /\ Resolved(goal) /\ refs = RefsOf(goal)
    /\ Sent(goal, NodesOf(goal) \ rest) /\ Gone(Nodes \ NodesOf(goal))

\* What the manager, its trees and the backend have in common at each point of
\* a call, as long as nothing has cut a change short.
Followed ==
    /\ TreesInv
    /\ pc \in {"down", "loading"} /\ file # Truncated => Gone(Nodes \ NodesOf(file))
    /\ pc = "loading" => LoadingInv
    /\ pc \in {"idle", "renaming", "publishing"} => SettledInv
    /\ pc \in Changing => ChangingInv
    /\ pc = "deleting" => DeletingInv
    /\ pc = "adding" => AddingInv
    /\ pc = "undoDeletes" => op = "update" /\ removed = <<>> /\ SettledInv
    /\ pc # "undoAdds"

\* The inductive invariant behind the properties below.
FollowInv == CallInv /\ (~disturbed => Followed)

\* Between calls the backend is where the manager believes it is, through any
\* number of updates, cancellations, commits and restarts, as long as no
\* request, constraint or crash has cut a change short (disturbed).
BackendFollows == pc = "idle" /\ ~disturbed => BackendHas(Intended)

\* A node is sent after the nodes it refers to and deleted before them, so at
\* every moment of a change the backend has the target of each reference it has.
BackendRefsResolve ==
    ~disturbed => \A r \in References :
        {r[1], r[2]} \subseteq OnUpdate \cap OnDelete =>
            (backend[r[1]] # Absent => backend[r[2]] # Absent)

\* The reverse references by which the removal of a node is judged are those
\* of the intended config.
RefsExact ==
    pc = "idle" /\ ~disturbed
        => refs = SaveXPathReference(NodesOf(Intended), NodesOf(Intended))

\* Constraints, references and removals are judged on the node tree, and the
\* JSON is what clients read: the tree that a commit takes over, built from the
\* patch of a candidate and reloaded, is that of the JSON it takes over.  (A
\* cancellation that fails leaves the tree of the candidate changed.)
TreeIsRunning == pc = "idle" /\ ~disturbed => runTree = NodesOf(running)

\* README.txt:7 "it is fully transactional mechanism - all operations are
\* completed successfully or none": BackendFollows whatever happened.
AllOrNothing == pc = "idle" => BackendHas(Intended)

\* sample_request.sh:431 "Post update bad config (no removed
\* /vlan/id/2/members/eth1-2)": removing an interface that a member refers to
\* is refused, so no config that is served lacks the target of a reference.
ReferencesResolve ==
    pc = "idle" => TargetsExist(NodesOf(running), NodesOf(running))

=============================================================================
