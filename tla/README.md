# FlexConfig in TLA+

FlexConfig is a configuration daemon. Clients send JSON patches over HTTP; the
daemon checks them against a schema, sends each changed node to a backend over
HTTP, keeps the result as a *candidate*, and saves it when the client commits.
A candidate that is not confirmed in time is withdrawn. This directory holds
TLA+ models of that machinery, the TLC configurations that check them and
proofs that TLAPS checks.

    tlc -workers 2 -config MCServer.cfg MCServer     model-check a run
    tlapm ServerProofs.tla                           check the proofs of a module

Paths below are relative to the repository.

## The system

| Part | Code | State | Operations |
|---|---|---|---|
| Session manager | `src/session_management.*` | leases with the time of the last request, the active session, one confirm timer per session | register, check, set active, remove, set and cancel a timer; a detached *checker* thread that every 10 s expires leases and fires timers |
| HTTP server | `src/connection_management.*`, `main.cpp` | callbacks per method | one handler per request, each on a thread of httplib's pool: `POST`/`DELETE /session/token`, `POST /config/running/update`, `PUT`/`DELETE /config/candidate`, and reads |
| Config manager | `src/config.*` | running and candidate config (JSON and node tree), references by target, the config file | `load`, `makeCandidateConfig`, `applyCandidateConfig`, `cancelCandidateConfig` |
| Backend client | `Client::post` | none | one request per changed node |
| Order of nodes | `src/nodes_ordering.cpp`, `src/lib/topo_sort.cpp` | local to a call | dependencies of the schema resolved against a config, topological sort, parents first |
| Constraint checker | `src/constraint_checking.*` | the argument its semantic actions share, for one constraint | one action per rule of the grammar |
| XPath, node tree | `src/xpath.cpp`, `src/node/*` | the tree | selection of a node by its xpath, resolution of `[@key]`, walks |
| Schema lookup, values | `src/config.cpp`, `src/value.cpp` | none | attributes of a node, a tagged value |

How they interact: a handler passes several critical sections of the session
manager one after the other and in between calls the config manager, which
sends requests to the backend. An update is *SetActiveSessionToken* (two
sections), *CancelSessionTokenTimerOnce* (two), `makeCandidateConfig`,
*SetSessionTokenTimerOnce* (two). The checker thread runs at the same time; when
a timer is overdue it calls back into the server, with the timers mutex held:
the callback cancels the candidate and gives up the active session without
taking the token mutex. `Config::Manager` has no lock of its own. A load and an
update ask the node order for the list of nodes, call the constraint checker for
each node of the list with the tree as it is at that moment, and only then send
requests.

What is hard: decisions made under one lock and used under another; timers that
race the requests that cancel them; changes that consist of many requests to
the backend, any of which may be lost, refused or cut short by a crash, and
whose rollback consists of requests too; references whose bookkeeping must
survive failures; an order that must respect both the tree and the
dependencies; a finder of nodes that looks further than the path it is given;
constraints whose evaluation is spread over callbacks of a parser with two shared
flags, and which an update checks for some of the nodes only. `PROJECT.json`
lists each such hazard at its line.

What makes each part correct:

* sessions: leases, timers and the right to edit end; the checker finds what it
  has listed; changes are withdrawn when their time is over and not before; no
  request waits for ever;
* config manager: the saved config changes only by a commit, as a whole; the
  running config is the saved one; the backend follows the intended config;
  references are exact, so that no target is removed under its source;
* order: each node once, after its parent and what it depends on;
* constraints: a verdict is what the constraint says of the tree; what an update
  changes has met its constraints; the config it leads to would be loaded;
* xpath: a path selects the node that has it.

## Modules

| Module | What it is |
|---|---|
| `SessionManager` | state and critical sections of the session manager, and the steps of the checker thread |
| `Server` | the handlers and the timer callback on top of it; safety, liveness and the claims of the documentation |
| `ServerProofs` | proofs for `Server` |
| `CandidateStore` | abstract specification: one saved config, at most one staged, commit in one step |
| `ConfigManager` | the config manager with the backend, the file and crashes; its refinement of `CandidateStore` |
| `ConfigManagerProofs` | proofs for `ConfigManager`: the saved config and the refinement |
| `ConfigChangeProofs` | proofs for `ConfigManager`: types, and what follows the config through a change |
| `XPath` | the node tree; selection and `[@key]` as operators |
| `XPathProofs` | proofs about the finder and the selection by a path |
| `DependencyPaths` | how a dependency of the schema becomes xpaths of a config, as operators |
| `NodesOrdering` | the topological sort and the merge of its trees |
| `NodesOrderingProofs` | proofs for `NodesOrdering` and about the resolvers of `DependencyPaths` |
| `ConstraintChecker` | the semantic actions, and the loads and updates that call them |
| `ConstraintCheckerProofs` | proofs for `ConstraintChecker`: the loop over the nodes and the trees |
| `ConstraintEvaluationProofs` | proofs for `ConstraintChecker`: what the evaluation of two kinds of constraints comes to |
| `SequenceLemmas` | lemmas on least elements, prefixes, the front of a sequence and insertion |
| `MCSchema` | a fragment of the shipped schema, used by the two instances below |
| `MCServer`, `MCConfigManager`, `MCNodesOrdering`, `MCConstraintChecker` | small instances |
| `MCServerWithdrawal` | `Server` with the age of the ready candidate as a history variable |

Definitions are named for the functions they model. A definition marked
*Mutation* is a variant with a plausible bug; it is not part of any
specification and serves to show that a property can tell the difference.

### SessionManager and Server

Everything done under one acquisition of a mutex is one step; a function that
takes it twice is two. The token mutex and the callbacks mutex are never held
across a step, so they need no variable. The timers mutex is: the checker holds
it while the callback runs (`timersHeld`), and handlers that need it wait.
`RemoveActiveSessionToken` takes no mutex, so its test, its comparison and its
reset are steps of their own; `value()` of an optional that another thread
emptied throws, which ends the process (`CompareActiveThrows`, `Restart`).

Time is a number of abstract ticks since the last request (`idle`) or the start
of a timer (`age`). Ages stop one tick past their timeout, where every
comparison has its final value, so the state space is finite without a bound on
time. `StartAt` is read just before the mutex is taken; the model lets the age
begin when the entry is made. The checker reads `now` once per round; which
timers are overdue is therefore fixed when the round begins (`CollectSessions`)
and narrowed to those not cancelled when the timers are looked at
(`CollectTimers`).

Of the config manager, `Server` keeps the author of the ready candidate and how
a call may end: true, false, an exception (500 to the client) or `exit()`. A
call is one step here. Reading requests change nothing and are left out. A
restart begins with empty sessions: nothing of them is persisted.

### ConfigManager

A config maps each node of the schema to a value, to `Present` (composites) or
to `Absent`. `fValidatePatch` accepts a patch only if it is the diff of two
configs, so an update is given by the config it leads to; a patch that is
refused before anything is sent changes nothing and is not a step. Trees are the
sets of their nodes. Containers that hold nodes and have no action are always
there. `Earlier` has the pairs of nodes whose order the node order below decides;
of the nodes that remain to be sent, any that has none of its predecessors among
them may be next. The code sends them in one of these orders, so what holds for
all of them holds for it.
The copy of the references kept for the running config is never read and is
left out. `_is_candidate_config_ready` is `candidate # NoConfig`: the code sets
and clears the two together.

Each request to the backend is a step. `Faults` selects what may happen: `lost`
and `unheard` requests (both are a failure to `Client::post`), an error `status`
(a success to it), a refusing `constraint`, a second update before the commit
(`restage`), a `crash` at any step, a failing rename (`disk`), and a write error
that shows only in `flush`. Paths are compared the way the code does, as
substrings (`Overlaps`). Rollbacks follow the code: that of added nodes throws
for the first node with a delete action, that of deleted nodes throws for
composites and re-sends leaves, a request that fails in it ends the process, and
an exception in the timer's thread ends it as well.

`backend` is what the backend was last told of each node. The history variable
`disturbed` records that a change was cut short, by a request not served, a
refusal after deletes were sent, a crash within a change, or a second update;
the properties that relate the backend and the references to the config are
stated for executions without, and `AllOrNothing` for all.

`StoreSpec` says that the manager implements `CandidateStore` with the file as
the saved config and the candidate as the staged one; the commit is the rename,
so between the rename and the end of the call nothing is staged any more. A
commit may also leave `Damaged` in the file, if the fault `flush` is assumed.

### XPath

A node is the sequence of the names on the way to it, a tree a set of such paths
with all their prefixes. `Composite::Accept` walks it in preorder, in the order
of `std::map` (`Rank`), and a visitor that returns false ends the loop over the
children of one composite only; `Visited` says which nodes a finder gets to see
that way, and `Find` that the last of the wanted name is kept. `HasSubstring` is
`std::string::find` on paths: a last name may be the beginning of a longer one
(`Starts`). `EvaluateXPath` replaces every `[@key]` by the name that the last of
them leads to, as the code does.

### DependencyPaths and NodesOrdering

`Resolve` follows `NodeDependencyManager::resolve`: the resolvers of `*` and
`[@key]` take every subnode below the node they reach, the one of `@` the last
only, and a dependency that comes to nothing stays as it is, with its `@`.

`NodesOrdering` is one call of `resolve` and `run_update_op` at a time. The
recursion of `depResolve` is an explicit stack; lists are iterated in the order
of `std::map`, and trees are walked from the last xpath to the first, as
`emplace_front` leaves them. Pairs that depend on each other are refused, longer
cycles recurse without end (`Overflow`, the process starts anew). The error of
the sort is not looked at by the caller, so `Return` follows `failed` too, with
the empty list.

### ConstraintChecker

A constraint is the sequence of semantic actions the parser calls while it reads
it, operands before operators; `MCConstraintChecker` writes those of the shipped
schema down and names their lines. Each action is a step. The values they
return are on a stack; `continueProcessing` and `expressionResult` are the two
flags of `SemanticAction::Argument`. `Fails` is what `STOP_PROCESSING` really
does: it clears the flag in a copy, so the next actions still run, on a default
value.

Around it are the calls: `Start` (a file somebody wrote), `Restart` (the file a
commit wrote) and `Update`, with the tree that each stage evaluates in. A removal
is checked in a copy that holds everything below the first names of the removed
paths, and each node is taken out of it when its constraints are met, from the
leaves up in whatever order among branches. An addition is checked in the tree
that the removals left, with the subtrees of the patch's parents loaded anew.
What an accepted update sends and saves is left to `ConfigManager`; here the
config is replaced at once. A refused update leaves the references it took erased
(`src/config.cpp:1161`), which `disturbed` records. The order among the nodes
that are added does not matter to the verdicts, since the tree stays the same
meanwhile; the model takes the order of the tree.

## Runs

| Run | Result | What it shows |
|---|---|---|
| `MCServer` | passes | two handlers, two sessions, the checker, every interleaving: the unchecked `find()` of line 71 succeeds, no running timer is reaped; the inductive invariant of the proofs |
| `MCServerLive` | passes | requests complete, also when the process ends in one, in a rollback or in the checker thread; timers go, idle leases end and with them the right to edit, an armed timer withdraws its author's candidate |
| `MCServerLostTimer` | violated | an update right after another leaves the session without a timer, so its changes are never withdrawn |
| `MCServerWithdrawal` | violated | an update made while the session's old timer is on the checker's list is withdrawn at once, by the timer it has cancelled |
| `MCConfigManager` | passes | with all faults: types; refinement of `CandidateStore`, running is saved; backend, references and node tree follow the config while nothing was cut short; at each moment the backend has the target of every reference it has; the inductive invariant of the proofs (`FollowInv`) |
| `MCConfigRollback` | violated | an update refused after its deletes is not undone |
| `MCConfigDangling` | violated | two updates before a commit get a dangling reference committed |
| `MCConfigOverlap` | violated | deleting `eth1` deletes `eth10` at the backend |
| `MCNodesOrdering` | passes | for any dependencies among four nodes: the sort is topological, parents come first, each node once, no cycle is met after the graph is built, the merge keeps the order of the sort unless something below a node was sorted before what the node depends on, nothing is left of a call; for the shipped fragment: the resolvers find what a dependency stands for, the dependencies have no cycle, no node is dropped, and targets are sent before their sources |
| `MCNodesOrderingMerge` | violated | in a config of the shipped fragment, the parent moved up passes its own dependency |
| `MCConstraintChecker` | passes | each path selects its own node; verdicts are what the constraints mean; an interface is never in a lag and in a vlan; references keep their targets; what is accepted, loaded or removed was checked, and in a tree with nothing left from before; removals are not refused; a false condition stays granted |
| `MCConstraintRestart` | violated | an update leaves a config that the next start refuses |

The violated runs each state one sentence of the repository; `PROJECT.json`
(findings) quotes it with its place. More weaknesses of the code are in the
models and are kept out of the properties by a condition, or are seen in their
behaviours:

* a failed cancellation leaves the candidate's tree changed, so that a commit
  publishes a tree that is not its JSON's (`TreeIsRunning` asks for `~disturbed`);
* a timer that outlives its session cancels the candidate of the next one
  (`CallbackCancel` does not look at the author), and a session may commit the
  candidate that an expired one left, since `PUT` tests the active token only;
* a session whose lease ends between the two sections of *SetActiveSessionToken*
  is active without a lease, and one that registers and updates while the checker
  ends its lease loses the new lease alone: either stays active for as long as
  its client is silent and no timer of it fires (`EditingEnds` exempts both and
  does not hold without the exemptions);
* the callback may reset the active token of the next session, when its own was
  given up between its comparison and its reset (`CallbackResetActive`);
* a write error in `flush` loses the saved config, and the next start fails
  (`Damaged`);
* an update that is refused after its removals were checked has erased
  references for good (`ReferencesExist` asks for `~disturbed`);
* four constraints of the shipped schema can never refuse anything
  (`Toothless`): `xpath_key_based` puts a whole path in the place of a key, and
  `xpath_match_regex` matches whole xpaths against regexes that begin with
  `^eth`. One of them should have refused what `src/sample_request.sh:294`
  expects to be refused, an update that splits the port of an interface that
  stays; the model accepts it, and such updates are among those that violate
  `RestartAccepts`;
* `@` in a dependency resolves to the last child only (`Covered` asks for one of
  several), a lag without members is sent after the vlan's member that refers to
  it, and the members of LACP may come before those of the lag (`TargetsFirst`
  exempts both).

**Bounds.** Two tokens and two handlers: the hazards between sessions need two
sessions, those between a session's own requests two handlers, and the checker
is a third thread. `ConfirmTimeout = 0` and `SessionTimeout = 1`: a timer ends
before a lease, as 180 s and 360 s do, and both orders of a tick and a step
occur. Runs with one handler or one token are those whose question needs no
more; liveness is checked without symmetry, so with one token. Between them the
runs send every request. `DELETE` requests are in
`MCServerLive`, `PUT` in `MCServer`. In both a call that changes the config
succeeds or ends the process; one that is refused or throws leaves the candidate
and ends the request or goes on to the timer. The proofs hold for every
`Requests` and `Outcomes`. `MCConfigManager` has an interface, its leaf with
two values, and a member that refers to the interface: the smallest fragment of
the repository's schema with a composite, a leaf and a reference.
`MCConfigOverlap` uses the interface whose name has the other's as a prefix.
The runs of `ConfigManager` have `CHECK_DEADLOCK FALSE`: a process whose file no
longer loads does stop for good. `MCNodesOrdering` takes every relation over
four nodes on three levels; three of them are needed for a parent, its child and
a dependency, four for an insertion between two others. It also takes the trees
of `MCSchema`: an interface, its port, a breakout interface whose name begins
with the interface's, a lag with a member, and a vlan or LACP settings. That is
one node of each kind that has a constraint or a dependency in the schema, and
both of the two names of which one is a substring of the other. `MaxItems = 2`:
a patch of two items is the least in which one item removes what another adds
or refers to; the proofs hold for every number of items. The two constraints
`base-port` and `one-lag` are not of the schema; they call the functions that it
does not use.

**Fairness.** `FairSpec` assumes that time passes, that the checker thread runs
(it loops for ever and sleeps 10 s), and that a handler that can take a step
takes it. A handler that waits for the timers mutex needs strong fairness: the
checker holds the mutex only while a callback runs and leaves it free for ten
seconds in each round. Requests to the backend are assumed to end (httplib's
timeouts), and an exception that leaves the checker thread to end the process. Nothing is assumed of clients.

## Proofs

`ServerProofs`, for any sets of tokens and threads and any timeouts:

* `ServerSafety`: `ServerInv` is an invariant. `UnfiredTimersExist`, the fact of
  interest, is not inductive: that a timer on the checker's list is still in the
  map depends on no timer being on two lists (`ListsDisjoint`; else the reaping
  of one removes the other), on reaped timers being cancelled ones, on handlers
  only flagging timers and never erasing them, and on the mutex being held
  exactly while a timer fires (`CheckerOnToken`). The proof has one lemma for the
  handlers, one for the checker and one for the environment, each with one step
  per action.
* `TypeCorrect`, `FindNeverFails` and `RunningTimersStay` follow from it.

`ConfigManagerProofs`, for any schema, references, order and values, and all
faults. The stream is not tested after `flush()` (`src/config.cpp:1630`), so a
truncated file may be renamed over the config; `Damaged` is that file where the
fault `flush` is assumed, and empty where the disk can be relied on:

* `RunningSaved`: between calls the running config is the saved one, or the file
  is damaged. The
  invariant `StoreInv` follows one config through the temporary file, the rename
  and the publication.
* `StoreImplemented`: every step of the manager is a step of `CandidateStore` or
  leaves it alone.

`ConfigChangeProofs`, for any schema, order and values, and all faults:

* `TypeCorrect`, with `CallInv`: which of the configs each call has at hand.
* `BackendFollowing`, `ReferencesExact`, `RunningTree` and
  `ServedReferencesResolve`: while no change was cut short, the backend, the
  references and the node tree are those of the intended config, and what is
  served refers to nothing that is not there. None of them is inductive, since
  each is about the time between calls only. `FollowInv` says what holds within
  one, and `Follows` that it is an invariant. `SettledInv` is the state between calls; `DeletingInv` and `AddingInv` say
  of a change how far it has come: of what the old config has and the new one
  lacks, a part is gone and the rest is still at the backend, and the references
  are those of the nodes that both have; of the new config all is at the backend
  but what is still to be sent. `TreesInv` is needed as well, because
  what is deleted is selected from the tree and tested against the references.
  `Doomed` and `Loads` are the lemmas that carry the proof: the substring search
  selects exactly the nodes by which the two configs differ.
* `BackendResolving`: at each moment the backend has the target of each
  reference it has.

All but `TypeCorrect` are under the hypothesis `ExactPaths`: the path of a node is
part of another's only if it is above it. It is necessary: `MCConfigOverlap` is
the counterexample without it. `BackendResolving` also needs `TargetsEarlier`,
that the order puts targets before sources. The node order is checked to do so
for the shipped schema (`TargetsFirst`), but for the two cases that property
exempts. The constants' assumptions are those named in the modules: nodes form
a forest, no set of nodes waits for itself in `Earlier`, `NoToken` is no token,
timeouts are naturals, special values are no configs.

`XPathProofs`, for any tree and order of names:

* `FindsChild`: where the node has a child of the wanted name, the finder that
  searches the whole subtree ends with it. The loop over the children ends at the
  child, and what was met before in deeper branches is overwritten.
* `SelectsPath`: so the path of a node selects that node and nothing else. The
  selection is a fold over the names; `FoundAfter` names what is found after
  each of them, and the least name at which something else is found (`MinOf`)
  leads to a contradiction. The hypothesis that no node is called `value` is the
  code's own special case: at the end of a path that name stands for the node
  above it.
* `SelectsAtMost`: of an xpath that need not be the path of a node. Below a node
  that is gone the finder takes whatever has the wanted name, so it is a
  hypothesis (`InOnePlace`) that no other of the possible paths has one of the
  names below what comes before it.

`NodesOrderingProofs`, for any set of xpaths, trees and dependencies:

* `TypeCorrect`, with what is left of a call between its phases.
* `ParentsComeFirst`: `ParentsFirst` is inductive given that `Within` is
  transitive and irreflexive, as substrings are; `Insertion` of `SequenceLemmas`
  says where the elements are after an insertion.
* `WalkSorts`: the invariant `EdgesFollowed` says of each call on the stack that
  the edges it has taken lead to resolved nodes or to the next call, or that its
  node is resolved already. The last case is where the code looks for the node
  instead of the edge: it is sound because a node on `resolved` has its
  dependencies there.
* `SortBegunSucceeds`: a sort that has begun meets no cycle, so that the error
  the caller ignores can only be the pair that `makeGraphNode` refuses. A graph
  that unfolds to finite trees has levels: each node goes in one of the rounds of
  `LeftAfter`, and what it depends on in an earlier one. `Descending` says that
  the levels fall along the stack, and so no edge leads back into it.
* `NodesSentOnce`: by `OnTheWay`, every node of the config is still a root, on
  the stack, resolved, or merged, in each phase.
* `MergeSorts`: what the merge keeps of the order of the sort. `MergeKeepsOrder`
  is violated, so there is a cause for each node that passes one of its
  dependencies: the invariant `TurnedForNested` says that where two nodes of the
  list have changed places, one below the first was resolved no later than the
  second. It is inductive because a node below one below a node is below the
  node. If nothing below a node is resolved before what the node depends on
  (`NoneBelowFirst`), there is no such cause.
* `NothingLeftOut`: by `SortBegunSucceeds` and `NodesSentOnce`, a sort that ends
  sends each node unless two nodes depend on each other. What `NothingDropped`
  adds, that the shipped schema has no such two, is left to TLC.
* `TokensResolved` and `FittingCovered`: what the resolvers make of a dependency,
  in any tree and under the hypothesis that the names before the token are in
  one place. A resolver waits for each name in all of the tree that is still to
  be walked, not only below the last it met; `ReachesPath` shows by the order of
  the walk (`MetAfterBelow`) that it nonetheless ends at the node it was meant to
  reach, and `SubnodesOf` that of what is below this node only the children have
  a parent of its name. For `@` the theorem says what the code does, not what it
  ought to: the last child alone. `DependenciesAssumption` of `MCNodesOrdering`
  lets TLC check the hypothesis for every dependency in the shipped configs.

`ConstraintCheckerProofs`, for any configs, constraints and sequences of actions:

* `TypeCorrect`; `VacuousStaysMet`, by cases of the actions.
* `UpdateIsChecked`, `RemovalIsChecked` and `LoadIsChecked` rest on one invariant,
  `ChecksLeft`, of the loop over the nodes: each is still listed, being checked
  with the rest of its constraints, or has all of them in `passed`.
* `TreeIsFresh`: the tree in which an update is checked has nothing that was to
  go. By `GoneAreRemoved`, everything the new config lacks has been in the list of
  the removed, as the patch names a node at or above it and the substring search
  finds all below. `TreeIsTarget` is the converse, for paths that do not
  overlap; where they do, the search removes more (`MCConfigOverlap`).
* `SelectionIsExact`, `ListedAreFound`: by `SelectsPath` and the invariant
  `InTree`, that a listed node and those above it are in the tree, each
  constraint is evaluated for its own node, and no removal takes another listed
  node with it. These two and `LoadIsChecked` are for schemas in which no node is
  called `value`.

`ConstraintEvaluationProofs`, for any configs, patches and other constraints, and
schemas in which no node is called `value`. The theorems are about the verdict,
so they follow an evaluation from one action to the next: `Stands` says which
actions are still to come, and `TargetInv` and `NoneInv` what each of those
before has left on the stack and in the flags.

* `ReferencesKept`: as long as no refused update took references with it, each
  reference of the config has its target. The hypothesis `ReferencesAsk` is that
  a node with references has the constraint `must(exists(xpath(@)))`, as every
  node with `"reference"` in `src/schema` does, and that neither the target nor
  the node is taken for another one. `RefsInv` is the strengthening: the
  references by which removals are judged have those of all nodes that stay, and
  once the removals are granted none to a node that goes. So a node that is not
  changed keeps its target because no removal took it, and one that is changed
  because its constraint was met (`AcceptedIsChecked`) in the tree of the new
  config (`NothingStale`). Without the hypothesis on substrings it is false: of
  a lag with the members `e1` and `e10`, a patch that removes the member `e1` and
  the interface `e10` erases the references of the member `e10` as well, and
  nothing asks for its target again.
* `RemovalsGranted`: no constraint on removal refuses. The hypothesis
  `DeletesAskForNone` is that each is `must(count(xpath('...')) == 0)` of an xpath
  below its node; the schema has two (`src/schema/vlan/vlan.json:70`,
  `src/schema/interface/aggregate-ethernet/aggregate_ethernet.json:66`), and both
  are. `LeavesInv` says that removals go from the leaves up, so that nothing is
  left below the node that is checked, and `SelectsAtMost` that nothing
  elsewhere is counted in its place. The constraints therefore refuse nothing: a
  vlan that still has members can be removed in one patch, members included. `OnlyReferencesRefuse` leaves the
  reverse references as the only reason for a refusal.

`ASSUME`s on `XPath`'s `Rank`, on `Sorted`, `Within` and `Trees` and on the
configs and constraints are the named ones of the modules; TLC evaluates them.
Among those on the configs is that each has the root, as every JSON file has,
and among those on the constraints that actions and references are sequences.
`ReferencesAsk` and `DeletesAskForNone` are hypotheses of two theorems only;
`SchemaAssumption` of `MCConstraintChecker` lets TLC check that the shipped
fragment meets them.

Only model-checked: the liveness properties (fairness is outside the reach of
the prover); the properties that speak of the shipped schema, which a theorem for
any schema cannot (`Covered`, `NothingDropped`, `TargetsFirst`,
`VerdictIsMeaning`, `NeverInBoth`). What of these holds for any schema is proved
as far as it goes: `FittingCovered` for `Covered`, `NothingLeftOut` for
`NothingDropped`, and `MergeSorts` for `TargetsFirst`.

## Not modelled

The parser of constraints (a constraint is given by the actions it calls), `print`,
arithmetic, chains of operators and `else`, which no constraint of the schema has;
lookup in the schema, the JSON schema validator and the test for duplicate keys
(the models take the configs and attributes they yield); action parameters and
JSON layout of the requests; answers to clients; the value type; copies of
nodes; calls of the config manager that overlap in time, with the static state
of `strtok`; argument parsing; the sample backend `webapp.py` and third-party
code. `ConfigManager` keeps its own smaller schema and takes a refusal by a
constraint as a choice (fault `constraint`); `ConstraintChecker` says which
updates are refused.

## Plan

1. `Server` over `ConfigManager`: calls that overlap, since the manager has no
   lock, at the grain of the reads and writes of its members.
2. `ConfigManager` over `NodesOrdering`: the order of requests taken from the
   resolved dependencies of each config in the place of the constant `Earlier`.
3. Proofs: the order of requests that `BackendResolving` assumes
   (`TargetsEarlier`), from `MergeSorts` and `FittingCovered`, once 2 is done.
