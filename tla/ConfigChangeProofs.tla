------------------------- MODULE ConfigChangeProofs --------------------------
(***************************************************************************)
(* Proofs about module ConfigManager: as long as nothing has cut a change  *)
(* short, the backend, the node trees and the references follow the configs *)
(* through every update, cancellation, commit and restart, for any schema  *)
(* whose paths do not overlap (ExactPaths).                                *)
(***************************************************************************)
EXTENDS ConfigManager, SequenceLemmas

-----------------------------------------------------------------------------
(***************************************************************************)
(* The forest of nodes, and what is selected in it.                        *)
(***************************************************************************)

\* What is above something above a node is above the node.
LEMMA AncestorsTransitive ==
  ASSUME NEW n \in Nodes, NEW m \in Ancestors[n] \cap Nodes
  PROVE  Ancestors[m] \subseteq Ancestors[n]
  <1> DEFINE S == {k \in Nodes : \E a \in Ancestors[k] \cap Nodes : ~(Ancestors[a] \subseteq Ancestors[k])}
  <1>1. SUFFICES ASSUME S # {} PROVE FALSE
    OBVIOUS
  <1>2. PICK k \in S : Ancestors[k] \cap S = {}
    BY <1>1, TreeAssumption
  <1>3. PICK a \in Ancestors[k] \cap Nodes : ~(Ancestors[a] \subseteq Ancestors[k])
    OBVIOUS
  <1>4. Parent[k] \in Nodes /\ Ancestors[k] = {Parent[k]} \cup Ancestors[Parent[k]]
    BY <1>3, TreeAssumption
  <1>5. Parent[k] \notin S
    BY <1>2, <1>4
  <1> QED
    BY <1>3, <1>4, <1>5

\* A config that has a node has the nodes above it.
LEMMA AncestorsPresent ==
  ASSUME NEW c \in Configs, NEW n \in NodesOf(c)
  PROVE  Ancestors[n] \cap Nodes \subseteq NodesOf(c)
  <1> DEFINE S == {k \in NodesOf(c) : ~(Ancestors[k] \cap Nodes \subseteq NodesOf(c))}
  <1>1. SUFFICES ASSUME S # {} PROVE FALSE
    OBVIOUS
  <1>2. PICK k \in S : Ancestors[k] \cap S = {}
    BY <1>1, TreeAssumption DEF NodesOf
  <1>3. k \in Nodes /\ k \in NodesOf(c) /\ ~(Ancestors[k] \cap Nodes \subseteq NodesOf(c))
    BY DEF NodesOf
  <1>4. Parent[k] \in Nodes /\ Ancestors[k] = {Parent[k]} \cup Ancestors[Parent[k]]
    BY <1>3, TreeAssumption
  <1>5. Parent[k] \in NodesOf(c)
    BY <1>3, <1>4 DEF Configs, NodesOf
  <1>6. Parent[k] \notin S
    BY <1>2, <1>4
  <1> QED
    BY <1>3, <1>4, <1>5, <1>6

\* Of the nodes of a set, one that is or is above a given one is topmost.
LEMMA Topmost ==
  ASSUME NEW S \in SUBSET Nodes, NEW n \in S
  PROVE  \E p \in S : p \in {n} \cup Ancestors[n] /\ Ancestors[p] \cap S = {}
  <1> DEFINE T == S \cap ({n} \cup Ancestors[n])
  <1>1. PICK p \in T : Ancestors[p] \cap T = {}
    BY TreeAssumption
  <1>2. Ancestors[p] \subseteq Ancestors[n]
    BY AncestorsTransitive
  <1> QED
    BY <1>1, <1>2

\* Where paths do not overlap, what a change deletes is what the old config has
\* and the new one has not.
LEMMA Doomed ==
  ASSUME ExactPaths, NEW c \in Configs, NEW d \in Configs
  PROVE  ToRemove(NodesOf(c), RemovedPaths(c, d)) = NodesOf(c) \ NodesOf(d)
  <1> DEFINE paths == RemovedPaths(c, d)
  <1>1. paths \subseteq NodesOf(c) \ NodesOf(d) /\ NodesOf(c) \subseteq Nodes
    BY DEF RemovedPaths, NodesOf
  <1>2. ASSUME NEW n \in NodesOf(c), NEW p \in paths, <<n, p>> \in Overlaps
        PROVE  n \notin NodesOf(d)
    <2>1. n = p \/ p \in Ancestors[n]
      BY <1>2 DEF ExactPaths
    <2> QED
      BY <1>1, <2>1, AncestorsPresent
  <1>3. ASSUME NEW n \in NodesOf(c) \ NodesOf(d)
        PROVE  n \in ToRemove(NodesOf(c), paths)
    <2>1. PICK p \in NodesOf(c) \ NodesOf(d) :
              /\ p \in {n} \cup Ancestors[n]
              /\ Ancestors[p] \cap (NodesOf(c) \ NodesOf(d)) = {}
      BY <1>1, Topmost
    <2>2. Ancestors[p] \cap Nodes \subseteq NodesOf(c)
      BY AncestorsPresent
    <2>3. p \in paths
      BY <2>1, <2>2 DEF RemovedPaths
    <2>4. <<n, p>> \in Overlaps
      BY <1>1, <2>1, TreeAssumption
    <2>5. \A q \in paths : n \notin Ancestors[q]
      BY <1>1 DEF RemovedPaths
    <2> QED
      BY <2>3, <2>4, <2>5 DEF ToRemove, Selected
  <1> QED
    BY <1>2, <1>3 DEF ToRemove, Selected

\* What is loaded and sent in the second half of a change: the tree is that of
\* the new config, and what is not sent is as it was.
LEMMA Loads ==
  ASSUME Base \in Configs, goal \in Configs,
         tree \ ToSet(removed) = NodesOf(Base) \cap NodesOf(goal)
  PROVE  /\ LoadedTree = NodesOf(goal)
         /\ ToAdd \subseteq NodesOf(goal)
         /\ \A n \in NodesOf(goal) \ ToAdd : n \in NodesOf(Base) /\ Base[n] = goal[n]
  <1> DEFINE paths == AddedPaths(Base, goal)
  <1>0. NodesOf(goal) \subseteq Nodes /\ NodesOf(Base) \subseteq Nodes
    BY DEF NodesOf
  <1>1. ASSUME NEW n \in NodesOf(goal) \ NodesOf(Base)
        PROVE  \E p \in paths : p \in {n} \cup Ancestors[n] /\ Parent[p] \in Ancestors[n]
    <2>1. PICK p \in NodesOf(goal) \ NodesOf(Base) :
              /\ p \in {n} \cup Ancestors[n]
              /\ Ancestors[p] \cap (NodesOf(goal) \ NodesOf(Base)) = {}
      BY <1>0, Topmost
    <2>2. Ancestors[p] \cap Nodes \subseteq NodesOf(goal)
      BY AncestorsPresent
    <2>3. Base[p] # goal[p]
      BY <2>1 DEF NodesOf
    <2>4. p \in paths
      BY <2>1, <2>2, <2>3 DEF AddedPaths
    <2>5. Parent[p] \in Ancestors[p] /\ Ancestors[p] \subseteq Ancestors[n]
      BY <1>0, <2>1, TreeAssumption, AncestorsTransitive
    <2> QED
      BY <2>1, <2>4, <2>5
  <1>2. LoadedTree = NodesOf(goal)
    BY <1>1 DEF LoadedTree
  <1>3. ASSUME NEW n \in NodesOf(goal) \ NodesOf(Base)
        PROVE  n \in ToAdd
    <2>1. PICK p \in paths : p \in {n} \cup Ancestors[n]
      BY <1>1
    <2>2. p \in Nodes
      BY DEF AddedPaths, NodesOf
    <2>3. <<n, p>> \in Overlaps
      BY <1>0, <2>1, <2>2, TreeAssumption
    <2> QED
      BY <1>2, <2>3 DEF ToAdd, Selected
  <1>4. ASSUME NEW n \in NodesOf(goal) \cap NodesOf(Base), Base[n] # goal[n]
        PROVE  n \in ToAdd
    <2>1. n \in paths
      BY <1>4, AncestorsPresent DEF AddedPaths
    <2>2. <<n, n>> \in Overlaps
      BY <1>0, TreeAssumption
    <2> QED
      BY <1>2, <2>1, <2>2 DEF ToAdd, Selected
  <1> QED
    BY <1>2, <1>3, <1>4 DEF ToAdd, Selected

-----------------------------------------------------------------------------
(***************************************************************************)
(* Types, and where each call has its configs.                             *)
(***************************************************************************)

USE DEF vars, storeVars, callVars

\* A request leaves the backend with values of its nodes.
LEMMA PostIfType ==
  ASSUME TypeOK, NEW n \in Nodes, NEW S, NEW v \in Values \cup {Present, Absent}, NEW o,
         PostIf(n, S, v, o)
  PROVE  /\ backend' \in [Nodes -> Values \cup {Present, Absent}]
         /\ disturbed' \in BOOLEAN
  BY DEF TypeOK, PostIf, Post, Disturb

\* The value of a node in a config.
LEMMA ConfigValue ==
  ASSUME NEW c \in Configs, NEW n \in Nodes
  PROVE  c[n] \in Values \cup {Present, Absent}
  BY DEF Configs

\* What a stopped process leaves.
LEMMA StopType ==
  ASSUME TypeOK, CallInv, Stop, backend' \in [Nodes -> Values \cup {Present, Absent}],
         disturbed' \in BOOLEAN
  PROVE  TypeOK' /\ CallInv'
  BY ValuesAssumption DEF TypeOK, CallInv, Stop, States, Calls, Changing

\* Every step keeps the variables in their types, and the configs of a call
\* where they are.
LEMMA TypeStep ==
  ASSUME TypeOK, CallInv, [Next]_vars
  PROVE  TypeOK' /\ CallInv'
  <1> USE ValuesAssumption DEF TypeOK, CallInv, States, Calls, Changing
  <1>1. CASE Start
    BY <1>1 DEF Start, SaveXPathReference, NodesOf
  <1>2. ASSUME NEW n \in rest, NEW o \in Outcomes, LoadPost(n, o) PROVE TypeOK' /\ CallInv'
    <2>1. /\ backend' \in [Nodes -> Values \cup {Present, Absent}]
          /\ disturbed' \in BOOLEAN
      BY <1>2, PostIfType, ConfigValue DEF LoadPost
    <2>2. CASE Stop
      BY <2>1, <2>2, StopType
    <2>3. CASE ~Stop
      BY <1>2, <2>1, <2>3 DEF LoadPost
    <2> QED
      BY <2>2, <2>3
  <1>3. CASE Loaded
    BY <1>3 DEF Loaded
  <1>4. ASSUME NEW call \in {"update", "cancel", "expire"}, NEW json, NEW t \in SUBSET Nodes,
               NEW target \in Configs, Begin(call, json, t, target),
               call # "update" => candidate \in Configs, disturbed' \in BOOLEAN
        PROVE  TypeOK' /\ CallInv'
    BY <1>4 DEF Begin, RemoveXPathReference, ToRemove, Selected
  <1>5. ASSUME NEW target \in Configs, MakeCandidateConfig(target) PROVE TypeOK' /\ CallInv'
    BY <1>4, <1>5 DEF MakeCandidateConfig, Disturb
  <1>6. ASSUME NEW call \in {"cancel", "expire"}, CancelCandidateConfig(call)
        PROVE  TypeOK' /\ CallInv'
    <2>1. candidate \in Configs /\ running \in Configs
      BY <1>6 DEF CancelCandidateConfig, Begin
    <2>2. Begin(call, candidate, candTree, running) /\ disturbed' \in BOOLEAN
      BY <1>6 DEF CancelCandidateConfig
    <2>3. call \in {"update", "cancel", "expire"} /\ candTree \in SUBSET Nodes
      OBVIOUS
    <2> HIDE DEF TypeOK, CallInv
    <2> QED
      BY <1>4, <2>1, <2>2, <2>3
  <1>7. ASSUME NEW n \in rest, NEW o \in Outcomes, DeletePost(n, o) PROVE TypeOK' /\ CallInv'
    <2>1. /\ backend' \in [Nodes -> Values \cup {Present, Absent}]
          /\ disturbed' \in BOOLEAN
      BY <1>7, PostIfType DEF DeletePost
    <2>2. removed' \in Seq(Nodes)
      BY <1>7 DEF DeletePost
    <2> QED
      BY <1>7, <2>1, <2>2 DEF DeletePost
  <1>8. CASE LoadAdds \/ RefuseAdds
    <2>1. LoadedTree \subseteq Nodes /\ ToAdd \subseteq Nodes
      BY DEF LoadedTree, ToAdd, Selected, NodesOf
    <2> QED
      BY <1>8, <2>1 DEF LoadAdds, RefuseAdds, Disturb, SaveXPathReference
  <1>9. ASSUME NEW n \in rest, NEW o \in Outcomes, AddPost(n, o) PROVE TypeOK' /\ CallInv'
    <2>1. /\ backend' \in [Nodes -> Values \cup {Present, Absent}]
          /\ disturbed' \in BOOLEAN
      BY <1>9, PostIfType, ConfigValue DEF AddPost
    <2>2. added' \in Seq(Nodes)
      BY <1>9 DEF AddPost
    <2> QED
      BY <1>9, <2>1, <2>2 DEF AddPost
  <1>10. ASSUME pc \in Changing, Throw, UNCHANGED backend, UNCHANGED disturbed PROVE TypeOK' /\ CallInv'
    <2>1. CASE Stop
      BY <1>10, <2>1, StopType
    <2>2. CASE Return /\ KeepTree /\ UNCHANGED <<file, tmp, running, runTree, candidate, refs>>
      <3>1. running \in Configs /\ (running # NoConfig /\ pc # "publishing")
        BY <1>10
      <3> QED
        BY <1>10, <2>2, <3>1 DEF Return, KeepTree
    <2>3. Stop \/ (Return /\ KeepTree /\ UNCHANGED <<file, tmp, running, runTree, candidate, refs>>)
      BY <1>10 DEF Throw
    <2> QED
      BY <2>1, <2>2, <2>3
  <1>11. CASE UndoAdd
    <2>1. added # <<>> => Front(added) \in Seq(Nodes)
      BY FrontOf
    <2>2. CASE Throw
      BY <1>10, <1>11, <2>2 DEF UndoAdd, Throw
    <2>3. CASE ~Throw
      BY <1>11, <2>1, <2>3 DEF UndoAdd
    <2> QED
      BY <2>2, <2>3
  <1>12. ASSUME NEW o \in Outcomes, UndoDelete(o) PROVE TypeOK' /\ CallInv'
    <2>1. Front(removed) \in Seq(Nodes) /\ Last(removed) \in Nodes
      BY <1>12, FrontOf DEF UndoDelete, Last
    <2>2. CASE Throw
      BY <1>10, <1>12, <2>2 DEF UndoDelete, Throw
    <2>3. CASE ~Throw
      <3>1. PostIf(Last(removed), OnUpdate \cap runTree, running[Last(removed)], o)
        BY <1>12, <2>3 DEF UndoDelete
      <3>2. running[Last(removed)] \in Values \cup {Present, Absent}
        BY <1>12, <2>1, ConfigValue DEF UndoDelete
      <3>3. /\ backend' \in [Nodes -> Values \cup {Present, Absent}]
            /\ disturbed' \in BOOLEAN
        BY <2>1, <3>1, <3>2, PostIfType
      <3>4. CASE Stop
        BY <3>3, <3>4, StopType
      <3>5. CASE ~Stop
        BY <1>12, <2>1, <2>3, <3>3, <3>5 DEF UndoDelete
      <3> QED
        BY <3>4, <3>5
    <2> QED
      BY <2>2, <2>3
  <1>13. CASE Undone
    BY <1>13 DEF Undone, ReturnFalse, Return, KeepTree
  <1>14. CASE Made
    BY <1>14 DEF Made, Return, SaveXPathReference, NodesOf
  <1>20. CASE Cancelled
    BY <1>20 DEF Cancelled, Return
  <1>15. CASE WriteTmp
    BY <1>15 DEF WriteTmp
  <1>16. CASE Rename \/ RenameFails
    BY <1>16 DEF Rename, RenameFails
  <1>17. CASE Publish
    BY <1>17 DEF Publish
  <1>18. CASE Crash
    BY <1>18, StopType DEF Crash, Disturb
  <1>19. CASE UNCHANGED vars
    BY <1>19
  <1> QED
    BY <1>1, <1>2, <1>3, <1>5, <1>6, <1>7, <1>8, <1>9, <1>11, <1>12, <1>13,
       <1>14, <1>15, <1>16, <1>17, <1>18, <1>19, <1>20 DEF Next

-----------------------------------------------------------------------------
(***************************************************************************)
(* A step that cuts no change short keeps the manager and the backend       *)
(* together: one lemma for each phase of the calls.                        *)
(***************************************************************************)

\* The members of an extended sequence.
LEMMA Members ==
  ASSUME NEW S, NEW s \in Seq(S), NEW e \in S
  PROVE  ToSet(Append(s, e)) = ToSet(s) \cup {e}
  <1>1. /\ DOMAIN Append(s, e) = 1 .. Len(s) + 1 /\ DOMAIN s = 1 .. Len(s)
        /\ \A i \in 1 .. Len(s) : Append(s, e)[i] = s[i]
        /\ Append(s, e)[Len(s) + 1] = e
    OBVIOUS
  <1>2. 1 .. Len(s) + 1 = 1 .. Len(s) \cup {Len(s) + 1}
    OBVIOUS
  <1> QED
    BY <1>1, <1>2 DEF ToSet

\* A change that was cut short stays so.
LEMMA Disturbance ==
  ASSUME TypeOK, [Next]_vars, disturbed
  PROVE  disturbed'
  <1> USE DEF TypeOK, Disturb
  <1>1. ASSUME NEW n, NEW o, LoadPost(n, o) \/ DeletePost(n, o) \/ AddPost(n, o)
        PROVE  disturbed'
    BY <1>1 DEF LoadPost, DeletePost, AddPost, PostIf, Post
  <1>2. ASSUME NEW o, UndoDelete(o) PROVE disturbed'
    BY <1>2 DEF UndoDelete, PostIf, Post, Throw
  <1>3. CASE UndoAdd \/ Undone
    BY <1>3 DEF UndoAdd, Throw, Undone, ReturnFalse
  <1>4. CASE Made \/ Cancelled \/ LoadAdds \/ RefuseAdds
    BY <1>4 DEF Made, Cancelled, LoadAdds, RefuseAdds
  <1>5. CASE WriteTmp \/ Rename \/ RenameFails \/ Publish
    BY <1>5 DEF WriteTmp, Rename, RenameFails, Publish
  <1>6. CASE Start \/ Loaded \/ Crash
    BY <1>6 DEF Start, Loaded, Crash
  <1>7. ASSUME NEW target, MakeCandidateConfig(target) PROVE disturbed'
    BY <1>7 DEF MakeCandidateConfig
  <1>8. ASSUME NEW call, CancelCandidateConfig(call) PROVE disturbed'
    BY <1>8 DEF CancelCandidateConfig
  <1> QED
    BY <1>1, <1>2, <1>3, <1>4, <1>5, <1>6, <1>7, <1>8 DEF Next

\* A request that disturbs nothing was served.
LEMMA Served ==
  ASSUME TypeOK, NEW n, NEW S, NEW v, NEW o, PostIf(n, S, v, o), ~disturbed'
  PROVE  /\ ~disturbed /\ Answered(o)
         /\ backend' = IF n \in S THEN [backend EXCEPT ![n] = v] ELSE backend
  BY DEF TypeOK, PostIf, Post, Disturb, Answered

\* A process that stops leaves a backend without what the saved config has not.
LEMMA StopFollowed ==
  ASSUME Stop, file # Truncated => Gone(Nodes \ NodesOf(file))'
  PROVE  Followed'
  BY DEF Stop, Followed, TreesInv, Changing

\* Loading sends what the saved config has.
LEMMA LoadingFollowed ==
  ASSUME TypeOK, CallInv, Followed, ~disturbed', NEW n \in rest, NEW o, LoadPost(n, o)
  PROVE  Followed'
  <1>1. /\ pc = "loading" /\ n \in Nodes /\ PostIf(n, OnUpdate, file[n], o)
        /\ rest' = rest \ {n} /\ UNCHANGED <<storeVars, refs, pc, callVars, removed, added>>
    BY Served DEF LoadPost, TypeOK
  <1>2. backend' = IF n \in OnUpdate THEN [backend EXCEPT ![n] = file[n]] ELSE backend
    BY <1>1, Served
  <1>3. backend \in [Nodes -> Values \cup {Present, Absent}] /\ OnUpdate \cup OnDelete \subseteq Nodes
    BY TreeAssumption DEF TypeOK
  <1>4. file \in Configs /\ file # Truncated
    BY <1>1, ValuesAssumption DEF CallInv
  <1>5. Gone(Nodes \ NodesOf(file)) /\ LoadingInv /\ TreesInv
    BY <1>1, <1>4 DEF Followed
  <1>6. Gone(Nodes \ NodesOf(file))'
    BY <1>1, <1>2, <1>3, <1>5 DEF Gone, NodesOf
  <1>7. LoadingInv'
    BY <1>1, <1>2, <1>3, <1>5 DEF LoadingInv, Sent, RefsOf, Resolved
  <1>8. TreesInv'
    BY <1>1, <1>5 DEF TreesInv
  <1> QED
    BY <1>1, <1>6, <1>7, <1>8 DEF Followed, Changing

\* A process that starts has the saved config's tree and references.
LEMMA StartFollowed ==
  ASSUME TypeOK, CallInv, Followed, Start \/ Loaded
  PROVE  Followed'
  <1>1. CASE Start
    BY <1>1 DEF Start, CallInv, Followed, TreesInv, LoadingInv, Sent, Gone, RefsOf, Resolved, Changing
  <1>2. CASE Loaded
    <2>1. file \in Configs /\ file # NoConfig /\ file # Truncated /\ candidate = NoConfig
      BY <1>2, ValuesAssumption DEF Loaded, CallInv
    <2>2. LoadingInv /\ Gone(Nodes \ NodesOf(file))
      BY <1>2, <2>1 DEF Loaded, Followed
    <2>3. pc' = "idle" /\ Intended' = file /\ UNCHANGED <<refs, backend>>
      BY <1>2, <2>1 DEF Loaded, Intended
    <2>4. SettledInv'
      BY <1>2, <2>2, <2>3 DEF Loaded, LoadingInv, SettledInv, Sent, Gone
    <2>5. TreesInv'
      BY <1>2, <2>1, <2>2 DEF Loaded, LoadingInv, TreesInv
    <2> QED
      BY <2>3, <2>4, <2>5 DEF Followed, Changing
  <1> QED
    BY <1>1, <1>2

\* A change begins with the references of what both configs have.
LEMMA BeginFollowed ==
  ASSUME ExactPaths, TypeOK, CallInv, Followed, ~disturbed',
         (\E target \in Configs : MakeCandidateConfig(target))
            \/ (\E call \in {"cancel", "expire"} : CancelCandidateConfig(call))
  PROVE  Followed'
  <1>1. PICK call \in {"update", "cancel", "expire"}, json \in Configs, target \in Configs :
            /\ Begin(call, json, NodesOf(json), target)
            /\ json = Intended /\ Resolved(json)
            /\ call = "update" => json = running /\ candidate = NoConfig
            /\ call # "update" => json = candidate /\ target = running
    <2>1. ASSUME NEW target \in Configs, MakeCandidateConfig(target)
          PROVE  /\ Begin("update", running, NodesOf(running), target)
                 /\ running \in Configs /\ running = Intended /\ Resolved(running)
                 /\ candidate = NoConfig
      BY <2>1 DEF MakeCandidateConfig, Disturb, TypeOK, Followed, TreesInv, Intended
    <2>2. ASSUME NEW call \in {"cancel", "expire"}, CancelCandidateConfig(call)
          PROVE  /\ Begin(call, candidate, NodesOf(candidate), running)
                 /\ candidate \in Configs /\ candidate = Intended /\ Resolved(candidate)
                 /\ running \in Configs
      BY <2>2 DEF CancelCandidateConfig, Begin, TypeOK, CallInv, Followed, TreesInv, Intended
    <2> QED
      BY <2>1, <2>2
  <1> DEFINE doomed == NodesOf(json) \ NodesOf(target)
             kept == NodesOf(json) \cap NodesOf(target)
  <1>2. ToRemove(NodesOf(json), RemovedPaths(json, target)) = doomed
    BY Doomed
  <1>3. /\ pc = "idle" /\ MayRemoveXPathReference(doomed)
        /\ pc' = "deleting" /\ op' = call /\ goal' = target /\ tree' = NodesOf(json)
        /\ refs' = RemoveXPathReference(doomed) /\ rest' = doomed
        /\ UNCHANGED <<storeVars, backend, removed, added>>
    BY <1>1, <1>2 DEF Begin
  <1>4. Base' = json
    BY <1>1, <1>3 DEF Base
  <1>5. SettledInv /\ TreesInv /\ removed = <<>>
    BY <1>3 DEF Followed, CallInv, Changing
  <1>6. /\ refs = RefsOf(json)
        /\ Sent(json, NodesOf(json)) /\ Gone(Nodes \ NodesOf(json))
    BY <1>1, <1>5 DEF SettledInv
  <1>7. TargetsExist(kept, kept)
    <2>1. SUFFICES ASSUME NEW r \in References, r[1] \in kept PROVE r[2] \in kept
      BY DEF TargetsExist
    <2>2. r[2] \in NodesOf(json) /\ r \in refs
      BY <1>1, <1>6, <2>1 DEF RefsOf, Resolved, TargetsExist, SaveXPathReference
    <2> QED
      BY <1>3, <2>1, <2>2 DEF MayRemoveXPathReference
  <1>8. refs' = {r \in References : r[1] \in kept}
    BY <1>1, <1>3, <1>6 DEF RefsOf, Resolved, TargetsExist, SaveXPathReference, RemoveXPathReference
  <1>9. Sent(json, rest \cup kept)' /\ Gone(Nodes \ (rest \cup kept))'
    BY <1>3, <1>6 DEF Sent, Gone
  <1>10. ToSet(removed') \cup rest' = doomed
    <2>1. ToSet(<<>>) = {}
      BY DEF ToSet
    <2> QED
      BY <1>3, <1>5, <2>1
  <1>11. DeletingInv'
    BY <1>3, <1>4, <1>7, <1>8, <1>9, <1>10 DEF DeletingInv
  <1>12. ChangingInv' /\ TreesInv'
    BY <1>1, <1>3, <1>5 DEF ChangingInv, TreesInv
  <1> QED
    BY <1>3, <1>11, <1>12 DEF Followed, Changing

\* Nodes of the old config are deleted, what is kept stays sent.
LEMMA DeletingFollowed ==
  ASSUME TypeOK, CallInv, Followed, ~disturbed', NEW n \in rest, NEW o, DeletePost(n, o)
  PROVE  Followed'
  <1>1. /\ pc = "deleting" /\ n \in Nodes /\ PostIf(n, OnDelete, Absent, o)
        /\ rest' = rest \ {n} /\ removed' = Append(removed, n)
        /\ UNCHANGED <<storeVars, refs, pc, callVars, added>>
    BY Served DEF DeletePost, TypeOK
  <1>2. backend' = IF n \in OnDelete THEN [backend EXCEPT ![n] = Absent] ELSE backend
    BY <1>1, Served
  <1>3. backend \in [Nodes -> Values \cup {Present, Absent}] /\ OnUpdate \cup OnDelete \subseteq Nodes
    BY TreeAssumption DEF TypeOK
  <1> DEFINE kept == NodesOf(Base) \cap NodesOf(goal)
  <1>4. Base' = Base /\ goal' = goal
    BY <1>1 DEF Base
  <1>5. DeletingInv /\ ChangingInv /\ TreesInv
    BY <1>1 DEF Followed, Changing
  <1>6. n \notin kept
    BY <1>5 DEF DeletingInv
  <1>7. Sent(Base, rest \cup kept) /\ Gone(Nodes \ (rest \cup kept))
    BY <1>5 DEF DeletingInv
  <1>8. Sent(Base, (rest \ {n}) \cup kept)'
    BY <1>1, <1>2, <1>3, <1>4, <1>6, <1>7 DEF Sent
  <1>9. Gone(Nodes \ ((rest \ {n}) \cup kept))'
    BY <1>1, <1>2, <1>3, <1>4, <1>6, <1>7 DEF Gone
  <1>10. ToSet(removed') = ToSet(removed) \cup {n}
    BY <1>1, Members DEF TypeOK
  <1>11. DeletingInv'
    BY <1>1, <1>4, <1>5, <1>8, <1>9, <1>10 DEF DeletingInv
  <1>12. ChangingInv' /\ TreesInv'
    BY <1>1, <1>5 DEF ChangingInv, TreesInv
  <1> QED
    BY <1>1, <1>11, <1>12 DEF Followed, Changing

\* Once everything is deleted, what is loaded beside it is the new config, all
\* of whose references resolve.
LEMMA LoadAddsFollowed ==
  ASSUME TypeOK, CallInv, Followed, LoadAdds
  PROVE  Followed'
  <1>1. /\ pc = "deleting" /\ rest = {} /\ AddsAccepted /\ tree' = LoadedTree
        /\ refs' = refs \cup SaveXPathReference(ToAdd, LoadedTree)
        /\ rest' = ToAdd /\ pc' = "adding"
        /\ UNCHANGED <<storeVars, backend, op, goal, savedRefs, removed, added>>
    BY DEF LoadAdds
  <1>2. DeletingInv /\ ChangingInv /\ TreesInv
    BY <1>1 DEF Followed, Changing
  <1>3. goal \in Configs /\ Base \in Configs
    BY <1>1 DEF CallInv, Changing, Base
  <1> DEFINE kept == NodesOf(Base) \cap NodesOf(goal)
  <1>4. /\ ToSet(removed) = NodesOf(Base) \ NodesOf(goal) /\ tree = NodesOf(Base)
        /\ TargetsExist(kept, kept) /\ refs = {r \in References : r[1] \in kept}
        /\ Sent(Base, kept) /\ Gone(Nodes \ kept)
    BY <1>1, <1>2 DEF DeletingInv
  <1>5. /\ LoadedTree = NodesOf(goal) /\ ToAdd \subseteq NodesOf(goal)
        /\ \A n \in NodesOf(goal) \ ToAdd : n \in NodesOf(Base) /\ Base[n] = goal[n]
    <2>1. tree \ ToSet(removed) = NodesOf(Base) \cap NodesOf(goal)
      BY <1>4
    <2> QED
      BY <1>3, <2>1, Loads
  <1>6. Resolved(goal)
    <2>1. SUFFICES ASSUME NEW r \in References, r[1] \in NodesOf(goal)
                   PROVE  r[2] \in NodesOf(goal)
      BY DEF Resolved, TargetsExist
    <2>2. CASE r[1] \in ToAdd
      BY <1>1, <1>5, <2>2 DEF AddsAccepted, TargetsExist
    <2>3. CASE r[1] \in kept
      BY <1>4, <2>3 DEF TargetsExist
    <2> QED
      BY <1>5, <2>1, <2>2, <2>3
  <1>7. refs' = RefsOf(goal)
    BY <1>1, <1>4, <1>5, <1>6 DEF RefsOf, Resolved, TargetsExist, SaveXPathReference
  <1>8. Sent(goal, NodesOf(goal) \ rest)'
    BY <1>1, <1>4, <1>5 DEF Sent
  <1>9. Gone(Nodes \ NodesOf(goal))'
    BY <1>1, <1>4 DEF Gone
  <1>10. AddingInv'
    BY <1>1, <1>5, <1>6, <1>7, <1>8, <1>9 DEF AddingInv, RefsOf, Resolved
  <1>11. ChangingInv' /\ TreesInv'
    BY <1>1, <1>2 DEF ChangingInv, TreesInv
  <1> QED
    BY <1>1, <1>10, <1>11 DEF Followed, Changing

\* An update that is refused before anything was deleted leaves all as it was.
LEMMA RefusedFollowed ==
  ASSUME TypeOK, CallInv, Followed, ~disturbed', RefuseAdds \/ Undone
  PROVE  Followed'
  <1>1. CASE RefuseAdds
    <2>1. /\ pc = "deleting" /\ rest = {} /\ removed = <<>> /\ op = "update" /\ pc' = "undoDeletes"
          /\ UNCHANGED <<storeVars, refs, backend, op, goal, removed>>
      BY <1>1 DEF RefuseAdds, Disturb, TypeOK
    <2>2. DeletingInv /\ ChangingInv /\ TreesInv /\ Base = running /\ Intended = running
      BY <2>1 DEF Followed, Changing, Base, Intended, ChangingInv
    <2>3. ToSet(<<>>) = {}
      BY DEF ToSet
    <2> DEFINE kept == NodesOf(running) \cap NodesOf(goal)
    <2>4. /\ NodesOf(running) \subseteq NodesOf(goal)
          /\ refs = {r \in References : r[1] \in kept}
          /\ Sent(running, kept) /\ Gone(Nodes \ kept)
      BY <2>1, <2>2, <2>3 DEF DeletingInv
    <2>5. kept = NodesOf(running) /\ Resolved(running)
      BY <2>1, <2>2, <2>4, ValuesAssumption DEF TreesInv, CallInv
    <2>6. refs = RefsOf(running)
      BY <2>4, <2>5 DEF RefsOf, Resolved, TargetsExist, SaveXPathReference
    <2>7. SettledInv
      BY <2>2, <2>4, <2>5, <2>6 DEF SettledInv
    <2>8. SettledInv' /\ ChangingInv' /\ TreesInv'
      BY <2>1, <2>2, <2>7 DEF SettledInv, ChangingInv, TreesInv, Intended, Sent, Gone
    <2> QED
      BY <2>1, <2>8 DEF Followed, Changing
  <1>2. CASE Undone
    <2>1. pc = "undoDeletes" /\ op = "update" /\ SettledInv /\ TreesInv
      BY <1>2 DEF Undone, Followed
    <2>2. pc' = "idle" /\ UNCHANGED <<storeVars, refs, backend>>
      BY <1>2, <2>1 DEF Undone, ReturnFalse, Return, KeepTree
    <2>3. SettledInv' /\ TreesInv'
      BY <2>1, <2>2 DEF SettledInv, TreesInv, Intended, Sent, Gone
    <2> QED
      BY <2>2, <2>3 DEF Followed, Changing
  <1> QED
    BY <1>1, <1>2

\* The nodes of the new config are sent, each with its value.
LEMMA AddingFollowed ==
  ASSUME TypeOK, CallInv, Followed, ~disturbed', NEW n \in rest, NEW o, AddPost(n, o)
  PROVE  Followed'
  <1> DEFINE v == IF n \in Leaves THEN goal[n] ELSE Present
  <1>1. /\ pc = "adding" /\ n \in Nodes /\ PostIf(n, OnUpdate, v, o)
        /\ rest' = rest \ {n} /\ added' = Append(added, n)
        /\ UNCHANGED <<storeVars, refs, pc, callVars, removed>>
    BY Served DEF AddPost, TypeOK
  <1>2. backend' = IF n \in OnUpdate THEN [backend EXCEPT ![n] = v] ELSE backend
    BY <1>1, Served
  <1>3. backend \in [Nodes -> Values \cup {Present, Absent}] /\ OnUpdate \cup OnDelete \subseteq Nodes
    BY TreeAssumption DEF TypeOK
  <1>4. AddingInv /\ ChangingInv /\ TreesInv /\ goal \in Configs
    BY <1>1 DEF Followed, CallInv, Changing
  <1>5. n \in NodesOf(goal) /\ v = goal[n]
    BY <1>4 DEF AddingInv, Configs, NodesOf
  <1> HIDE DEF v
  <1>6. Sent(goal, NodesOf(goal) \ rest)'
    BY <1>1, <1>2, <1>3, <1>4, <1>5 DEF AddingInv, Sent
  <1>7. Gone(Nodes \ NodesOf(goal))'
    BY <1>1, <1>2, <1>3, <1>4, <1>5 DEF AddingInv, Gone
  <1>8. AddingInv'
    BY <1>1, <1>4, <1>6, <1>7 DEF AddingInv, RefsOf, Resolved
  <1>9. ChangingInv' /\ TreesInv'
    BY <1>1, <1>4 DEF ChangingInv, TreesInv
  <1> QED
    BY <1>1, <1>8, <1>9 DEF Followed, Changing

\* Once everything is sent, the backend has the config the call leads to.
LEMMA MadeFollowed ==
  ASSUME TypeOK, CallInv, Followed, Made \/ Cancelled
  PROVE  Followed'
  <1>1. /\ pc = "adding" /\ rest = {} /\ pc' = "idle"
        /\ UNCHANGED <<file, tmp, running, runTree, backend>>
    BY DEF Made, Cancelled, Return
  <1>2. AddingInv /\ ChangingInv /\ TreesInv /\ goal \in Configs /\ running \in Configs
    BY <1>1 DEF Followed, CallInv, Changing
  <1>3. refs = RefsOf(goal) /\ Resolved(goal) /\ Sent(goal, NodesOf(goal)) /\ Gone(Nodes \ NodesOf(goal))
    BY <1>1, <1>2 DEF AddingInv
  <1>4. /\ Intended' = goal /\ refs' = RefsOf(goal)
        /\ candidate' # NoConfig => candidate' = goal /\ candTree' = NodesOf(goal)
    <2>1. CASE Made
      BY <1>2, <1>3, <2>1, ValuesAssumption DEF Made, Intended, RefsOf
    <2>2. CASE Cancelled
      BY <1>2, <1>3, <2>2 DEF Cancelled, Intended, ChangingInv
    <2> QED
      BY <2>1, <2>2
  <1>5. SettledInv'
    BY <1>1, <1>3, <1>4 DEF SettledInv, Sent, Gone
  <1>6. TreesInv'
    BY <1>1, <1>2, <1>3, <1>4 DEF TreesInv
  <1> QED
    BY <1>1, <1>5, <1>6 DEF Followed, Changing

\* A commit saves and publishes what the backend already has.
LEMMA ApplyFollowed ==
  ASSUME TypeOK, CallInv, Followed, WriteTmp \/ Rename \/ RenameFails \/ Publish
  PROVE  Followed'
  <1>1. /\ pc \in {"idle", "renaming", "publishing"} /\ pc' \in {"idle", "renaming", "publishing"}
        /\ UNCHANGED <<refs, backend>>
    BY DEF WriteTmp, Rename, RenameFails, Publish
  <1>2. SettledInv /\ TreesInv
    BY <1>1 DEF Followed
  <1>3. Intended' = Intended /\ TreesInv'
    <2>1. CASE WriteTmp \/ Rename \/ RenameFails
      BY <1>2, <2>1 DEF WriteTmp, Rename, RenameFails, Intended, TreesInv
    <2>2. CASE Publish
      <3>1. candidate \in Configs /\ candidate # NoConfig
        BY <2>2, ValuesAssumption DEF Publish, CallInv
      <3> QED
        BY <1>2, <2>2, <3>1 DEF Publish, Intended, TreesInv
    <2> QED
      BY <2>1, <2>2
  <1>4. SettledInv'
    BY <1>1, <1>2, <1>3 DEF SettledInv, Sent, Gone
  <1> QED
    BY <1>1, <1>3, <1>4 DEF Followed, Changing

\* A crash that cuts no change short leaves the backend with the saved config.
LEMMA CrashFollowed ==
  ASSUME TypeOK, CallInv, Followed, ~disturbed', Crash
  PROVE  Followed'
  <1>1. /\ Stop /\ UNCHANGED <<file, backend>> /\ pc # "down" /\ pc \notin Changing
        /\ candidate # NoConfig => pc = "publishing"
    BY DEF Crash, Stop, Disturb, Changing, TypeOK
  <1>2. SUFFICES ASSUME file # Truncated PROVE Gone(Nodes \ NodesOf(file))
    BY <1>1, StopFollowed DEF Gone
  <1>3. CASE pc = "loading"
    BY <1>2, <1>3 DEF Followed
  <1>4. CASE pc # "loading"
    <2>1. pc \in {"idle", "renaming", "publishing"} /\ running # NoConfig
      BY <1>1, <1>4, ValuesAssumption DEF TypeOK, States, Changing, CallInv
    <2>2. file = Intended
      BY <1>1, <1>2, <2>1, ValuesAssumption DEF CallInv, Intended
    <2> QED
      BY <2>1, <2>2 DEF Followed, SettledInv
  <1> QED
    BY <1>3, <1>4

\* Every step that cuts no change short keeps the manager and the backend
\* together.
LEMMA FollowStep ==
  ASSUME ExactPaths, TypeOK, FollowInv, [Next]_vars
  PROVE  FollowInv'
  <1>1. CallInv'
    BY TypeStep DEF FollowInv
  <1>2. SUFFICES ASSUME ~disturbed' PROVE Followed'
    BY <1>1 DEF FollowInv
  <1>3. CallInv /\ ~disturbed /\ Followed
    BY <1>2, Disturbance DEF FollowInv
  <1>4. CASE Start \/ Loaded
    BY <1>3, <1>4, StartFollowed
  <1>5. ASSUME NEW n \in rest, NEW o \in Outcomes, LoadPost(n, o) PROVE Followed'
    BY <1>2, <1>3, <1>5, LoadingFollowed
  <1>6. CASE \/ \E target \in Configs : MakeCandidateConfig(target)
             \/ \E call \in {"cancel", "expire"} : CancelCandidateConfig(call)
    BY <1>2, <1>3, <1>6, BeginFollowed
  <1>7. ASSUME NEW n \in rest, NEW o \in Outcomes, DeletePost(n, o) PROVE Followed'
    BY <1>2, <1>3, <1>7, DeletingFollowed
  <1>8. CASE LoadAdds
    BY <1>3, <1>8, LoadAddsFollowed
  <1>9. CASE RefuseAdds \/ Undone
    BY <1>2, <1>3, <1>9, RefusedFollowed
  <1>10. ASSUME NEW n \in rest, NEW o \in Outcomes, AddPost(n, o) PROVE Followed'
    BY <1>2, <1>3, <1>10, AddingFollowed
  <1>11. ~UndoAdd /\ \A o \in Outcomes : ~UndoDelete(o)
    BY <1>3 DEF Followed, UndoAdd, UndoDelete
  <1>12. CASE Made \/ Cancelled
    BY <1>3, <1>12, MadeFollowed
  <1>13. CASE WriteTmp \/ Rename \/ RenameFails \/ Publish
    BY <1>3, <1>13, ApplyFollowed
  <1>14. CASE Crash
    BY <1>2, <1>3, <1>14, CrashFollowed
  <1>15. CASE UNCHANGED vars
    BY <1>3, <1>15 DEF Followed, TreesInv, LoadingInv, SettledInv, ChangingInv, DeletingInv,
                       AddingInv, Intended, Base, Sent, Gone
  <1> QED
    BY <1>4, <1>5, <1>6, <1>7, <1>8, <1>9, <1>10, <1>11, <1>12, <1>13, <1>14, <1>15 DEF Next

\* The invariants hold from the start.
LEMMA FollowInit == Init => TypeOK /\ FollowInv
  <1> SUFFICES ASSUME Init PROVE TypeOK /\ FollowInv
    OBVIOUS
  <1>1. TypeOK
    <2>1. backend \in [Nodes -> Values \cup {Present, Absent}]
      BY DEF Init
    <2>2. file \in Configs /\ removed \in Seq(Nodes) /\ added \in Seq(Nodes)
      BY DEF Init
    <2> QED
      BY <2>1, <2>2 DEF Init, TypeOK, States, Calls
  <1>2. CallInv
    BY DEF Init, CallInv, Changing
  <1>3. Gone(Nodes \ NodesOf(file))
    BY DEF Init, Gone
  <1>4. Followed
    BY <1>3 DEF Init, Followed, TreesInv, Changing
  <1> QED
    BY <1>1, <1>2, <1>4 DEF FollowInv

\* Between requests and at each of them the backend has the target of every
\* reference it has, by the order in which the nodes are sent.
LEMMA RefsResolveStep ==
  ASSUME TargetsEarlier, TypeOK, FollowInv, FollowInv', BackendRefsResolve, [Next]_vars
  PROVE  BackendRefsResolve'
  <1>1. SUFFICES ASSUME ~disturbed', NEW r \in References,
                        {r[1], r[2]} \subseteq OnUpdate \cap OnDelete,
                        backend'[r[1]] # Absent
                 PROVE  backend'[r[2]] # Absent
    BY DEF BackendRefsResolve
  <1>2. /\ CallInv /\ ~disturbed /\ Followed
        /\ backend[r[1]] # Absent => backend[r[2]] # Absent
    BY <1>1, Disturbance DEF FollowInv, BackendRefsResolve
  <1>3. /\ r[1] \in Nodes /\ r[2] \in Nodes /\ <<r[2], r[1]>> \in Earlier
        /\ backend \in [Nodes -> Values \cup {Present, Absent}]
    BY OrderAssumption DEF TargetsEarlier, TypeOK
  <1>4. ASSUME NEW n \in rest, NEW o \in Outcomes, LoadPost(n, o)
        PROVE  backend'[r[2]] # Absent
    <2>1. /\ pc = "loading" /\ n \in NextToAdd(rest)
          /\ PostIf(n, OnUpdate, file[n], o)
      BY <1>4 DEF LoadPost
    <2>2. backend' = IF n \in OnUpdate THEN [backend EXCEPT ![n] = file[n]] ELSE backend
      BY <1>1, <2>1, Served
    <2>3. Resolved(file) /\ Sent(file, NodesOf(file) \ rest) /\ n \in Nodes
      BY <1>2, <2>1 DEF Followed, LoadingInv, TypeOK, NextToAdd
    <2>4. CASE n = r[1] /\ n # r[2]
      <3>1. r[2] \in NodesOf(file)
        BY <1>1, <1>3, <2>2, <2>3, <2>4 DEF Resolved, TargetsExist, NodesOf
      <3>2. r[2] \notin rest
        BY <1>3, <2>1, <2>4 DEF NextToAdd
      <3>3. backend[r[2]] # Absent
        BY <1>1, <2>3, <3>1, <3>2 DEF Sent, NodesOf
      <3> QED
        BY <1>3, <2>2, <2>4, <3>3
    <2>5. CASE n = r[2]
      <3>1. file[n] # Absent /\ n \in OnUpdate
        BY <1>1, <1>2, <2>1, <2>5, <1>4 DEF Followed, LoadingInv, NodesOf
      <3> QED
        BY <1>3, <2>2, <2>5, <3>1
    <2> QED
      BY <1>1, <1>2, <1>3, <2>2, <2>4, <2>5
  <1>5. ASSUME NEW n \in rest, NEW o \in Outcomes, DeletePost(n, o)
        PROVE  backend'[r[2]] # Absent
    <2> DEFINE kept == NodesOf(Base) \cap NodesOf(goal)
    <2>1. /\ pc = "deleting" /\ n \in NextToDelete(rest)
          /\ PostIf(n, OnDelete, Absent, o)
      BY <1>5 DEF DeletePost
    <2>2. backend' = IF n \in OnDelete THEN [backend EXCEPT ![n] = Absent] ELSE backend
      BY <1>1, <2>1, Served
    <2>3. TargetsExist(kept, kept) /\ Gone(Nodes \ (rest \cup kept)) /\ n \notin kept
      BY <1>2, <1>5, <2>1 DEF Followed, DeletingInv
    <2>4. n # r[1] /\ backend[r[1]] # Absent
      BY <1>1, <1>3, <2>2
    <2>5. r[1] \in rest \cup kept
      BY <1>1, <1>3, <2>3, <2>4 DEF Gone
    <2>6. CASE n = r[2]
      <3>1. r[1] \notin rest
        BY <1>3, <2>1, <2>6 DEF NextToDelete
      <3>2. r[2] \in kept
        BY <1>1, <2>3, <2>5, <3>1 DEF TargetsExist
      <3> QED
        BY <2>3, <2>6, <3>2
    <2> QED
      BY <1>2, <1>3, <2>2, <2>4, <2>6
  <1>6. ASSUME NEW n \in rest, NEW o \in Outcomes, AddPost(n, o)
        PROVE  backend'[r[2]] # Absent
    <2> DEFINE v == IF n \in Leaves THEN goal[n] ELSE Present
    <2>1. /\ pc = "adding" /\ n \in NextToAdd(rest) /\ PostIf(n, OnUpdate, v, o)
      BY <1>6 DEF AddPost
    <2>2. backend' = IF n \in OnUpdate THEN [backend EXCEPT ![n] = v] ELSE backend
      BY <1>1, <2>1, Served
    <2>3. AddingInv /\ goal \in Configs
      BY <1>2, <2>1 DEF Followed, CallInv, Changing
    <2>4. n \in NodesOf(goal) /\ v = goal[n] /\ v # Absent
      BY <1>6, <2>3 DEF AddingInv, Configs, NodesOf
    <2> HIDE DEF v
    <2>5. CASE n = r[2]
      BY <1>1, <1>3, <2>2, <2>4, <2>5
    <2>6. CASE n = r[1] /\ n # r[2]
      <3>1. r[2] \in NodesOf(goal)
        BY <1>1, <2>3, <2>4, <2>6 DEF AddingInv, Resolved, TargetsExist
      <3>2. r[2] \notin rest
        BY <1>3, <2>1, <2>6 DEF NextToAdd
      <3>3. backend[r[2]] # Absent
        BY <1>1, <2>3, <3>1, <3>2 DEF AddingInv, Sent, NodesOf
      <3> QED
        BY <1>3, <2>2, <2>6, <3>3
    <2> QED
      BY <1>1, <1>2, <1>3, <2>2, <2>5, <2>6
  <1>7. ~UndoAdd /\ \A o \in Outcomes : ~UndoDelete(o)
    BY <1>2 DEF Followed, UndoAdd, UndoDelete
  <1>8. SUFFICES ASSUME UNCHANGED backend PROVE backend'[r[2]] # Absent
    <2>1. CASE Start \/ Loaded \/ Crash
      BY <1>8, <2>1 DEF Start, Loaded, Crash
    <2>2. CASE \/ \E target \in Configs : MakeCandidateConfig(target)
               \/ \E call \in {"cancel", "expire"} : CancelCandidateConfig(call)
      BY <1>8, <2>2 DEF MakeCandidateConfig, CancelCandidateConfig, Begin
    <2>3. CASE LoadAdds \/ RefuseAdds
      BY <1>8, <2>3 DEF LoadAdds, RefuseAdds
    <2>4. CASE Undone \/ Made \/ Cancelled
      BY <1>8, <2>4 DEF Undone, ReturnFalse, Made, Cancelled
    <2>5. CASE WriteTmp \/ Rename \/ RenameFails \/ Publish
      BY <1>8, <2>5 DEF WriteTmp, Rename, RenameFails, Publish
    <2>6. CASE UNCHANGED vars
      BY <1>8, <2>6
    <2> QED
      BY <1>4, <1>5, <1>6, <1>7, <2>1, <2>2, <2>3, <2>4, <2>5, <2>6 DEF Next
  <1> QED
    BY <1>1, <1>2, <1>8

-----------------------------------------------------------------------------
(***************************************************************************)
(* The theorems.                                                           *)
(***************************************************************************)

\* Every variable stays in its type, whatever goes wrong.
THEOREM TypeCorrect == Spec => []TypeOK
  <1>1. Init => TypeOK /\ CallInv
    BY FollowInit DEF FollowInv
  <1>2. TypeOK /\ CallInv /\ [Next]_vars => (TypeOK /\ CallInv)'
    BY TypeStep
  <1> QED
    BY <1>1, <1>2, PTL DEF Spec

\* Whatever was not cut short, a change has come to a definite point at every step:
\* the backend, the references and the trees have the one config in part and the
\* other in part, as the list of what is still to be sent says (config.cpp:1089-1540).
THEOREM Follows ==
  ASSUME ExactPaths
  PROVE  Spec => [](TypeOK /\ FollowInv)
  <1>1. TypeOK /\ FollowInv /\ [Next]_vars => (TypeOK /\ FollowInv)'
    BY TypeStep, FollowStep DEF FollowInv
  <1> QED
    BY <1>1, FollowInit, PTL DEF Spec

\* Between calls the backend has what the manager means it to have.
THEOREM BackendFollowing ==
  ASSUME ExactPaths
  PROVE  Spec => []BackendFollows
  <1>1. TypeOK /\ FollowInv => BackendFollows
    BY TreeAssumption DEF FollowInv, Followed, SettledInv, BackendFollows, BackendHas,
                          Sent, Gone, NodesOf
  <1> QED
    BY <1>1, Follows, PTL

\* Between calls the references are exactly those of the intended config.
THEOREM ReferencesExact ==
  ASSUME ExactPaths
  PROVE  Spec => []RefsExact
  <1>1. TypeOK /\ FollowInv => RefsExact
    BY DEF FollowInv, Followed, SettledInv, RefsExact, RefsOf
  <1> QED
    BY <1>1, Follows, PTL

\* Between calls the tree of the running config is that of its JSON.
THEOREM RunningTree ==
  ASSUME ExactPaths
  PROVE  Spec => []TreeIsRunning
  <1>1. TypeOK /\ FollowInv => TreeIsRunning
    BY ValuesAssumption DEF FollowInv, CallInv, Followed, TreesInv, TreeIsRunning
  <1> QED
    BY <1>1, Follows, PTL

\* As long as no change was cut short, no config is served that lacks the target
\* of a reference: what sample_request.sh:431 expects of the removal of an
\* interface.
THEOREM ServedReferencesResolve ==
  ASSUME ExactPaths
  PROVE  Spec => [](pc = "idle" /\ ~disturbed => TargetsExist(NodesOf(running), NodesOf(running)))
  <1>1. TypeOK /\ FollowInv
           => (pc = "idle" /\ ~disturbed => TargetsExist(NodesOf(running), NodesOf(running)))
    BY ValuesAssumption DEF FollowInv, CallInv, Followed, TreesInv, Resolved
  <1> QED
    BY <1>1, Follows, PTL

\* At every moment of a change the backend has the target of each reference it
\* has.
THEOREM BackendResolving ==
  ASSUME ExactPaths, TargetsEarlier
  PROVE  Spec => []BackendRefsResolve
  <1>1. Init => BackendRefsResolve
    BY TreeAssumption DEF Init, BackendRefsResolve
  <1>2. /\ TypeOK /\ FollowInv /\ (TypeOK /\ FollowInv)' /\ BackendRefsResolve /\ [Next]_vars
           => BackendRefsResolve'
    BY RefsResolveStep
  <1> QED
    BY <1>1, <1>2, Follows, PTL DEF Spec

=============================================================================
