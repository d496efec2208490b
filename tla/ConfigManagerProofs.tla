------------------------ MODULE ConfigManagerProofs -------------------------
(***************************************************************************)
(* Proofs about module ConfigManager, for any schema, order of the nodes   *)
(* and all faults: the manager implements CandidateStore.                  *)
(***************************************************************************)
EXTENDS ConfigManager, TLAPS

USE DEF vars, storeVars, callVars

\* Nothing is saved, staged or served that validateJsonConfig did not admit, and
\* a commit publishes the config it saved: the invariant is inductive.
LEMMA StoreInvStep ==
  ASSUME StoreInv, [Next]_vars
  PROVE  StoreInv'
  <1> USE ValuesAssumption DEF StoreInv, RunningIsSaved, Damaged
  <1>1. CASE Start
    BY <1>1 DEF Start
  <1>2. ASSUME NEW n \in rest, NEW o \in Outcomes, LoadPost(n, o) PROVE StoreInv'
    BY <1>2 DEF LoadPost, Stop
  <1>3. CASE Loaded
    BY <1>3 DEF Loaded
  <1>4. ASSUME NEW target \in Configs, MakeCandidateConfig(target) PROVE StoreInv'
    BY <1>4 DEF MakeCandidateConfig, Begin
  <1>5. ASSUME NEW call \in {"cancel", "expire"}, CancelCandidateConfig(call)
        PROVE  StoreInv'
    BY <1>5 DEF CancelCandidateConfig, Begin
  <1>6. ASSUME NEW n \in rest, NEW o \in Outcomes, DeletePost(n, o) PROVE StoreInv'
    BY <1>6 DEF DeletePost
  <1>7. CASE LoadAdds \/ RefuseAdds
    BY <1>7 DEF LoadAdds, RefuseAdds
  <1>8. ASSUME NEW n \in rest, NEW o \in Outcomes, AddPost(n, o) PROVE StoreInv'
    BY <1>8 DEF AddPost
  <1>9. CASE UndoAdd
    BY <1>9 DEF UndoAdd, Throw, Return, Stop
  <1>10. ASSUME NEW o \in Outcomes, UndoDelete(o) PROVE StoreInv'
    BY <1>10 DEF UndoDelete, Throw, Return, Stop
  <1>11. CASE Undone
    BY <1>11 DEF Undone, ReturnFalse, Return
  <1>12. CASE Made \/ Cancelled
    BY <1>12 DEF Made, Cancelled, Return
  <1>13. CASE WriteTmp
    BY <1>13 DEF WriteTmp
  <1>14. CASE Rename \/ RenameFails
    BY <1>14 DEF Rename, RenameFails
  <1>15. CASE Publish
    BY <1>15 DEF Publish
  <1>16. CASE Crash
    BY <1>16 DEF Crash, Stop
  <1>17. CASE UNCHANGED vars
    BY <1>17
  <1> QED
    BY <1>1, <1>2, <1>3, <1>4, <1>5, <1>6, <1>7, <1>8, <1>9, <1>10, <1>11,
       <1>12, <1>13, <1>14, <1>15, <1>16, <1>17 DEF Next

\* Every step of the manager is a step of the store or leaves it alone.
LEMMA StoreStep ==
  ASSUME StoreInv, StoreInv', [Next]_vars
  PROVE  [Store!Next]_<<file, IF pc = "publishing" THEN NoConfig ELSE candidate>>
  <1> USE ValuesAssumption DEF StoreInv, Damaged, Store!Next, Store!Stage, Store!Commit, Store!Discard
  <1>1. CASE Start \/ Loaded
    BY <1>1 DEF Start, Loaded
  <1>2. ASSUME NEW n \in rest, NEW o \in Outcomes,
               LoadPost(n, o) \/ DeletePost(n, o) \/ AddPost(n, o)
        PROVE  [Store!Next]_<<file, IF pc = "publishing" THEN NoConfig ELSE candidate>>
    BY <1>2 DEF LoadPost, Stop, DeletePost, AddPost
  <1>3. ASSUME NEW target \in Configs, MakeCandidateConfig(target)
        PROVE  [Store!Next]_<<file, IF pc = "publishing" THEN NoConfig ELSE candidate>>
    BY <1>3 DEF MakeCandidateConfig, Begin
  <1>4. ASSUME NEW call \in {"cancel", "expire"}, CancelCandidateConfig(call)
        PROVE  [Store!Next]_<<file, IF pc = "publishing" THEN NoConfig ELSE candidate>>
    BY <1>4 DEF CancelCandidateConfig, Begin
  <1>5. CASE LoadAdds \/ RefuseAdds
    BY <1>5 DEF LoadAdds, RefuseAdds
  <1>6. CASE UndoAdd
    BY <1>6 DEF UndoAdd, Throw, Return, Stop
  <1>7. ASSUME NEW o \in Outcomes, UndoDelete(o)
        PROVE  [Store!Next]_<<file, IF pc = "publishing" THEN NoConfig ELSE candidate>>
    BY <1>7 DEF UndoDelete, Throw, Return, Stop
  <1>8. CASE Undone
    BY <1>8 DEF Undone, ReturnFalse, Return
  <1>9. CASE Made \/ Cancelled
    BY <1>9 DEF Made, Cancelled, Return
  <1>10. CASE WriteTmp
    BY <1>10 DEF WriteTmp
  <1>11. CASE Rename \/ RenameFails
    BY <1>11 DEF Rename, RenameFails
  <1>12. CASE Publish
    BY <1>12 DEF Publish
  <1>13. CASE Crash
    BY <1>13 DEF Crash, Stop
  <1>14. CASE UNCHANGED vars
    BY <1>14
  <1> QED
    BY <1>1, <1>2, <1>3, <1>4, <1>5, <1>6, <1>7, <1>8, <1>9, <1>10, <1>11,
       <1>12, <1>13, <1>14 DEF Next

\* The invariant holds from the start: the process begins with a valid file.
LEMMA StoreInvInit == Init => StoreInv
  BY ValuesAssumption DEF Init, StoreInv, RunningIsSaved

\* What is served as the running config is always what a restart would load, or
\* the disk has not kept it (config.cpp:1630).
THEOREM RunningSaved == Spec => []RunningIsSaved
  <1>1. StoreInv /\ [Next]_vars => StoreInv'
    BY StoreInvStep
  <1>2. StoreInv => RunningIsSaved
    BY DEF StoreInv
  <1> QED
    BY <1>1, <1>2, StoreInvInit, PTL DEF Spec

\* The manager implements the abstract store: configs are staged, committed and
\* dropped whole, whichever requests fail and wherever the process stops.
THEOREM StoreImplemented == Spec => StoreSpec
  <1>1. Init => Store!Init
    BY ValuesAssumption DEF Init, Store!Init
  <1>2. StoreInv /\ [Next]_vars => StoreInv'
    BY StoreInvStep
  <1>3. StoreInv /\ StoreInv' /\ [Next]_vars
          => [Store!Next]_<<file, IF pc = "publishing" THEN NoConfig ELSE candidate>>
    BY StoreStep
  <1> QED
    BY <1>1, <1>2, <1>3, StoreInvInit, PTL DEF Spec, StoreSpec, Store!Spec

=============================================================================
