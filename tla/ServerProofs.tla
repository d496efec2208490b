---------------------------- MODULE ServerProofs ----------------------------
(***************************************************************************)
(* Proofs about module Server, for any number of sessions and handler      *)
(* threads and any timeouts.                                               *)
(***************************************************************************)
EXTENDS Server, TLAPS

USE DEF vars, sessionVars, timerVars, checkerVars, handlerVars

-----------------------------------------------------------------------------

\* The start of the server satisfies the inductive invariant.
LEMMA InitInv == Init => ServerInv
  <1> SUFFICES ASSUME Init PROVE ServerInv
    OBVIOUS
  <1> USE NoTokenAssumption, TimeoutAssumption DEF Init, SessionInit
  <1>1. TypeOK
    <2>1. 0 \in 0 .. SessionTimeout + 1 /\ 0 \in 0 .. ConfirmTimeout + 1
      OBVIOUS
    <2>2. SessionTypeOK
      BY <2>1 DEF SessionTypeOK, TimerStates, CheckerStates
    <2> QED
      BY <2>2 DEF TypeOK, HandlerStates, AllRequests
  <1>2. HandlersServe /\ CheckerOnToken /\ ListsDisjoint
    BY DEF HandlersServe, CheckerOnToken, ListsDisjoint, Firing
  <1>3. UnfiredTimersExist /\ ReapedTimersAreCancelled
    BY DEF UnfiredTimersExist, ReapedTimersAreCancelled, Unfired
  <1> QED
    BY <1>1, <1>2, <1>3 DEF ServerInv

USE DEF Goto, Refresh, EraseLeaseOf, EraseTimerOf, RegisterSessionToken,
        CheckSessionToken, MaySetActive, SetActiveSessionToken,
        CheckActiveSessionToken, RemoveSessionToken,
        CancelSessionTokenTimerOnce, SetSessionTokenTimerOnce

\* What a handler can do to the timers.  Its cancellation keeps the entry, its
\* setting of a timer changes nothing where there is an entry, and it never
\* touches the checker's variables.
LEMMA HandlerTimers ==
  ASSUME ServerInv, NEW h \in Handlers, HandlerStep(h)
  PROVE  /\ UNCHANGED checkerVars
         /\ \A t \in Tokens :
              /\ timer[t] # "none" => timer'[t] # "none"
              /\ timer[t] = "quit" => timer'[t] = "quit"
  BY DEF ServerInv, TypeOK, SessionTypeOK, HandlersServe, HandlerStep, Register, Check, Remove, SetActive, CheckActive,
       GetTokenToCancelTimer, CancelTimer, MakeCandidate, ApplyCandidate,
       CancelCandidate, GetTokenToSetTimer, SetTimer

\* A step of a handler preserves the inductive invariant.
LEMMA HandlerInv ==
  ASSUME ServerInv, NEW h \in Handlers, HandlerStep(h)
  PROVE  ServerInv'
  <1> USE NoTokenAssumption, TimeoutAssumption
  <1>1. TypeOK'
    <2>1. 0 \in 0 .. SessionTimeout + 1 /\ 0 \in 0 .. ConfirmTimeout + 1
      OBVIOUS
    <2> QED
      BY <2>1 DEF ServerInv, TypeOK, SessionTypeOK, HandlersServe, TimerStates,
       HandlerStates, AllRequests, HandlerStep, Register, Check, Remove, SetActive, CheckActive,
       GetTokenToCancelTimer, CancelTimer, MakeCandidate, ApplyCandidate,
       CancelCandidate, GetTokenToSetTimer, SetTimer
  <1>2. HandlersServe'
    BY DEF ServerInv, TypeOK, HandlersServe, HandlerStep, Register, Check, Remove, SetActive, CheckActive,
       GetTokenToCancelTimer, CancelTimer, MakeCandidate, ApplyCandidate,
       CancelCandidate, GetTokenToSetTimer, SetTimer
  <1>3. (CheckerOnToken /\ ListsDisjoint)'
    BY HandlerTimers DEF ServerInv, CheckerOnToken, ListsDisjoint
  <1>4. (UnfiredTimersExist /\ ReapedTimersAreCancelled)'
    BY HandlerTimers DEF ServerInv, TypeOK, SessionTypeOK, CheckerOnToken,
       UnfiredTimersExist, ReapedTimersAreCancelled, Unfired
  <1> QED
    BY <1>1, <1>2, <1>3, <1>4 DEF ServerInv

\* A step of the checker thread preserves the inductive invariant.
LEMMA CheckerInv ==
  ASSUME ServerInv, Checker
  PROVE  ServerInv'
  <1> USE NoTokenAssumption, TimeoutAssumption
  <1>0. 0 \in 0 .. SessionTimeout + 1 /\ 0 \in 0 .. ConfirmTimeout + 1
    OBVIOUS
  <1> USE <1>0 DEF ServerInv, TypeOK, SessionTypeOK, HandlersServe,
          CheckerOnToken, ListsDisjoint, UnfiredTimersExist,
          ReapedTimersAreCancelled, Unfired, Firing, CheckerStates, TimerStates
  <1>1. ASSUME CollectSessions, UNCHANGED <<handlerVars, candidate>>
        PROVE  ServerInv'
    BY <1>1 DEF CollectSessions, SessionExpired, TimerOverdue
  <1>2. ASSUME NEW t \in Tokens, ExpireSession(t), UNCHANGED <<handlerVars, candidate>>
        PROVE  ServerInv'
    BY <1>2 DEF ExpireSession
  <1>3. ASSUME ExpireCallbackRemove, UNCHANGED <<handlerVars, candidate>>
        PROVE  ServerInv'
    BY <1>3 DEF ExpireCallbackRemove
  <1>4. ASSUME EraseLease, UNCHANGED <<handlerVars, candidate>>
        PROVE  ServerInv'
    BY <1>4 DEF EraseLease
  <1>5. ASSUME CollectTimers, UNCHANGED <<handlerVars, candidate>>
        PROVE  ServerInv'
    BY <1>5 DEF CollectTimers
  <1>6. ASSUME NEW t \in Tokens, ReapTimer(t), UNCHANGED <<handlerVars, candidate>>
        PROVE  ServerInv'
    BY <1>6 DEF ReapTimer
  <1>7. ASSUME NEW t \in Tokens, FireTimer(t), UNCHANGED <<handlerVars, candidate>>
        PROVE  ServerInv'
    BY <1>7 DEF FireTimer
  <1>8. ASSUME CallbackHasActive, UNCHANGED <<handlerVars, candidate>>
        PROVE  ServerInv'
    BY <1>8 DEF CallbackHasActive
  <1>9. ASSUME CallbackCompareActive, UNCHANGED <<handlerVars, candidate>>
        PROVE  ServerInv'
    BY <1>9 DEF CallbackCompareActive
  <1>10. ASSUME CallbackResetActive, UNCHANGED <<handlerVars, candidate>>
        PROVE  ServerInv'
    BY <1>10 DEF CallbackResetActive
  <1>11. ASSUME EraseFiredTimer, UNCHANGED <<handlerVars, candidate>>
        PROVE  ServerInv'
    BY <1>11 DEF EraseFiredTimer
  <1>12. ASSUME Sleep, UNCHANGED <<handlerVars, candidate>>
        PROVE  ServerInv'
    BY <1>12 DEF Sleep
  <1>13. ASSUME NEW o \in CandidateOutcomes, CallbackCancel(o)
        PROVE  ServerInv'
    BY <1>13 DEF CallbackCancel
  <1> QED
    BY <1>1, <1>2, <1>3, <1>4, <1>5, <1>6, <1>7, <1>8, <1>9, <1>10, <1>11, <1>12, <1>13 DEF Checker, CheckerStep

\* Time, the arrival of a request and a restart preserve it as well.
LEMMA EnvironmentInv ==
  ASSUME ServerInv
  PROVE  /\ Tick /\ UNCHANGED <<handlerVars, candidate>> => ServerInv'
         /\ \A h \in Handlers, r \in Requests, t \in Tokens :
               Arrive(h, r, t) => ServerInv'
         /\ Restart => ServerInv'
  <1> USE NoTokenAssumption, TimeoutAssumption, RequestsAssumption
  <1>1. ASSUME Tick, UNCHANGED <<handlerVars, candidate>>
        PROVE  ServerInv'
    <2> USE <1>1 DEF Tick, Older
    <2>1. TypeOK'
      BY DEF ServerInv, TypeOK, SessionTypeOK
    <2>2. (HandlersServe /\ CheckerOnToken /\ ListsDisjoint)'
      BY DEF ServerInv, HandlersServe, CheckerOnToken, ListsDisjoint
    <2>3. (UnfiredTimersExist /\ ReapedTimersAreCancelled)'
      BY DEF ServerInv, TypeOK, SessionTypeOK, CheckerOnToken,
         UnfiredTimersExist, ReapedTimersAreCancelled, Unfired
    <2> QED
      BY <2>1, <2>2, <2>3 DEF ServerInv
  <1>2. ASSUME NEW h \in Handlers, NEW r \in Requests, NEW t \in Tokens,
               Arrive(h, r, t)
        PROVE  ServerInv'
    BY <1>2 DEF Arrive, FirstStep, ServerInv, TypeOK, SessionTypeOK, HandlersServe,
       CheckerOnToken, ListsDisjoint, UnfiredTimersExist,
       ReapedTimersAreCancelled, Unfired, HandlerStates, AllRequests
  <1>3. ASSUME Restart
        PROVE  ServerInv'
    <2> USE <1>3 DEF Restart, Init, SessionInit
    <2>1. 0 \in 0 .. SessionTimeout + 1 /\ 0 \in 0 .. ConfirmTimeout + 1
      OBVIOUS
    <2>2. TypeOK'
      BY <2>1 DEF TypeOK, SessionTypeOK, TimerStates, CheckerStates,
         HandlerStates, AllRequests
    <2>3. (HandlersServe /\ CheckerOnToken /\ ListsDisjoint)'
      BY DEF HandlersServe, CheckerOnToken, ListsDisjoint, Firing
    <2>4. (UnfiredTimersExist /\ ReapedTimersAreCancelled)'
      BY DEF UnfiredTimersExist, ReapedTimersAreCancelled, Unfired
    <2> QED
      BY <2>2, <2>3, <2>4 DEF ServerInv
  <1> QED
    BY <1>1, <1>2, <1>3
-----------------------------------------------------------------------------

\* Whatever the clients request and however the threads interleave, the server
\* stays within the inductive invariant.
THEOREM ServerSafety == Spec => []ServerInv
  <1>1. Init => ServerInv
    BY InitInv
  <1>2. ServerInv /\ [Next]_vars => ServerInv'
    <2> SUFFICES ASSUME ServerInv, [Next]_vars PROVE ServerInv'
      OBVIOUS
    <2>1. CASE UNCHANGED vars
      BY <2>1 DEF ServerInv, TypeOK, SessionTypeOK, HandlersServe, CheckerOnToken,
         ListsDisjoint, UnfiredTimersExist,
         ReapedTimersAreCancelled, Unfired
    <2>2. CASE Next
      BY <2>2, HandlerInv, CheckerInv, EnvironmentInv DEF Next
    <2> QED
      BY <2>1, <2>2
  <1> QED
    BY <1>1, <1>2, PTL DEF Spec

\* The types of all variables, for all constants.
THEOREM TypeCorrect == Spec => []TypeOK
  <1>1. ServerInv => TypeOK
    BY DEF ServerInv
  <1> QED
    BY <1>1, ServerSafety, PTL

\* The entry that session_management.cpp:71 looks up and uses unchecked is
\* always there.
THEOREM FindNeverFails == Spec => []UnfiredTimersExist
  <1>1. ServerInv => UnfiredTimersExist
    BY DEF ServerInv
  <1> QED
    BY <1>1, ServerSafety, PTL

\* A running timer is never dropped as a stopped one (session_management.cpp:66).
THEOREM RunningTimersStay == Spec => []ReapedTimersAreCancelled
  <1>1. ServerInv => ReapedTimersAreCancelled
    BY DEF ServerInv
  <1> QED
    BY <1>1, ServerSafety, PTL

=============================================================================
