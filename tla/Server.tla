------------------------------- MODULE Server -------------------------------
(***************************************************************************)
(* The request handlers of ConnectionManagement::Server composed with the  *)
(* SessionManager and its checker thread.  Each handler runs on a thread   *)
(* of httplib's pool and is a sequence of steps, one per critical section  *)
(* of the SessionManager and one per call of the Config::Manager.          *)
(*                                                                         *)
(* Of the Config::Manager only what the sessions see is kept: whose        *)
(* changes the ready candidate holds, and how a call of it may end         *)
(* (returning true or false, throwing, or exiting the process).  Module    *)
(* ConfigManager models the calls themselves.                              *)
(***************************************************************************)
EXTENDS SessionManager

CONSTANTS
    Handlers,  \* threads of the HTTP server's pool
    Requests,  \* the kinds of request clients send
    Outcomes   \* how a call that changes the config may end

AllRequests == {"register", "unregister", "update", "apply", "cancel"}
AllOutcomes == {"true", "false", "throw", "exit"}

ASSUME RequestsAssumption == Requests \subseteq AllRequests
ASSUME OutcomesAssumption == Outcomes \subseteq AllOutcomes

VARIABLES
    pc,        \* where each handler is
    op,        \* the request it serves
    tok,       \* the token of its Authorization header (or body, to register)
    candidate  \* author of the ready candidate config, or NoToken

handlerVars == <<pc, op, tok>>
vars == <<sessionVars, timerVars, checkerVars, handlerVars, candidate>>

HandlerStates == {"idle", "register", "check", "remove", "setActive",
                  "checkActive", "getQuit", "flagQuit", "process",
                  "getTimer", "setTimer"}

\* Every variable stays in its type.
TypeOK ==
    /\ SessionTypeOK
    /\ pc \in [Handlers -> HandlerStates]
    /\ op \in [Handlers -> AllRequests \cup {"none"}]
    /\ tok \in [Handlers -> Tokens \cup {NoToken}]
    /\ candidate \in Tokens \cup {NoToken}

Init ==
    /\ SessionInit
    /\ pc = [h \in Handlers |-> "idle"]
    /\ op = [h \in Handlers |-> "none"]
    /\ tok = [h \in Handlers |-> NoToken]
    /\ candidate = NoToken

-----------------------------------------------------------------------------
(***************************************************************************)
(* Handlers, Server::Run.                                                  *)
(***************************************************************************)

\* A thread that returns from its handler is idle and serves no request.
Goto(h, from, to) ==
    /\ pc[h] = from
    /\ pc' = [pc EXCEPT ![h] = to]
    /\ op' = [op EXCEPT ![h] = IF to = "idle" THEN "none" ELSE @]
    /\ tok' = [tok EXCEPT ![h] = IF to = "idle" THEN NoToken ELSE @]

FirstStep(r) ==
    CASE r = "register"              -> "register"
      [] r \in {"unregister", "update"} -> "check"
      [] r \in {"apply", "cancel"}   -> "checkActive"

\* The router matches the method and the path and calls the handler.
Arrive(h, r, t) ==
    /\ pc[h] = "idle"
    /\ pc' = [pc EXCEPT ![h] = FirstStep(r)]
    /\ op' = [op EXCEPT ![h] = r]
    /\ tok' = [tok EXCEPT ![h] = t]
    /\ UNCHANGED <<sessionVars, timerVars, checkerVars, candidate>>

Register(h) ==
    /\ Goto(h, "register", "idle")
    /\ RegisterSessionToken(tok[h])
    /\ UNCHANGED <<timerVars, checkerVars, candidate>>

\* First section of RemoveSessionToken and of SetActiveSessionToken.
Check(h) ==
    /\ Goto(h, "check", IF tok[h] \notin leased THEN "idle"
                        ELSE IF op[h] = "unregister" THEN "remove"
                        ELSE "setActive")
    /\ CheckSessionToken(tok[h])
    /\ UNCHANGED <<timerVars, checkerVars, candidate>>

Remove(h) ==
    /\ Goto(h, "remove", "idle")
    /\ RemoveSessionToken(tok[h])
    /\ UNCHANGED <<timerVars, checkerVars, candidate>>

SetActive(h) ==
    /\ Goto(h, "setActive", IF MaySetActive(tok[h]) THEN "getQuit" ELSE "idle")
    /\ SetActiveSessionToken(tok[h])
    /\ UNCHANGED <<timerVars, checkerVars, candidate>>

CheckActive(h) ==
    /\ Goto(h, "checkActive",
            IF CheckActiveSessionToken(tok[h]) THEN "getQuit" ELSE "idle")
    /\ UNCHANGED <<sessionVars, timerVars, checkerVars, candidate>>

\* GetSessionToken at the head of CancelSessionTokenTimerOnce.
GetTokenToCancelTimer(h) ==
    /\ Goto(h, "getQuit", IF tok[h] \in leased THEN "flagQuit" ELSE "process")
    /\ UNCHANGED <<sessionVars, timerVars, checkerVars, candidate>>

CancelTimer(h) ==
    /\ Goto(h, "flagQuit", "process")
    /\ CancelSessionTokenTimerOnce(tok[h])
    /\ UNCHANGED <<sessionVars, checkerVars, candidate>>

\* How a call on the candidate may end.  Without one, applyCandidateConfig and
\* cancelCandidateConfig return false at once.
CandidateOutcomes == IF candidate = NoToken THEN {"false"} ELSE Outcomes

\* makeCandidateConfig: a ready candidate is replaced.  The timer is set again
\* whatever it returned; an exception leaves the handler before that.
MakeCandidate(h, o) ==
    /\ op[h] = "update"
    /\ o # "exit"
    /\ Goto(h, "process", IF o = "throw" THEN "idle" ELSE "getTimer")
    /\ candidate' = IF o = "true" THEN tok[h] ELSE candidate
    /\ UNCHANGED <<sessionVars, timerVars, checkerVars>>

\* applyCandidateConfig: false also when the file cannot be written.  The
\* active token is kept.
ApplyCandidate(h, o) ==
    /\ op[h] = "apply"
    /\ Goto(h, "process", "idle")
    /\ candidate' = IF o = "true" THEN NoToken ELSE candidate
    /\ UNCHANGED <<sessionVars, timerVars, checkerVars>>

\* cancelCandidateConfig on a client's request.
CancelCandidate(h, o) ==
    /\ op[h] = "cancel"
    /\ o # "exit"
    /\ Goto(h, "process", "idle")
    /\ candidate' = IF o = "true" THEN NoToken ELSE candidate
    /\ UNCHANGED <<sessionVars, timerVars, checkerVars>>

\* GetSessionToken at the head of SetSessionTokenTimerOnce.
GetTokenToSetTimer(h) ==
    /\ Goto(h, "getTimer", IF tok[h] \in leased THEN "setTimer" ELSE "idle")
    /\ UNCHANGED <<sessionVars, timerVars, checkerVars, candidate>>

SetTimer(h) ==
    /\ Goto(h, "setTimer", "idle")
    /\ SetSessionTokenTimerOnce(tok[h])
    /\ UNCHANGED <<sessionVars, checkerVars, candidate>>

-----------------------------------------------------------------------------
(***************************************************************************)
(* The timer callback, run by the checker with the timers mutex held.      *)
(***************************************************************************)

\* Mutation: the callback gives up the session but not its changes.
CallbackForgets(o) ==
    /\ cpc = "cbCancel"
    /\ o \in {"true", "false"}
    /\ cpc' = "cbHasActive"
    /\ UNCHANGED <<sessionVars, timerVars, todo, due, cur, timersHeld,
                   handlerVars, candidate>>

\* processRequest(DEL, candidate) cancels whatever candidate is ready.  Its
\* status is ignored.
CallbackCancel(o) ==
    /\ cpc = "cbCancel"
    /\ o \in {"true", "false"}
    /\ candidate' = IF o = "true" THEN NoToken ELSE candidate
    /\ cpc' = "cbHasActive"
    /\ UNCHANGED <<sessionVars, timerVars, todo, due, cur, timersHeld, handlerVars>>

\* What ends the process: exit(EXIT_FAILURE) when a request to the backend
\* fails during a rollback, and an exception in the checker thread.
MayExit ==
    \/ /\ "exit" \in Outcomes
       /\ \E h \in Handlers : pc[h] = "process" /\ op[h] = "update"
    \/ /\ "exit" \in CandidateOutcomes
       /\ \E h \in Handlers : pc[h] = "process" /\ op[h] = "cancel"
    \/ /\ {"throw", "exit"} \cap CandidateOutcomes # {}
       /\ cpc = "cbCancel"
    \/ CompareActiveThrows

\* The process is started again.  Sessions, timers and the candidate were only
\* in memory, so it starts as it did the first time.
Restart ==
    /\ MayExit
    /\ leased' = {}
    /\ idle' = [t \in Tokens |-> 0]
    /\ active' = NoToken
    /\ timer' = [t \in Tokens |-> "none"]
    /\ age' = [t \in Tokens |-> 0]
    /\ timersHeld' = FALSE
    /\ cpc' = "collect"
    /\ todo' = {}
    /\ due' = {}
    /\ cur' = NoToken
    /\ pc' = [h \in Handlers |-> "idle"]
    /\ op' = [h \in Handlers |-> "none"]
    /\ tok' = [h \in Handlers |-> NoToken]
    /\ candidate' = NoToken

HandlerStep(h) ==
    \/ Register(h)
    \/ Check(h)
    \/ Remove(h)
    \/ SetActive(h)
    \/ CheckActive(h)
    \/ GetTokenToCancelTimer(h)
    \/ CancelTimer(h)
    \/ \E o \in Outcomes : MakeCandidate(h, o)
    \/ \E o \in CandidateOutcomes \cap {"true", "false"} : ApplyCandidate(h, o)
    \/ \E o \in CandidateOutcomes : CancelCandidate(h, o)
    \/ GetTokenToSetTimer(h)
    \/ SetTimer(h)

Checker ==
    \/ CheckerStep /\ UNCHANGED <<handlerVars, candidate>>
    \/ \E o \in CandidateOutcomes : CallbackCancel(o)

Next ==
    \/ Tick /\ UNCHANGED <<handlerVars, candidate>>
    \/ Checker
    \/ \E h \in Handlers, r \in Requests, t \in Tokens : Arrive(h, r, t)
    \/ \E h \in Handlers : HandlerStep(h)
    \/ Restart

Spec == Init /\ [][Next]_vars

-----------------------------------------------------------------------------
(***************************************************************************)
(* Safety.                                                                 *)
(***************************************************************************)

\* The timers the checker has still to fire.
Unfired == due \cup (IF timersHeld THEN {cur} ELSE {})

\* session_management.cpp:71 dereferences the result of find() without testing
\* it: from the collection of the overdue timers to the firing of each one,
\* its entry stays in the map, whatever the handlers do to the timers.
UnfiredTimersExist == \A t \in Unfired : timer[t] # "none"

\* A timer the checker is about to erase as stopped is still a cancelled one:
\* the list collected under one lock is not stale when it is used under the
\* next (session_management.cpp:64), so no running timer is ever dropped.
ReapedTimersAreCancelled ==
    cpc = "reap" => \A t \in todo : timer[t] = "quit"

Firing == {"cbCancel", "cbHasActive", "cbCompareActive", "cbResetActive", "unlock"}

\* A thread that is serving a request knows its token.
HandlersServe == \A h \in Handlers : pc[h] # "idle" => tok[h] \in Tokens

\* The checker works on a token wherever it uses one, and holds the timers
\* mutex exactly while it fires a timer.
CheckerOnToken ==
    /\ cpc \in {"cbRemove", "erase"} \cup Firing => cur \in Tokens
    /\ timersHeld <=> cpc \in Firing
    /\ cpc = "collect" => due = {}

\* A timer is on one of the checker's lists only: to be reaped, to be fired, or
\* being fired.
ListsDisjoint ==
    /\ cpc = "reap" => todo \cap due = {}
    /\ cpc \in Firing => todo = {} /\ cur \notin due

\* The inductive invariant of the proofs.
ServerInv ==
    /\ TypeOK
    /\ HandlersServe
    /\ CheckerOnToken
    /\ ListsDisjoint
    /\ UnfiredTimersExist
    /\ ReapedTimersAreCancelled

-----------------------------------------------------------------------------
(***************************************************************************)
(* Liveness.  Time passes, the checker thread runs, and so do the handlers *)
(* of requests that have arrived; clients owe nothing.  A thread that      *)
(* waits for the timers mutex gets it if it is free again and again: the   *)
(* checker releases it for ten seconds in every round.                     *)
(***************************************************************************)

CheckerThread == Checker \/ (CompareActiveThrows /\ Restart)

Fairness ==
    /\ WF_vars(Tick /\ UNCHANGED <<handlerVars, candidate>>)
    /\ WF_vars(CheckerThread)
    /\ \A h \in Handlers :
          /\ WF_vars(HandlerStep(h))
          /\ SF_vars(CancelTimer(h))
          /\ SF_vars(SetTimer(h))

FairSpec == Spec /\ Fairness

\* A request by t is being served.
Requesting(t) == \E h \in Handlers : tok[h] = t

\* Every request is answered: no handler waits forever, whether for the timers
\* mutex (held while the timer callback cancels the candidate) or otherwise.
RequestsComplete == \A h \in Handlers : pc[h] # "idle" ~> pc[h] = "idle"

\* No timer stays in the map for ever: a cancelled one is erased and a running
\* one fires, also when requests keep cancelling and setting it.
TimersReaped == \A t \in Tokens : timer[t] # "none" ~> timer[t] = "none"

\* A lease whose client is silent ends, although the expiry itself refreshes
\* LastRequestAt through CheckSessionToken.
IdleSessionsExpire ==
    \A t \in Tokens : t \in leased ~> (t \notin leased \/ Requesting(t))

\* A silent session does not keep the others from editing: with its lease the
\* active token goes as well.  The token is given up together with the lease or
\* not at all, so the property exempts the session whose lease the checker is
\* ending (a client that registers and updates in that moment loses the lease
\* alone, session_management.cpp:44) and one that became active without a lease
\* (the lease was checked in an earlier section, :128).
EditingEnds ==
    \A t \in Tokens :
        (active = t /\ t \in leased /\ cur # t) ~> (active # t \/ Requesting(t))

\* Commit-confirmed: while the timer of the author of a candidate runs and has
\* not begun to fire, the candidate will be withdrawn unless the author sends
\* another request.
ArmedWithdraws ==
    \A t \in Tokens :
        (candidate = t /\ timer[t] = "armed" /\ cur # t)
            ~> (candidate # t \/ Requesting(t))

-----------------------------------------------------------------------------
(***************************************************************************)
(* What the documentation says and the code does not do.                   *)
(***************************************************************************)

\* session_management.hpp:18 "If client won't confirm its changes in 5 minutes
\* then his changes are withdrawing": ArmedWithdraws for every session that has
\* a timer, in whatever state the handlers left it.
UnconfirmedWithdrawn ==
    \A t \in Tokens :
        (candidate = t /\ t \in leased /\ timer[t] # "none" /\ cur # t /\ ~Requesting(t))
            ~> (candidate # t \/ Requesting(t))

=============================================================================
