--------------------------- MODULE SessionManager ---------------------------
(***************************************************************************)
(* The state of class SessionManager (session_management.hpp) and its      *)
(* operations, one operator per critical section: everything the code does *)
(* under one acquisition of _session_token_mutex or                        *)
(* _session_token_timers_mutex is one step, and what it does in two        *)
(* acquisitions is two steps.  The thread that expires sessions and timers *)
(* (the lambda in the constructor) is the "checker" below; the part of it  *)
(* that runs the timer callback is in module Server, where the callback is *)
(* defined.                                                                *)
(*                                                                         *)
(* Time is kept as ages in abstract ticks: idle[t] is now - LastRequestAt  *)
(* of t's lease and age[t] is now - StartAt of t's timer.  Ages stop       *)
(* growing one tick past their timeout, where every comparison the code    *)
(* makes has its final value; a token without an entry has age 0.  StartAt *)
(* is read just before the timers mutex is taken; the model starts the age *)
(* when the entry is made, so waiting for the mutex is not counted.        *)
(*                                                                         *)
(* Operators marked "Mutation:" are variants with a bug, which the         *)
(* properties must tell from the definition they precede.                  *)
(***************************************************************************)
EXTENDS Naturals

CONSTANTS
    Tokens,          \* session tokens that clients use
    NoToken,         \* std::nullopt in _active_session_token
    SessionTimeout,  \* _session_timeout_sec (360s), in ticks
    ConfirmTimeout   \* timeout_sec of the confirm timer (180s), in ticks

ASSUME NoTokenAssumption == NoToken \notin Tokens
ASSUME TimeoutAssumption == SessionTimeout \in Nat /\ ConfirmTimeout \in Nat

VARIABLES
    leased,      \* keys of _leased_session_tokens
    idle,        \* age of LastRequestAt, per token
    active,      \* _active_session_token
    timer,       \* _session_token_timers: "none", "armed" or "quit" (QuitFlag)
    age,         \* age of StartAt, per token
    timersHeld,  \* TRUE while the checker holds _session_token_timers_mutex
    cpc,         \* where the checker thread is
    todo,        \* the list the checker is iterating over (expired or stopped)
    due,         \* timers found overdue: the checker's second expired list
    cur          \* the list element the checker is working on

sessionVars == <<leased, idle, active>>
timerVars   == <<timer, age>>
checkerVars == <<cpc, todo, due, cur, timersHeld>>

TimerStates   == {"none", "armed", "quit"}
CheckerStates == {"collect", "expire", "cbRemove", "erase", "reap",
                  "cbCancel", "cbHasActive", "cbCompareActive",
                  "cbResetActive", "unlock"}

SessionTypeOK ==
    /\ leased \subseteq Tokens
    /\ idle \in [Tokens -> 0 .. SessionTimeout + 1]
    /\ active \in Tokens \cup {NoToken}
    /\ timer \in [Tokens -> TimerStates]
    /\ age \in [Tokens -> 0 .. ConfirmTimeout + 1]
    /\ timersHeld \in BOOLEAN
    /\ cpc \in CheckerStates
    /\ todo \subseteq Tokens
    /\ due \subseteq Tokens
    /\ cur \in Tokens \cup {NoToken}

SessionInit ==
    /\ leased = {}
    /\ idle = [t \in Tokens |-> 0]
    /\ active = NoToken
    /\ timer = [t \in Tokens |-> "none"]
    /\ age = [t \in Tokens |-> 0]
    /\ timersHeld = FALSE
    /\ cpc = "collect"
    /\ todo = {}
    /\ due = {}
    /\ cur = NoToken

-----------------------------------------------------------------------------
(***************************************************************************)
(* Critical sections of the public operations.                             *)
(***************************************************************************)

\* The lease map entry of t is created or its LastRequestAt is set to now.
Refresh(t) == idle' = [idle EXCEPT ![t] = 0]

\* _leased_session_tokens.erase(t)
EraseLeaseOf(t) ==
    /\ leased' = leased \ {t}
    /\ idle' = [idle EXCEPT ![t] = 0]

\* _session_token_timers.erase(t)
EraseTimerOf(t) ==
    /\ timer' = [timer EXCEPT ![t] = "none"]
    /\ age' = [age EXCEPT ![t] = 0]

\* An existing token is refused with 409 and left as it is.
RegisterSessionToken(t) ==
    \/ /\ t \notin leased
       /\ leased' = leased \cup {t}
       /\ Refresh(t)
       /\ UNCHANGED active
    \/ /\ t \in leased
       /\ UNCHANGED sessionVars

\* A known token has its LastRequestAt refreshed; an unknown one gets 498.
CheckSessionToken(t) ==
    /\ IF t \in leased THEN Refresh(t) ELSE UNCHANGED idle
    /\ UNCHANGED <<leased, active>>

\* Second section of SetActiveSessionToken, after CheckSessionToken returned
\* TRUE.  The lease is not looked at again.
MaySetActive(t) == active \in {NoToken, t}

SetActiveSessionToken(t) ==
    /\ active' = IF MaySetActive(t) THEN t ELSE active
    /\ UNCHANGED <<leased, idle>>

\* What CheckActiveSessionToken answers.  It does not refresh LastRequestAt.
CheckActiveSessionToken(t) == t \in leased /\ active = t

\* Mutation: the active session keeps its right to edit.
RemoveKeepsActive(t) == EraseLeaseOf(t) /\ UNCHANGED active

\* Second section of RemoveSessionToken, after CheckSessionToken.
RemoveSessionToken(t) ==
    /\ EraseLeaseOf(t)
    /\ active' = IF active = t THEN NoToken ELSE active

\* Mutation: a cancelled timer is erased at once instead of flagged.
CancelErasesTimer(t) == ~timersHeld /\ EraseTimerOf(t)

\* The section of CancelSessionTokenTimerOnce under the timers mutex.
CancelSessionTokenTimerOnce(t) ==
    /\ ~timersHeld
    /\ timer' = [timer EXCEPT ![t] = IF @ = "none" THEN "none" ELSE "quit"]
    /\ UNCHANGED age

\* Mutation: insert_or_assign instead of emplace.
SetReplacesTimer(t) ==
    /\ ~timersHeld
    /\ \/ /\ timer[t] # "armed"
          /\ timer' = [timer EXCEPT ![t] = "armed"]
          /\ age' = [age EXCEPT ![t] = 0]
       \/ /\ timer[t] = "armed"
          /\ UNCHANGED timerVars

\* The section of SetSessionTokenTimerOnce under the timers mutex.  emplace
\* inserts only when the key is absent: an armed timer makes the call fail and
\* a cancelled one that the checker has not yet erased swallows it.
SetSessionTokenTimerOnce(t) ==
    /\ ~timersHeld
    /\ \/ /\ timer[t] = "none"
          /\ timer' = [timer EXCEPT ![t] = "armed"]
          /\ age' = [age EXCEPT ![t] = 0]
       \/ /\ timer[t] # "none"
          /\ UNCHANGED timerVars

-----------------------------------------------------------------------------
(***************************************************************************)
(* The checker thread.                                                     *)
(***************************************************************************)

SessionExpired(t) == t \in leased /\ idle[t] > SessionTimeout
TimerOverdue(t)   == timer[t] = "armed" /\ age[t] > ConfirmTimeout

\* now is read once per round, so which timers are overdue is settled here: a
\* timer started later has StartAt > now.
CollectSessions ==
    /\ cpc = "collect"
    /\ todo' = {t \in Tokens : SessionExpired(t)}
    /\ due' = {t \in Tokens : TimerOverdue(t)}
    /\ cpc' = "expire"
    /\ UNCHANGED <<sessionVars, timerVars, cur, timersHeld>>

\* Mutation: the callback returns after the check that refreshes the lease.
ExpireOnlyChecks(t) ==
    /\ cpc = "expire"
    /\ t \in todo
    /\ todo' = todo \ {t}
    /\ CheckSessionToken(t)
    /\ UNCHANGED <<timerVars, due, cur, timersHeld, cpc>>

\* The registered timeout callback is Server's RemoveSessionToken(token): its
\* first section is CheckSessionToken, and its second runs only if that found
\* the lease.
ExpireSession(t) ==
    /\ cpc = "expire"
    /\ t \in todo
    /\ todo' = todo \ {t}
    /\ cur' = t
    /\ CheckSessionToken(t)
    /\ cpc' = IF t \in leased THEN "cbRemove" ELSE "erase"
    /\ UNCHANGED <<timerVars, due, timersHeld>>

ExpireCallbackRemove ==
    /\ cpc = "cbRemove"
    /\ RemoveSessionToken(cur)
    /\ cpc' = "erase"
    /\ UNCHANGED <<timerVars, todo, due, cur, timersHeld>>

\* After the callbacks the lease is erased once more, in a section of its own.
EraseLease ==
    /\ cpc = "erase"
    /\ EraseLeaseOf(cur)
    /\ cpc' = "expire"
    /\ cur' = NoToken
    /\ UNCHANGED <<active, timerVars, todo, due, timersHeld>>

\* Mutation: the "continue" after a cancelled timer is missing.
CollectTimersTwice ==
    /\ cpc = "expire"
    /\ todo = {}
    /\ todo' = {t \in Tokens : timer[t] = "quit"}
    /\ cpc' = "reap"
    /\ UNCHANGED <<sessionVars, timerVars, cur, due, timersHeld>>

\* Once every expired session is removed: cancelled timers go to
\* stopped_timers, overdue ones to the expired list.
CollectTimers ==
    /\ cpc = "expire"
    /\ todo = {}
    /\ todo' = {t \in Tokens : timer[t] = "quit"}
    /\ due' = {t \in due : timer[t] = "armed"}
    /\ cpc' = "reap"
    /\ UNCHANGED <<sessionVars, timerVars, cur, timersHeld>>

\* Mutation: a stopped timer is not erased.
ReapForgets(t) ==
    /\ cpc = "reap"
    /\ t \in todo
    /\ todo' = todo \ {t}
    /\ UNCHANGED <<sessionVars, timerVars, cpc, due, cur, timersHeld>>

ReapTimer(t) ==
    /\ cpc = "reap"
    /\ t \in todo
    /\ todo' = todo \ {t}
    /\ EraseTimerOf(t)
    /\ UNCHANGED <<sessionVars, cpc, due, cur, timersHeld>>

\* Once every stopped timer is erased: takes the timers mutex and finds the
\* entry of an expired one, using find's result without a test against end().
FireTimer(t) ==
    /\ cpc = "reap"
    /\ todo = {}
    /\ t \in due
    /\ due' = due \ {t}
    /\ cur' = t
    /\ timersHeld' = TRUE
    /\ cpc' = "cbCancel"
    /\ UNCHANGED <<sessionVars, timerVars, todo>>

\* RemoveActiveSessionToken takes no mutex: has_value(), the comparison with
\* value() and the reset are three steps other threads can come between.
CallbackHasActive ==
    /\ cpc = "cbHasActive"
    /\ cpc' = IF active # NoToken THEN "cbCompareActive" ELSE "unlock"
    /\ UNCHANGED <<sessionVars, timerVars, todo, due, cur, timersHeld>>

\* value() of an optional emptied since has_value() throws, and an exception
\* that leaves the thread's function is std::terminate.
CompareActiveThrows == cpc = "cbCompareActive" /\ active = NoToken

CallbackCompareActive ==
    /\ cpc = "cbCompareActive"
    /\ active # NoToken
    /\ cpc' = IF active = cur THEN "cbResetActive" ELSE "unlock"
    /\ UNCHANGED <<sessionVars, timerVars, todo, due, cur, timersHeld>>

\* Mutation: the active token becomes the empty string instead of NullOpt.
ResetToEmptyString ==
    /\ cpc = "cbResetActive"
    /\ active' = ""
    /\ cpc' = "unlock"
    /\ UNCHANGED <<leased, idle, timerVars, todo, due, cur, timersHeld>>

CallbackResetActive ==
    /\ cpc = "cbResetActive"
    /\ active' = NoToken
    /\ cpc' = "unlock"
    /\ UNCHANGED <<leased, idle, timerVars, todo, due, cur, timersHeld>>

\* Mutation: the mutex is not released.
EraseKeepsMutex ==
    /\ cpc = "unlock"
    /\ EraseTimerOf(cur)
    /\ cur' = NoToken
    /\ cpc' = "reap"
    /\ UNCHANGED <<sessionVars, todo, due, timersHeld>>

\* The entry is erased and the mutex released.
EraseFiredTimer ==
    /\ cpc = "unlock"
    /\ EraseTimerOf(cur)
    /\ timersHeld' = FALSE
    /\ cur' = NoToken
    /\ cpc' = "reap"
    /\ UNCHANGED <<sessionVars, todo, due>>

\* The end of a round: the ten-second sleep.
Sleep ==
    /\ cpc = "reap"
    /\ todo = {}
    /\ due = {}
    /\ cpc' = "collect"
    /\ UNCHANGED <<sessionVars, timerVars, todo, due, cur, timersHeld>>

\* Every step of the checker but the timer callback's cancellation of the
\* candidate config, which is Server's.
CheckerStep ==
    \/ CollectSessions
    \/ \E t \in Tokens : ExpireSession(t)
    \/ ExpireCallbackRemove
    \/ EraseLease
    \/ CollectTimers
    \/ \E t \in Tokens : ReapTimer(t)
    \/ \E t \in Tokens : FireTimer(t)
    \/ CallbackHasActive
    \/ CallbackCompareActive
    \/ CallbackResetActive
    \/ EraseFiredTimer
    \/ Sleep

\* system_clock advances by one tick.
Older(a, limit) == IF a > limit THEN a ELSE a + 1

Tick ==
    /\ idle' = [t \in Tokens |->
                   IF t \in leased THEN Older(idle[t], SessionTimeout) ELSE 0]
    /\ age' = [t \in Tokens |->
                   IF timer[t] # "none" THEN Older(age[t], ConfirmTimeout) ELSE 0]
    /\ UNCHANGED <<leased, active, timer, checkerVars>>

=============================================================================
