------------------------- MODULE MCServerWithdrawal --------------------------
(***************************************************************************)
(* Server with a history variable, the age of the ready candidate, for the *)
(* question whether clients get their time to confirm.  No step of the     *)
(* server depends on it.                                                   *)
(***************************************************************************)
EXTENDS Server

VARIABLE candidateAge  \* ticks since the ready candidate was made, as age is kept

historyVars == <<vars, candidateAge>>

Made   == \E h \in Handlers : MakeCandidate(h, "true")
Passed == Tick /\ UNCHANGED <<handlerVars, candidate>>

HistoryInit == Init /\ candidateAge = 0

HistoryNext ==
    /\ Next
    /\ candidateAge' = CASE candidate' = NoToken \/ Made -> 0
                         [] Passed -> Older(candidateAge, ConfirmTimeout)
                         [] OTHER  -> candidateAge

HistorySpec == HistoryInit /\ [][HistoryNext]_historyVars

\* session_management.hpp:18 "If client won't confirm its changes in 5 minutes
\* then his changes are withdrawing": the timer callback withdraws the changes
\* of an update that was answered only once the client has had its
\* ConfirmTimeout for them.
WithdrawnInTime ==
    [][ \A o \in Outcomes :
            CallbackCancel(o) /\ candidate' # candidate /\ ~Requesting(candidate)
                => candidateAge > ConfirmTimeout ]_historyVars

=============================================================================
