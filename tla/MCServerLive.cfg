CONSTANTS
    Tokens = {t1}
    Handlers = {h1, h2}
    NoToken = NoToken
    SessionTimeout = 1
    ConfirmTimeout = 0
    Requests = {"register", "unregister", "update", "cancel"}
    Outcomes = {"true", "exit"}
SPECIFICATION FairSpec
PROPERTIES
    RequestsComplete
    TimersReaped
    IdleSessionsExpire
    EditingEnds
    ArmedWithdraws
