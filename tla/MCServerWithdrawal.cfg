CONSTANTS
    Tokens = {t1}
    Handlers = {h1}
    NoToken = NoToken
    SessionTimeout = 1
    ConfirmTimeout = 0
    Requests = {"register", "update"}
    Outcomes = {"true"}
SPECIFICATION HistorySpec
PROPERTIES
    WithdrawnInTime
