CONSTANTS
    Tokens = {t1, t2}
    Handlers = {h1, h2}
    NoToken = NoToken
    SessionTimeout = 1
    ConfirmTimeout = 0
    Requests = {"register", "update", "apply"}
    Outcomes = {"true", "exit"}
SYMMETRY Symmetric
SPECIFICATION Spec
INVARIANTS
    TypeOK
    UnfiredTimersExist
    ReapedTimersAreCancelled
    ServerInv
