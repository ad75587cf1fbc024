CONSTANTS
    TokenIds = {t1, t2, t3}
    Requests = {q1, q2}
    MaxPassword = 1
    MaxFailedAttempts = 1
    MayFail = TRUE
    Standings <- GoodOrInactive
    Null = Null
SPECIFICATION Spec
SYMMETRY Symmetry
INVARIANTS
    TypeOK
    OneTokenPerSession
    NoTokenLeftBehind
    OneSession
    SessionsOfThePassword
PROPERTIES
    RevokedForGood
    ReuseEndsSession
    ChainRefined
CHECK_DEADLOCK FALSE
