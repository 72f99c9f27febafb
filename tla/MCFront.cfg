SPECIFICATION Spec
CONSTANTS
    Request = {r1, r2}
    Sec = 2
    TokLife = {0, 3, 4}
    TokDbExpIn = 3
    FsessExpIn = 1
    Lag = 1
    Fault = {"redis", "backend", "crash"}
    Start = 10
    MaxNow = 15
    None = None
SYMMETRY Symmetry
INVARIANTS
    TypeOK
    ShownAsAnswered
    GoodTagResolves
    SessionEndsWithToken
    CookieNamesSession
\* Time and requests run out.
CHECK_DEADLOCK FALSE
