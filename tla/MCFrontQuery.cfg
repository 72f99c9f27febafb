SPECIFICATION Spec
CONSTANTS
    Request = {r1, r2}
    Sec = 2
    TokLife = {3}
    TokDbExpIn = 3
    FsessExpIn = 1
    Lag = 1
    Fault = {}
    Start = 10
    MaxNow = 12
    None = None
SYMMETRY Symmetry
INVARIANT AnyFormReaches
\* Time and requests run out.
CHECK_DEADLOCK FALSE
