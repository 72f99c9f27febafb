SPECIFICATION Spec
CONSTANTS
    Auth = {a1, a2}
    Callback = {r1, r2}
    Code = {c1, c2}
    Idp = {i1, i2}
    Browser = {b1}
    Ta = {ta1, ta2}
    Redi = {redi1, redi2}
    SelfId = ta1
    RediUri = redi1
    AuthUri <- SelectorUris
    Selector = Selector
    Synced = {i1}
    Durable = FALSE
    AtHash = TRUE
    Fault = {"iss", "crash"}
    None = None
    i1 = i1
    i2 = i2
    ta1 = ta1
    ta2 = ta2
    redi1 = redi1
    redi2 = redi2
SYMMETRY Symmetry
INVARIANTS
    RedeemedAsIssued
\* Users may stop sending requests.
CHECK_DEADLOCK FALSE
