SPECIFICATION FairSpec
CONSTANTS
    Call = {r1, r2}
    Code = {c1, c2, c3, c4, c5, c6, c7}
    Idp = {i1, i2}
    Tag = {g1, g2, g3, g4}
    Ta = {a1, a2}
    Hash = {h1, h2}
    Token <- Referral
    FrTa <- OneTa
    MaxTokens = 3
    Synced = {}
    Astray = {}
    Durable = TRUE
    Fault = {}
    None = None
    i1 = i1
    i2 = i2
    c1 = c1
    c2 = c2
    c3 = c3
    c4 = c4
    c5 = c5
    c6 = c6
    c7 = c7
    g1 = g1
    g2 = g2
    g3 = g3
    g4 = g4
    a1 = a1
    a2 = a2
    h1 = h1
    h2 = h2
INVARIANTS
    AnsweredInFull
PROPERTIES
    ServedInTheEnd
\* Senders may stop sending requests.
CHECK_DEADLOCK FALSE
