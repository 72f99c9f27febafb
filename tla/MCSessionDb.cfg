SPECIFICATION Spec
CONSTANTS
    Id = {s1, s2}
    Client = {h1, h2}
    Idp = {i1}
    Keep = 2
    MaxNow = 4
    MaxStamp = 4
    None = None
SYMMETRY Symmetry
INVARIANTS
    TypeOK
    KeysAgree
PROPERTIES
    KeepsPromise
    OnlyNewer
\* The bounds on time and dates end the run.
CHECK_DEADLOCK FALSE
