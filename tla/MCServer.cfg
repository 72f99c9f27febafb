SPECIFICATION FairSpec
CONSTANTS
    Text <- SomeText
    Plain = Plain
    Malformed = Malformed
    Missing = Missing
    Unreadable = Unreadable
    Req = {r1, r2}
    Path <- SomePaths
    Args <- SomeArgs
    Files <- SomeFiles
INVARIANTS
    TypeOK
    ServedOut
    ExitsClean
PROPERTIES
    CommandLineWins
    ShutsDown
\* The process exits.
CHECK_DEADLOCK FALSE
