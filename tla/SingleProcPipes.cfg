CONSTANTS
    MaxUsers = 2
    Names = {}
    Values = {v1}
    Peers = {1, 2}
    Jumps = {1}
    PIPE_NUMBER = 3
    MaxSymbols = 2
    MaxFiles = 1
    MaxAborts = 0
    ForkMayFail = TRUE
    Default = Default
SPECIFICATION Spec
INVARIANTS
    TypeOK
    RecordedOpen
    TubesUnique
CHECK_DEADLOCK FALSE
