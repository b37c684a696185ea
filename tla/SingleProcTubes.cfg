CONSTANTS
    MaxUsers = 2
    Names = {}
    Values = {}
    Peers = {1, 2}
    Jumps = {}
    PIPE_NUMBER = 1
    MaxSymbols = 2
    MaxFiles = 1
    MaxAborts = 0
    ForkMayFail = FALSE
    Default = Default
SPECIFICATION Spec
INVARIANTS
    TubesOfUsers
CHECK_DEADLOCK FALSE
