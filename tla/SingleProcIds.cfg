CONSTANTS
    MaxUsers = 4
    Names = {}
    Values = {}
    Peers = {}
    Jumps = {1}
    PIPE_NUMBER = 0
    MaxSymbols = 0
    MaxFiles = 0
    MaxAborts = 0
    ForkMayFail = TRUE
    Default = Default
SPECIFICATION Spec
INVARIANTS
    IdsUnique
CHECK_DEADLOCK FALSE
