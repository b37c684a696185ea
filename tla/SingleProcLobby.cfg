CONSTANTS
    MaxUsers = 4
    Names = {n1}
    Values = {}
    Peers = {}
    Jumps = {1}
    PIPE_NUMBER = 2
    MaxSymbols = 1
    MaxFiles = 0
    MaxAborts = 0
    ForkMayFail = FALSE
    Default = Default
SPECIFICATION Spec
INVARIANTS
    WatchedAreUsers
    NamesUnique
    IdsCompact
PROPERTIES
    FreshIdIfOrdered
    
CHECK_DEADLOCK FALSE
