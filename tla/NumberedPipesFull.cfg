CONSTANTS
    PIPE_NUMBER = 4
    Jumps = {1, 2}
    MaxSymbols = 1
    MaxOut = 1
    Cap = 4
    MaxFiles = 1
    MaxForkFails = 1
    None = None
SPECIFICATION Spec
INVARIANTS
    TypeOK
    TableTracksEnds
    NeverClosesStdin
    HoldsOnlyLaterInputs
    NothingLost
    NeverKilled
PROPERTIES
    ShellReturns
    CommandsEnd
    ImplementsPipeNet
CHECK_DEADLOCK FALSE
