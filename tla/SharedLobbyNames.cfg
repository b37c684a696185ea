SPECIFICATION Spec
CONSTANTS
    Connections = 2
    MAX_CLIENTS = 2
    Names = {n1}
    Default = Default
    MaxForkFails = 0
INVARIANT NamesUnique
CHECK_DEADLOCK FALSE
