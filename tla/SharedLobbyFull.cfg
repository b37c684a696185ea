SPECIFICATION Spec
CONSTANTS
    Connections = 4
    MAX_CLIENTS = 2
    Names = {n1}
    Default = Default
    MaxForkFails = 1
INVARIANTS TypeOK RecordForEveryone  NamesUniqueApart OwnSocket 
CHECK_DEADLOCK FALSE
