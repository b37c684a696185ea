CONSTANTS
    MAX_CLIENTS = 2
    Lines <- MCLines
    MaxKids = 2
    MaxLogins = 3
    MaxPos = 3
    Leavers = {1, 2}
    None = None
SPECIFICATION Spec
INVARIANTS
    TypeOK
    FlagIsPipe
    OneSender
CHECK_DEADLOCK FALSE
PROPERTIES
    ReadersOpen
    
