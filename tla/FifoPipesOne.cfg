CONSTANTS
    MAX_CLIENTS = 2
    Lines <- MCLines
    MaxKids = 2
    MaxLogins = 2
    MaxPos = 3
    Leavers = {}
    None = None
SPECIFICATION Spec
INVARIANTS
    OnePipe
CHECK_DEADLOCK FALSE
