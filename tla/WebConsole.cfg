CONSTANTS
    b1 = b1
    b2 = b2
    b3 = b3
    Browsers = {b1, b2, b3}
    env_names <- MCVars
    Fields <- MCFields
    MaxForkFails = 1
    None = None
    SERVER_SIZE = 2
    Command <- MCCommand
    Output <- MCOutput
    NoFile = NoFile
    Consoles = {b1, b2}
    Query <- MCQuery
SPECIFICATION Spec
INVARIANTS
    TypeOK
    OneRequest
    
PROPERTIES
    Answered
CHECK_DEADLOCK FALSE
