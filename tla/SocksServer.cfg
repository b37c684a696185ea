SPECIFICATION Spec
CONSTANTS
    Browsers = {b1, b2}
    Hosts <- MCHosts
    RuleFiles <- MCRuleFiles
    Star = Star
    Cap = 1
    Talkers = {b1}
    MaxForkFails = 1
INVARIANTS TypeOK RelaysPermitted NoZombieForgotten GrantedBeforeData
 
CHECK_DEADLOCK FALSE
