\* Route collection over every kernel table with a route of an address family that is neither IPv4 nor IPv6.
CONSTANTS
    None = None
    Err = Err
    Inputs <- MCInputs
    RuleInputs <- MCRuleInputs
    SecretInputs <- MCSecretInputs
    Paths <- MCPaths
    PASSWORD_HID_BY_NMSTATE = PASSWORD_HID_BY_NMSTATE
    MaxApplies = 3
    Confs <- MCConfs
    MaxFailures = 0
    MaxChanged = 0
    U32Max = 4095
    Candidates <- MCCandidatesOtherFamily
SPECIFICATION BothSpec
INVARIANTS
    ViewAccounting
