\* Parse, fill secrets, set a certificate and write back each setting, read and write back the routing rules, apply IPsec vpn settings repeatedly; route collection over every kernel table of the candidates, and outbound translation of up to two changed routes.
CONSTANTS
    None = None
    Err = Err
    Inputs <- MCInputs
    RuleInputs <- MCRuleInputs
    SecretInputs <- MCSecretInputs
    Paths <- MCPaths
    PASSWORD_HID_BY_NMSTATE = PASSWORD_HID_BY_NMSTATE
    MaxApplies = 3
    Confs <- MCConfs
    MaxFailures = 1
    MaxChanged = 2
    U32Max = 4095
    Candidates <- MCCandidates
SPECIFICATION BothSpec
INVARIANTS
    TypeOK
    RoundTrip
    WriteBackLossless
    CaCertPathRoundTrip
    VpnTypeOK
    PskIsLastGiven
    RouteTypeOK
    ViewAccounting
    MultipathRoundTrip
    CwndGating
    ConfTypeOK
    RejectNotClamp
