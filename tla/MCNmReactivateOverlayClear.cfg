\* Chains of overlays in which an overlay may explicitly clear the ipv4 block (ipv4 touched, value None).
CONSTANTS
    None = None
    Inactive = Inactive
    StaleSaved = FALSE
    Profiles <- MCProfiles
    Kind <- MCKind
    Ctrl <- MCCtrl
    CtrlType <- MCCtrlType
    Base <- MCBase
    Options <- MCOptions
    ActiveSets <- MCActiveSets
    Extra <- MCExtra
    Versions <- MCVersions
    Bases <- MCBases
    Overlays <- MCOverlays
    MaxChain = 2
SPECIFICATION AllSpec
INVARIANTS
    TouchedValuesWin
