\* Same host, but an active profile may have been edited (saved) since it was applied.
CONSTANTS
    None = None
    Inactive = Inactive
    StaleSaved = TRUE
    Profiles <- MCProfiles
    Kind <- MCKind
    Ctrl <- MCCtrl
    CtrlType <- MCCtrlType
    Base <- MCBase
    Options <- MCOptions
    ActiveSets <- MCActiveSets
    Extra <- MCExtra
    Versions <- MCVersions
    Bases <- MCBases
    Overlays <- MCOverlays
    MaxChain = 2
SPECIFICATION AllSpec
INVARIANTS
    AppliedMatchesStored
