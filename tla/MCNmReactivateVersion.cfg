\* check_nm_version() over every version string NM may report.
CONSTANTS
    None = None
    Inactive = Inactive
    StaleSaved = FALSE
    Profiles <- MCProfiles
    Kind <- MCKind
    Ctrl <- MCCtrl
    CtrlType <- MCCtrlType
    Base <- MCBase
    Options <- MCOptions
    ActiveSets <- MCActiveSets
    Extra <- MCExtra
    Versions <- MCVersions
    Bases <- MCBases
    Overlays <- MCOverlays
    MaxChain = 2
SPECIFICATION AllSpec
INVARIANTS
    WarnsOnlyBelowMinimum
