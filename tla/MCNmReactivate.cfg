\* Reactivate-first decision and activation order with saved profiles as applied; the sequence of nm_apply() with its version check, DNS placement and memory-only mode; chains of interface overlays.
CONSTANTS
    None = None
    Inactive = Inactive
    StaleSaved = FALSE
    Profiles <- MCProfiles
    Kind <- MCKind
    Ctrl <- MCCtrl
    CtrlType <- MCCtrlType
    Base <- MCBase
    Options <- MCOptions
    ActiveSets <- MCActiveSets
    Extra <- MCExtra
    Versions <- MCVersions
    Bases <- MCBases
    Overlays <- MCOverlays
    MaxChain = 2
SPECIFICATION AllSpec
INVARIANTS
    DeactivatedFirstReactivated
    AppliedMatchesStored
    UpdTypeOK
    OverlayIdempotent
    DisjointOverlaysCommute
    DnsAppliedOnOk
    MemoryOnlyKeepsPersistent
PROPERTY
    MinimalDisruption
