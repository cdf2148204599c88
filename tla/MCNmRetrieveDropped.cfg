CONSTANTS
    None = None
    Devices <- MCDevices
    DevName <- MCDevName
    DevType <- MCDevType
    DevReal <- MCDevReal
    DevMac <- MCDevMac
    Managed <- MCManaged
    Profiles <- MCProfiles
    ProfIface <- MCProfIface
    ProfType <- MCProfType
    RenameIds = {"lab"}
    AcFlagValues = {4, 132}
    InitDevState <- MCInitDevState
    InitAc <- MCInitAc
    InitSavedId <- MCInitSavedId
    MaxEvents = 3
SPECIFICATION Spec
INVARIANT
    ActivatedDeviceReported
