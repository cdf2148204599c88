\* Deletion pass over a host whose OVS port profile names its bridge by UUID.
CONSTANTS
    None = None
    NoIface = NoIface
    Uuids <- MCUuids
    NmConn <- MCNmConnUuidRef
    Ifaces <- MCIfaces
    IfaceType <- MCIfaceType
    CurIface <- MCCurIface
    Virtual <- MCVirtual
    InitDevs <- MCInitDevs
SPECIFICATION Spec
INVARIANTS
    TypeOK
PROPERTY
    DeletePassRefined
