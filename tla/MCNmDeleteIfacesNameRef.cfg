\* Deletion pass over a host whose OVS port profile names its bridge by interface name.
CONSTANTS
    None = None
    NoIface = NoIface
    Uuids <- MCUuids
    NmConn <- MCNmConnNameRef
    Ifaces <- MCIfaces
    IfaceType <- MCIfaceType
    CurIface <- MCCurIface
    Virtual <- MCVirtual
    InitDevs <- MCInitDevs
SPECIFICATION Spec
INVARIANTS
    NoOrphanOvsPort
