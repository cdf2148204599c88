--------------------------- MODULE NmDeleteIfaces ---------------------------
(***************************************************************************)
(* The deletion pass of the NetworkManager backend: delete_ifaces(),      *)
(* delete_orphan_ports() and delete_remain_virtual_interface_as_desired() *)
(* of src/rust/src/lib/nm/query_apply/apply.rs.                            *)
(*                                                                         *)
(* NetworkManager holds profiles (connections) keyed by UUID.  The pass    *)
(* reads them once, computes the set of UUIDs that belong to interfaces   *)
(* marked absent, deletes them one call at a time, re-reads the profiles  *)
(* to delete OVS port profiles left without their controller, and finally *)
(* deletes the kernel devices of virtual interfaces that are absent or    *)
(* down.  Every backend call can fail; a failure aborts the pass (the `?`  *)
(* operator), except device deletion whose error is only logged.          *)
(***************************************************************************)
EXTENDS FiniteSets, TLC

CONSTANTS
    Uuids,      \* every string that is_uuid() accepts, dangling ones included
    NmConn,     \* [uuid -> profile record]: the profiles NM holds at start
    Ifaces,     \* names of the interfaces of the merged state
    IfaceType,  \* [Ifaces -> nmstate interface type] of the merged interface
    CurIface,   \* [Ifaces -> current interface record, or NoIface]
    Virtual,    \* interfaces for which is_virtual() holds
    InitDevs,   \* NM devices, as <<name, nm type>> pairs, present at start
    None,       \* an absent Option<_> field
    NoIface     \* merged interface without a current value

(* NetworkManager connection types and nmstate interface types.           *)
NmOvsPort   == "ovs-port"
NmOvsBridge == "ovs-bridge"
NmOvsIface  == "ovs-interface"
NmVpn       == "vpn"

(* iface_type_to_nm(): the types used here map to the NM type of the same *)
(* name; Ipsec and Unknown never reach it (both are handled before).       *)
IfaceTypeToNm(t) == t

(* String::to_uppercase() on the MAC strings of the model.                 *)
MacUpper(m) == CASE m \in {"aa", "AA"} -> "AA"
                 [] m \in {"bb", "BB"} -> "BB"

(* is_uuid(): a controller reference is either a UUID or an iface name.   *)
IsUuid(ref) == ref \in Uuids

VARIABLES
    present,    \* UUIDs of the profiles NM currently holds
    devs,       \* NM devices currently present
    ifState,    \* [Ifaces -> "keep" | "absent" | "down"]: merged state
    phase,      \* which call of the pass runs next
    toDelete,   \* uuids_to_delete, computed from the first snapshot
    deleted,    \* UUIDs whose connection_delete() returned Ok in the pass
    orphans,    \* uuids_to_delete of delete_orphan_ports()
    devTodo     \* devices delete_remain_virtual_interface... still has to try

vars == <<present, devs, ifState, phase, toDelete, deleted, orphans, devTodo>>

Phases == {"collect", "delete", "orphans", "orphan_delete", "device_delete",
           "done", "failed"}

-----------------------------------------------------------------------------
(* Lookups over a snapshot `snap` of present UUIDs.                         *)

Conn(u) == NmConn[u]

(* create_index_for_nm_conns_by_name_type() looked up at (name, type).     *)
ByNameType(snap, name, type) ==
    {u \in snap : Conn(u).iface = name /\ Conn(u).type = type}

(* get_match_ipsec_nm_conn(): VPN profiles whose id is the iface name.     *)
MatchIpsec(snap, name) ==
    {u \in snap : Conn(u).type = NmVpn /\ Conn(u).id = name}

(* The changed interfaces whose merged value is absent.                    *)
AbsentIfaces == {a \in Ifaces : ifState[a] = "absent"}

(* Mutation of ConnsOfIface: the wired MAC compared without to_uppercase(). *)
ConnsOfIfaceCaseSensitive(snap, a) ==
    LET cur    == CurIface[a]
        byName == IF IfaceType[a] = "unknown"
                  THEN {u \in snap : Conn(u).iface = a}
                  ELSE ByNameType(snap, a, IfaceTypeToNm(IfaceType[a]))
        byProfileName ==
            IF cur # NoIface /\ cur.identifier = "mac" /\ cur.profileName = a
            THEN {u \in snap : Conn(u).id = a}
            ELSE {}
        byMac ==
            IF cur # NoIface /\ cur.identifier = "mac" /\ cur.name = a
               /\ cur.mac # None
            THEN {u \in snap : Conn(u).mac # None /\ Conn(u).mac = cur.mac}
            ELSE {}
    IN byName \cup byProfileName \cup byMac

(* nm_conns_to_delete of one absent interface before the OVS port step:    *)
(* every profile with the name (type Unknown) or with name and type,       *)
(* plus, for a MAC-identified current interface, the profiles whose id is  *)
(* the profile name and the profiles whose wired MAC matches.              *)
ConnsOfIface(snap, a) ==
    LET cur    == CurIface[a]
        byName == IF IfaceType[a] = "unknown"
                  THEN {u \in snap : Conn(u).iface = a}
                  ELSE ByNameType(snap, a, IfaceTypeToNm(IfaceType[a]))
        byProfileName ==
            IF /\ cur # NoIface
               /\ cur.identifier = "mac"
               /\ cur.profileName = a
            THEN {u \in snap : Conn(u).id = a}
            ELSE {}
        byMac ==
            IF /\ cur # NoIface
               /\ cur.identifier = "mac"
               /\ cur.name = a
               /\ cur.mac # None
            THEN {u \in snap : /\ Conn(u).mac # None
                               /\ MacUpper(Conn(u).mac) = MacUpper(cur.mac)}
            ELSE {}
    IN byName \cup byProfileName \cup byMac

(* The OVS port profile of a profile whose controller type is ovs-port:    *)
(* the UUID itself (whether or not it still exists) or, for a name, every  *)
(* ovs-port profile of that name.                                          *)
OvsPortOf(snap, u) ==
    IF Conn(u).ctrlType = NmOvsPort /\ Conn(u).ctrl # None
    THEN IF IsUuid(Conn(u).ctrl)
         THEN {Conn(u).ctrl}
         ELSE ByNameType(snap, Conn(u).ctrl, NmOvsPort)
    ELSE {}

(* uuids_to_delete at the end of the loop of delete_ifaces().              *)
UuidsToDelete(snap) ==
    UNION { IF IfaceType[a] = "ipsec"
            THEN MatchIpsec(snap, a)
            ELSE LET own == ConnsOfIface(snap, a)
                 IN own \cup UNION {OvsPortOf(snap, u) : u \in own}
          : a \in AbsentIfaces }

(* delete_orphan_ports(): ovs-port profiles whose controller UUID was      *)
(* deleted, read from a fresh connections_get().                           *)
OrphanPorts(snap, uuidsDeleted) ==
    {u \in snap : /\ Conn(u).type = NmOvsPort
                  /\ Conn(u).ctrl \in uuidsDeleted}

(* The devices delete_remain_virtual_interface_as_desired() deletes:       *)
(* changed, absent or down, virtual, not an OVS interface, and present in  *)
(* the devices_get() index under (name, nm type).                          *)
VirtualDevsToDelete(devSnap) ==
    { <<a, IfaceTypeToNm(IfaceType[a])>> :
        a \in {x \in Ifaces : /\ IfaceType[x] # NmOvsIface
                              /\ ifState[x] \in {"absent", "down"}
                              /\ x \in Virtual
                              /\ <<x, IfaceTypeToNm(IfaceType[x])>> \in devSnap}}

-----------------------------------------------------------------------------
TypeOK ==
    /\ present \subseteq DOMAIN NmConn
    /\ devs \subseteq InitDevs
    /\ ifState \in [Ifaces -> {"keep", "absent", "down"}]
    /\ phase \in Phases
    /\ toDelete \subseteq Uuids
    /\ deleted \subseteq toDelete
    /\ orphans \subseteq DOMAIN NmConn
    /\ devTodo \subseteq InitDevs

(* The merged state may mark any interface absent or down, or leave it.    *)
Init ==
    /\ present = DOMAIN NmConn
    /\ devs = InitDevs
    /\ ifState \in [Ifaces -> {"keep", "absent", "down"}]
    /\ phase = "collect"
    /\ toDelete = {}
    /\ deleted = {}
    /\ orphans = {}
    /\ devTodo = {}

(* A backend call of the pass returns Err and `?` returns it: the first    *)
(* connections_get(), a connection_delete(), the connections_get() of      *)
(* delete_orphan_ports(), or the devices_get() that follows the orphans.   *)
BackendError ==
    /\ phase \in {"collect", "delete", "orphans", "orphan_delete"}
    /\ phase' = "failed"
    /\ UNCHANGED <<present, devs, ifState, toDelete, deleted, orphans, devTodo>>

(* connections_get() and the loop over the changed absent interfaces.      *)
CollectUuids ==
    /\ phase = "collect"
    /\ toDelete' = UuidsToDelete(present)
    /\ phase' = "delete"
    /\ UNCHANGED <<present, devs, ifState, deleted, orphans, devTodo>>

(* Mutation of DeleteConn: a UUID deleted without being collected.        *)
DeleteConnAnyUuid(u) ==
    /\ phase = "delete"
    /\ u \notin deleted
    /\ present' = present \ {u}
    /\ deleted' = deleted \cup {u}
    /\ UNCHANGED <<devs, ifState, phase, toDelete, orphans, devTodo>>

(* connection_delete(uuid) for one UUID of the HashSet, in any order.  A   *)
(* UUID with no profile (a dangling controller reference) is passed to NM  *)
(* as well; whether that errors is NM's choice, so both outcomes are kept  *)
(* (the error outcome is BackendError).                                    *)
DeleteConn(u) ==
    /\ phase = "delete"
    /\ u \in toDelete \ deleted
    /\ present' = present \ {u}
    /\ deleted' = deleted \cup {u}
    /\ UNCHANGED <<devs, ifState, phase, toDelete, orphans, devTodo>>

(* The loop over uuids_to_delete is over: delete_orphan_ports() starts.    *)
EndDeletes ==
    /\ phase = "delete"
    /\ toDelete \subseteq deleted
    /\ phase' = "orphans"
    /\ UNCHANGED <<present, devs, ifState, toDelete, deleted, orphans, devTodo>>

(* delete_orphan_ports(): connections_get() again and pick the orphans.    *)
CollectOrphans ==
    /\ phase = "orphans"
    /\ orphans' = OrphanPorts(present, deleted)
    /\ phase' = "orphan_delete"
    /\ UNCHANGED <<present, devs, ifState, toDelete, deleted, devTodo>>

DeleteOrphan(u) ==
    /\ phase = "orphan_delete"
    /\ u \in orphans
    /\ present' = present \ {u}
    /\ orphans' = orphans \ {u}
    /\ UNCHANGED <<devs, ifState, phase, toDelete, deleted, devTodo>>

(* devices_get() of delete_remain_virtual_interface_as_desired().          *)
CollectDevices ==
    /\ phase = "orphan_delete"
    /\ orphans = {}
    /\ devTodo' = VirtualDevsToDelete(devs)
    /\ phase' = "device_delete"
    /\ UNCHANGED <<present, devs, ifState, toDelete, deleted, orphans>>

(* device_delete(): an error is only logged, so the device may remain.     *)
DeleteDevice(d) ==
    /\ phase = "device_delete"
    /\ d \in devTodo
    /\ devTodo' = devTodo \ {d}
    /\ \/ devs' = devs \ {d}
       \/ UNCHANGED devs
    /\ UNCHANGED <<present, ifState, phase, toDelete, deleted, orphans>>

EndDevices ==
    /\ phase = "device_delete"
    /\ devTodo = {}
    /\ phase' = "done"
    /\ UNCHANGED <<present, devs, ifState, toDelete, deleted, orphans, devTodo>>

(* The pass is one call of delete_ifaces(): once it returns it stays so.   *)
Returned ==
    /\ phase \in {"done", "failed"}
    /\ UNCHANGED vars

Next ==
    \/ BackendError
    \/ CollectUuids
    \/ \E u \in Uuids : DeleteConn(u)
    \/ EndDeletes
    \/ CollectOrphans
    \/ \E u \in DOMAIN NmConn : DeleteOrphan(u)
    \/ CollectDevices
    \/ \E d \in InitDevs : DeleteDevice(d)
    \/ EndDevices
    \/ Returned

Spec == Init /\ [][Next]_vars

-----------------------------------------------------------------------------
(* Properties.                                                             *)

(* Profiles NM no longer holds.                                            *)
Gone == DOMAIN NmConn \ present

(* A profile belongs to interface a when it names a, when it is the VPN    *)
(* profile of an IPsec interface a, or, for a MAC-identified current       *)
(* interface, when its id is the profile name or its wired MAC is the      *)
(* interface's MAC in any letter case.                                     *)
BelongsTo(u, a) ==
    LET cur == CurIface[a] IN
    \/ Conn(u).iface = a
    \/ IfaceType[a] = "ipsec" /\ Conn(u).type = NmVpn /\ Conn(u).id = a
    \/ /\ cur # NoIface
       /\ cur.identifier = "mac"
       /\ \/ Conn(u).id = a
          \/ cur.mac # None /\ Conn(u).mac # None
             /\ MacUpper(Conn(u).mac) = MacUpper(cur.mac)

(* A profile an absent interface owns, one the pass must remove: the VPN   *)
(* profile of an IPsec interface; otherwise a profile naming the interface *)
(* with its type (with any type when the type is unknown), and, for a      *)
(* MAC-identified current interface, a profile whose id is its profile    *)
(* name or whose wired MAC is its MAC in any letter case.                  *)
Owns(u, a) ==
    LET cur == CurIface[a]
        byMac == cur # NoIface /\ cur.identifier = "mac"
    IN IF IfaceType[a] = "ipsec"
       THEN Conn(u).type = NmVpn /\ Conn(u).id = a
       ELSE \/ /\ Conn(u).iface = a
               /\ \/ IfaceType[a] = "unknown"
                  \/ Conn(u).type = IfaceTypeToNm(IfaceType[a])
            \/ byMac /\ cur.profileName = a /\ Conn(u).id = a
            \/ /\ byMac /\ cur.name = a /\ cur.mac # None /\ Conn(u).mac # None
               /\ MacUpper(Conn(u).mac) = MacUpper(cur.mac)

(* A controller reference of a profile is to the ovs-bridge profile v when *)
(* it is v's UUID or v's interface name; NM accepts both, and              *)
(* delete_ifaces() resolves both when it walks from an interface to its    *)
(* port.                                                                   *)
RefersTo(u, v) ==
    \/ Conn(u).ctrl = v
    \/ Conn(u).ctrl = Conn(v).iface /\ Conn(v).type = NmOvsBridge

(* Once delete_ifaces() returns Ok, no OVS port profile is left whose      *)
(* bridge profile the pass deleted, unless another bridge profile of that  *)
(* name remains: the comment of delete_orphan_ports() says any connection  *)
(* still referring to a deleted one is deleted too.                        *)
NoOrphanOvsPort ==
    phase = "done" =>
        \A u \in present, v \in Gone :
            Conn(u).type = NmOvsPort /\ RefersTo(u, v) =>
                \E w \in present : Conn(w).type = NmOvsBridge /\ RefersTo(u, w)

(* u is an OVS port profile left referring to a removed bridge profile     *)
(* while no bridge profile of h it refers to is left.                      *)
OrphanedIn(u, h) ==
    /\ Conn(u).type = NmOvsPort
    /\ \E v \in DOMAIN NmConn \ h : RefersTo(u, v)
    /\ ~\E w \in h : Conn(w).type = NmOvsBridge /\ RefersTo(u, w)

(* The pass as NmDeletePass sees it: NM's profiles and devices, and the    *)
(* outcome delete_ifaces() returns.                                        *)
Pass == INSTANCE NmDeletePass WITH
    Profiles  <- DOMAIN NmConn,
    Devices   <- InitDevs,
    DevIface  <- LAMBDA d : d[1],
    Cascades  <- LAMBDA u : Conn(u).type = NmOvsPort,
    Orphaned  <- OrphanedIn,
    merged    <- ifState,
    held      <- present,
    devices   <- devs,
    outcome   <- CASE phase = "done"   -> "ok"
                   [] phase = "failed" -> "err"
                   [] OTHER            -> "running"

(* delete_ifaces() implements the deletion pass: it only ever removes a    *)
(* profile of an absent interface or an OVS port profile, and a virtual    *)
(* device of an absent or down interface; and it returns Ok only when no   *)
(* profile an absent interface owns is left (a MAC-bound one in any letter *)
(* case included) and no OVS port is left referring to a removed bridge.   *)
DeletePassRefined == Pass!AbsSpec

=============================================================================
