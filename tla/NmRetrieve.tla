------------------------------ MODULE NmRetrieve ------------------------------
(***************************************************************************)
(* Current-state retrieval from NetworkManager: nm_retrieve() of           *)
(* src/rust/src/lib/nm/show.rs and the reading of one active connection,   *)
(* get_nm_ac_by_obj_path() of src/rust/src/lib/nm/nm_dbus/active_connection.rs. *)
(*                                                                         *)
(* nm_retrieve() makes four separate D-Bus reads (applied connections,     *)
(* devices, saved connections, active connections), and each active       *)
(* connection is itself read with several calls (its Connection path, the  *)
(* profile settings, Uuid, StateFlags).  NetworkManager is a separate      *)
(* process: between any two of these calls it may activate a profile on a  *)
(* device, deactivate a device, or rename a saved profile.  Those are the  *)
(* environment actions of this module, bounded by MaxEvents; they stop     *)
(* once the reads are over, since a later change cannot reach this        *)
(* retrieval.  The interface list is then built from the four snapshots   *)
(* in one step (it is pure computation over them).                         *)
(*                                                                         *)
(* Data is abstracted to what the lookups tell apart: a device has a name, *)
(* an NM type, a "real" flag and a MAC (empty or not); a profile has a     *)
(* UUID (the model value itself), the interface name and type it binds to *)
(* and a connection.id.  LLDP is off in every profile (no LLDP read), and  *)
(* DNS, dispatch scripts, VPN and the OVS netdev merge are left out.       *)
(***************************************************************************)
EXTENDS Integers, FiniteSets, FiniteSetsExt, Functions, Bitwise, TLC

CONSTANTS
    Devices,        \* NmDevice objects
    DevName,        \* nm_dev.name
    DevType,        \* nm_dev.iface_type (NM type name)
    DevReal,        \* nm_dev.real
    DevMac,         \* nm_dev.mac_address ("" when none)
    Managed,        \* the devices NM activates and deactivates in the model
    Profiles,       \* saved NmConnection objects, by UUID
    ProfIface,      \* connection.interface-name of a profile
    ProfType,       \* connection.type of a profile
    RenameIds,      \* connection.id values a rename may give
    AcFlagValues,   \* StateFlags an activation may carry
    InitDevState, InitAc, InitSavedId,
    MaxEvents,      \* bound on NM events
    None

NM_ACTIVATION_STATE_FLAG_EXTERNAL == 128

DevStates == {"unmanaged", "disconnected", "activated"}

(* Types matched by the arms of iface_get() and of nm_dev_to_nm_iface().   *)
IfaceGetTypes ==
    {"linux-bridge", "ethernet", "bond", "ovs-interface", "dummy", "vlan",
     "vxlan", "mac-vlan", "mac-vtap", "vrf", "ovs-bridge", "loopback",
     "macsec", "hsr", "ipvlan"}
NmDevIfaceTypes == IfaceGetTypes \cup {"infiniband"}

(* InterfaceType::SUPPORTED_LIST.                                          *)
SUPPORTED_LIST == NmDevIfaceTypes \cup {"ipsec"}

(* nm_dev_iface_type_to_nmstate(): a veth device is an nmstate ethernet.   *)
NmDevIfaceTypeToNmstate(t) == IF t = "veth" THEN "ethernet" ELSE t

VARIABLES
    \* NetworkManager
    devState,       \* device -> state
    ac,             \* device -> its active connection [path, uuid, flags] or None
    applied,        \* device -> its applied connection [uuid, id, iface, type] or None
    savedId,        \* profile -> connection.id of the saved profile
    nextPath,       \* next active-connection object path number
    events,         \* NM events so far
    \* nm_retrieve()
    phase,
    appliedSnap,    \* nm_conns
    devSnap,        \* nm_devs
    savedSnap,      \* nm_saved_conns
    acPending,      \* active-connection objects listed and not yet read
    acCur,          \* the active connection being read, or None
    acsSnap,        \* nm_acs
    dirty,          \* an NM event happened after the first read
    result,         \* None, "ok" or the error kind
    reported        \* net_state.interfaces

nmVars == <<devState, ac, applied, savedId, nextPath, events>>
readVars == <<phase, appliedSnap, devSnap, savedSnap, acPending, acCur,
              acsSnap, dirty, result, reported>>
vars == <<nmVars, readVars>>

-----------------------------------------------------------------------------
(* Lookups of the interface loop.                                          *)

(* get_first_nm_conn(): the applied connection indexed under the device's  *)
(* name and type, veth looked up as ethernet.                              *)
GetFirstNmConn(name, type) ==
    LET t == IF type = "veth" THEN "ethernet" ELSE type
        cs == {c \in appliedSnap : c.iface = name /\ c.type = t}
    IN IF cs = {} THEN None ELSE CHOOSE c \in cs : TRUE

(* get_nm_ac(): the active connection indexed under (name, type).          *)
GetNmAc(name, type) ==
    LET t == IF type = "veth" THEN "ethernet" ELSE type
        as == {a \in acsSnap : a.iface = name /\ a.type = t}
    IN IF as = {} THEN None ELSE CHOOSE a \in as : TRUE

IsExternal(flags) == (flags & NM_ACTIVATION_STATE_FLAG_EXTERNAL) > 0

(* get_connection_name(): the saved profile's id when the saved profile    *)
(* found through the active connection has the applied one's UUID,         *)
(* otherwise the applied connection's id.                                  *)
GetConnectionNameAppliedOnly(conn, savedUuid) == conn.id

GetConnectionNameUuid(conn, savedUuid) ==
    IF savedUuid # None /\ savedUuid = conn.uuid THEN savedUuid ELSE conn.id

GetConnectionName(conn, savedUuid) ==
    IF savedUuid # None /\ savedUuid = conn.uuid THEN savedSnap[savedUuid]
    ELSE conn.id

(* nm_conn_to_base_iface() + iface_get(): an Up interface named by the     *)
(* profile, with profile_name dropped when it equals the interface name;   *)
(* a type iface_get() has no arm for gives no interface.                   *)
IfaceGet(d, conn, savedUuid) ==
    LET t == NmDevIfaceTypeToNmstate(DevType[d])
        pn == GetConnectionName(conn, savedUuid)
    IN IF t \notin IfaceGetTypes THEN {}
       ELSE {[name |-> conn.iface, type |-> t, state |-> "up",
              profile |-> IF pn = conn.iface THEN None ELSE pn]}

(* nm_dev_to_nm_iface(): an interface from the device alone.               *)
NmDevToNmIface(d, st) ==
    LET t == NmDevIfaceTypeToNmstate(DevType[d])
        known == t \in NmDevIfaceTypes
    IN IF DevName[d] = "" \/ (st = "unmanaged" /\ ~DevReal[d])
          \/ t = "ovs-port"
       THEN {}
       ELSE {[name    |-> DevName[d],
              type    |-> IF known THEN t
                          ELSE IF DevName[d] = "lo" THEN "loopback"
                          ELSE IF DevMac[d] # "" THEN "unknown" ELSE t,
              state   |-> IF ~known \/ st = "unmanaged" THEN "ignore"
                          ELSE IF st = "disconnected" THEN "down" ELSE "up",
              profile |-> None]}

(* The OVS netdev tun twin of an ovs-interface, and libreswan's ip_vti0.   *)
SkipDevice(d) ==
    \/ DevType[d] = "tun" /\ \E n \in Devices : DevName[n] = DevName[d]
                                               /\ DevType[n] = "ovs-interface"
    \/ DevName[d] = "ip_vti0"

(* One iteration of the `for nm_dev in &nm_devs` loop.                     *)
DeviceIfaces(d) ==
    LET st == devSnap[d]
        a  == GetNmAc(DevName[d], DevType[d])
        c  == GetFirstNmConn(DevName[d], DevType[d])
    IN IF SkipDevice(d) THEN {}
       ELSE IF st \in {"unmanaged", "disconnected"} THEN NmDevToNmIface(d, st)
       ELSE IF a # None /\ IsExternal(a.flags) THEN NmDevToNmIface(d, st)
       ELSE IF c = None THEN {}
       ELSE IfaceGet(d, c, IF a # None THEN a.uuid ELSE None)

(* The SUPPORTED_LIST pass: unsupported types are set to Ignore.           *)
MarkIgnored(r) ==
    IF r.type \in SUPPORTED_LIST THEN r ELSE [r EXCEPT !.state = "ignore"]

Retrieved == {MarkIgnored(r) : r \in UNION {DeviceIfaces(d) : d \in Devices}}

-----------------------------------------------------------------------------
AcRecord == [path : Nat, uuid : Profiles, flags : AcFlagValues]
AppliedRecord == [uuid : Profiles, id : RenameIds \cup Range(InitSavedId),
                  iface : Range(ProfIface), type : Range(ProfType)]
IfaceRecord == [name : Range(DevName), type : STRING,
                state : {"up", "down", "ignore"},
                profile : RenameIds \cup Range(InitSavedId) \cup {None}]

TypeOK ==
    /\ devState \in [Devices -> DevStates]
    /\ ac \in [Devices -> AcRecord \cup {None}]
    /\ applied \in [Devices -> AppliedRecord \cup {None}]
    /\ \A d \in Devices : (ac[d] = None) = (applied[d] = None)
    /\ events \in 0..MaxEvents
    /\ phase \in {"idle", "devices", "saved", "aclist", "acs", "build", "done"}
    /\ acCur \in {None} \cup [obj : [dev : Devices, path : Nat],
                               stage : {"uuid", "flags"},
                               iface : Range(ProfIface), type : Range(ProfType),
                               uuid : Profiles \cup {None}]
    /\ result \in {None, "ok", "Bug"}
    /\ reported \subseteq IfaceRecord

Init ==
    /\ devState = InitDevState
    /\ ac = [d \in Devices |->
               IF InitAc[d] = None THEN None
               ELSE [path |-> 0, uuid |-> InitAc[d], flags |-> Min(AcFlagValues)]]
    /\ applied = [d \in Devices |->
               IF InitAc[d] = None THEN None
               ELSE [uuid |-> InitAc[d], id |-> InitSavedId[InitAc[d]],
                     iface |-> ProfIface[InitAc[d]], type |-> ProfType[InitAc[d]]]]
    /\ savedId = InitSavedId
    /\ nextPath = 1
    /\ events = 0
    /\ phase = "idle"
    /\ appliedSnap = {}
    /\ devSnap = [d \in Devices |-> "unmanaged"]
    /\ savedSnap = InitSavedId
    /\ acPending = {}
    /\ acCur = None
    /\ acsSnap = {}
    /\ dirty = FALSE
    /\ result = None
    /\ reported = {}

-----------------------------------------------------------------------------
(* NetworkManager, concurrently with the reads.                            *)

NmEvent ==
    /\ events < MaxEvents
    /\ phase \in {"idle", "devices", "saved", "aclist", "acs"}
    /\ events' = events + 1
    /\ dirty' = (phase # "idle")

(* A profile is activated on a device (a new active-connection object).    *)
NmActivate(d, p, f) ==
    /\ NmEvent
    /\ ProfIface[p] = DevName[d]
    /\ ProfType[p] = IF DevType[d] = "veth" THEN "ethernet" ELSE DevType[d]
    /\ devState' = [devState EXCEPT ![d] = "activated"]
    /\ ac' = [ac EXCEPT ![d] = [path |-> nextPath, uuid |-> p, flags |-> f]]
    /\ applied' = [applied EXCEPT ![d] = [uuid |-> p, id |-> savedId[p],
                                          iface |-> ProfIface[p], type |-> ProfType[p]]]
    /\ nextPath' = nextPath + 1
    /\ UNCHANGED <<savedId, phase, appliedSnap, devSnap, savedSnap, acPending,
                   acCur, acsSnap, result, reported>>

(* A device is deactivated: its active and applied connections go away.    *)
NmDeactivate(d) ==
    /\ NmEvent
    /\ devState[d] = "activated"
    /\ devState' = [devState EXCEPT ![d] = "disconnected"]
    /\ ac' = [ac EXCEPT ![d] = None]
    /\ applied' = [applied EXCEPT ![d] = None]
    /\ UNCHANGED <<savedId, nextPath, phase, appliedSnap, devSnap, savedSnap,
                   acPending, acCur, acsSnap, result, reported>>

(* A saved profile is renamed; the applied connection keeps the old        *)
(* connection.id (the reapply defect the comment of get_connection_name()  *)
(* cites).                                                                 *)
NmRename(p, i) ==
    /\ NmEvent
    /\ savedId[p] # i
    /\ savedId' = [savedId EXCEPT ![p] = i]
    /\ UNCHANGED <<devState, ac, applied, nextPath, phase, appliedSnap,
                   devSnap, savedSnap, acPending, acCur, acsSnap, result, reported>>

-----------------------------------------------------------------------------
(* nm_retrieve().                                                          *)

(* nm_api.applied_connections_get()                                        *)
ReadApplied ==
    /\ phase = "idle"
    /\ appliedSnap' = {applied[d] : d \in {n \in Devices : applied[n] # None}}
    /\ phase' = "devices"
    /\ UNCHANGED <<nmVars, devSnap, savedSnap, acPending, acCur, acsSnap,
                   dirty, result, reported>>

(* nm_api.devices_get()                                                    *)
ReadDevices ==
    /\ phase = "devices"
    /\ devSnap' = devState
    /\ phase' = "saved"
    /\ UNCHANGED <<nmVars, appliedSnap, savedSnap, acPending, acCur, acsSnap,
                   dirty, result, reported>>

(* nm_api.connections_get()                                                *)
ReadSaved ==
    /\ phase = "saved"
    /\ savedSnap' = savedId
    /\ phase' = "aclist"
    /\ UNCHANGED <<nmVars, appliedSnap, devSnap, acPending, acCur, acsSnap,
                   dirty, result, reported>>

(* nm_api.active_connections_get(): the list of active-connection object   *)
(* paths, each then read with get_nm_ac_by_obj_path().                     *)
ReadAcList ==
    /\ phase = "aclist"
    /\ acPending' = {[dev |-> d, path |-> ac[d].path] :
                        d \in {n \in Devices : ac[n] # None}}
    /\ phase' = "acs"
    /\ UNCHANGED <<nmVars, appliedSnap, devSnap, savedSnap, acCur, acsSnap,
                   dirty, result, reported>>

(* The object still exists.                                                *)
Live(o) == ac[o.dev] # None /\ ac[o.dev].path = o.path

(* nm_ac_obj_path_nm_con_obj_path_get() and nm_con_get_from_obj_path(): an *)
(* object that is gone has no Connection and reads as None (skipped);      *)
(* otherwise its profile gives the interface name and type.                *)
AcConnection ==
    /\ phase = "acs"
    /\ acCur = None
    /\ \E o \in acPending :
        IF Live(o)
        THEN /\ acCur' = [obj |-> o, stage |-> "uuid",
                          iface |-> ProfIface[ac[o.dev].uuid],
                          type |-> ProfType[ac[o.dev].uuid], uuid |-> None]
             /\ UNCHANGED acPending
        ELSE /\ acPending' = acPending \ {o}
             /\ UNCHANGED acCur
    /\ UNCHANGED <<nmVars, phase, appliedSnap, devSnap, savedSnap, acsSnap,
                   dirty, result, reported>>

(* nm_ac_obj_path_uuid_get(): a read of a gone object is ErrorKind::Bug,   *)
(* propagated by `?` out of nm_retrieve().                                 *)
AcUuid ==
    /\ phase = "acs"
    /\ acCur # None /\ acCur.stage = "uuid"
    /\ IF Live(acCur.obj)
       THEN /\ acCur' = [acCur EXCEPT !.stage = "flags",
                                      !.uuid = ac[acCur.obj.dev].uuid]
            /\ UNCHANGED <<phase, result>>
       ELSE /\ result' = "Bug"
            /\ phase' = "done"
            /\ UNCHANGED acCur
    /\ UNCHANGED <<nmVars, appliedSnap, devSnap, savedSnap, acPending, acsSnap,
                   dirty, reported>>

(* nm_ac_obj_path_state_flags_get(), likewise; the NmActiveConnection is   *)
(* added to nm_acs.                                                        *)
AcFlags ==
    /\ phase = "acs"
    /\ acCur # None /\ acCur.stage = "flags"
    /\ IF Live(acCur.obj)
       THEN /\ acsSnap' = acsSnap \cup
                  {[iface |-> acCur.iface, type |-> acCur.type,
                    uuid |-> acCur.uuid, flags |-> ac[acCur.obj.dev].flags]}
            /\ acPending' = acPending \ {acCur.obj}
            /\ acCur' = None
            /\ UNCHANGED <<phase, result>>
       ELSE /\ result' = "Bug"
            /\ phase' = "done"
            /\ UNCHANGED <<acCur, acsSnap, acPending>>
    /\ UNCHANGED <<nmVars, appliedSnap, devSnap, savedSnap, dirty, reported>>

(* The interface loop and the SUPPORTED_LIST pass, over the snapshots.     *)
Build ==
    /\ phase = "acs"
    /\ acPending = {} /\ acCur = None
    /\ reported' = Retrieved
    /\ result' = "ok"
    /\ phase' = "done"
    /\ UNCHANGED <<nmVars, appliedSnap, devSnap, savedSnap, acPending, acCur,
                   acsSnap, dirty>>

(* nm_retrieve() has returned.                                             *)
Returned ==
    /\ phase = "done"
    /\ UNCHANGED vars

NmNext ==
    \/ \E d \in Managed, p \in Profiles, f \in AcFlagValues : NmActivate(d, p, f)
    \/ \E d \in Managed : NmDeactivate(d)
    \/ \E p \in Profiles, i \in RenameIds : NmRename(p, i)

RetrieveStep ==
    ReadApplied \/ ReadDevices \/ ReadSaved \/ ReadAcList \/ AcConnection
    \/ AcUuid \/ AcFlags \/ Build

Next == NmNext \/ RetrieveStep \/ Returned

Spec == Init /\ [][Next]_vars

-----------------------------------------------------------------------------
(* What NetworkManager holds for a managed device, stated from NM's own    *)
(* state: disconnected is Down; activated is Up, with no profile name when *)
(* the activation is external (bit 0x80 of StateFlags), and otherwise the  *)
(* current id of the saved profile it runs, unless that is the interface   *)
(* name.                                                                   *)
Expect(d) ==
    LET t == NmDevIfaceTypeToNmstate(DevType[d])
        p == ac[d].uuid
    IN CASE devState[d] = "disconnected" ->
              {[name |-> DevName[d], type |-> t, state |-> "down", profile |-> None]}
         [] devState[d] = "activated" /\ (ac[d].flags \div 128) % 2 = 1 ->
              {[name |-> DevName[d], type |-> t, state |-> "up", profile |-> None]}
         [] devState[d] = "activated" ->
              {[name |-> DevName[d], type |-> t, state |-> "up",
                profile |-> IF savedId[p] = DevName[d] THEN None ELSE savedId[p]]}
         [] OTHER -> {}

(* A quiet retrieval is faithful: when NetworkManager changed nothing      *)
(* between the first read and the last, every managed device is reported *)
(* exactly as NM holds it, the profile name taken from the saved profile  *)
(* even after a rename the applied connection does not show (the         *)
(* get_connection_name() workaround), a veth found under ethernet, and an *)
(* external activation reported without a profile.                        *)
SnapshotFaithful ==
    result = "ok" /\ ~dirty =>
        \A d \in Managed : {r \in reported : r.name = DevName[d]} = Expect(d)

(* An activated device is never dropped: every managed device the device   *)
(* read saw activated appears in the result (the comment of the loop says *)
(* interfaces are included so that `state: absent` can be verified).      *)
ActivatedDeviceReported ==
    result = "ok" =>
        \A d \in Managed :
            devSnap[d] = "activated" => \E r \in reported : r.name = DevName[d]

(* A deactivating active connection is tolerated: the comment of          *)
(* get_nm_ac_by_obj_path() says such a connection is returned as None, so  *)
(* retrieval does not fail with ErrorKind::Bug.                            *)
DeactivationTolerated == result # "Bug"

=============================================================================
