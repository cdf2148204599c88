---------------------------- MODULE NmReactivate ----------------------------
(***************************************************************************)
(* The profile-activation half of nm_apply() in                            *)
(* src/rust/src/lib/nm/query_apply/apply.rs: which active profiles are     *)
(* deactivated first (gen_nm_conn_need_to_deactivate_first() and its       *)
(* helpers), then deactivate_nm_profiles(), save_nm_profiles(),            *)
(* activate_nm_profiles() in that order.                                   *)
(*                                                                         *)
(* NetworkManager keeps a saved profile and, while a profile is active, an *)
(* applied one.  Activating an active profile reapplies it in place; the   *)
(* spec (section 4.3, step 2) lists what a reapply cannot change, and the  *)
(* model's ReapplyContent gives NM that behaviour.  The code compares the  *)
(* new profile with the saved profile of the active UUID read by           *)
(* connections_get() (exist_nm_conns), and the bridge-pvid and bond        *)
(* queue-id triggers with the merged interfaces, whose current side        *)
(* nm_retrieve() reads from the applied profiles.                          *)
(***************************************************************************)
EXTENDS FiniteSets, TLC

CONSTANTS
    Profiles,   \* UUIDs of the profiles that the apply touches
    Kind,       \* [Profiles -> NM connection type]
    Ctrl,       \* [Profiles -> controller profile, or None]
    CtrlType,   \* [Profiles -> NM type of the controller, or None]
    Base,       \* [Profiles -> Content]: saved and applied before the apply
    Options,    \* [Profiles -> SUBSET Content]: what the desired state may ask
    StaleSaved, \* may the saved profile of an active UUID differ from the
                \* applied one when the apply starts?
    ActiveSets, \* the sets of profiles that may be active at start
    Extra,      \* unchanged profiles the desired state may still activate
    None,
    Inactive    \* applied value of a profile that is not active

Routes == {"r1", "r2"}
Bits   == {0, 1}

(* The content of a profile, reduced to what the triggers tell apart:      *)
(* routes, the type-specific parameter a reapply cannot change (VLAN id,   *)
(* VXLAN, IPVLAN, veth peer, VRF table id; default-pvid for a bridge),    *)
(* MPTCP flags, MTU and a bond port's queue id.                            *)
Content == [routes : SUBSET Routes, kparam : Bits, mptcp : Bits, mtu : Bits,
            queue : Bits]

(* An applied profile also records the default-pvid of its bridge at the  *)
(* moment it became a port.                                                *)
Applied == [c : Content, pvid : Bits \cup {None}]

(* Types whose kparam is_vrf_table_id_changed(), is_vlan_changed(),        *)
(* is_vxlan_changed(), is_veth_peer_changed() and is_ipvlan_changed()      *)
(* compare.                                                                *)
KparamKinds == {"vrf", "vlan", "vxlan", "veth", "ipvlan"}

VARIABLES
    saved,      \* [Profiles -> Content]: NM's saved profiles
    applied,    \* [Profiles -> Applied \cup {Inactive}]
    desired,    \* [Profiles -> Content]: nm_conns_to_store
    toActivate, \* nm_conns_to_activate
    phase,
    deactPlan,  \* nm_conns_to_deactivate_first
    deactFirst, \* the part of it still to be deactivated
    toStore,    \* profiles save_nm_profiles() still has to store
    toAct       \* profiles activate_nm_profiles() still has to activate

vars == <<saved, applied, desired, toActivate, phase, deactPlan, deactFirst,
          toStore, toAct>>

-----------------------------------------------------------------------------
(* NetworkManager (modelled from the spec, the code is not in src/).       *)

(* Mutation of PortPvid: any controller's parameter taken as the pvid.     *)
PortPvidAnyCtrl(p, sav) ==
    IF Ctrl[p] # None THEN sav[Ctrl[p]].kparam ELSE None

(* The default-pvid a port takes from its bridge's saved profile.          *)
PortPvid(p, sav) ==
    IF CtrlType[p] = "bridge" THEN sav[Ctrl[p]].kparam ELSE None

(* Full activation: the applied profile is the saved one.                  *)
Activated(p, sav) == [c |-> sav[p], pvid |-> PortPvid(p, sav)]

(* Reapply of an active profile: routes are only added, VPN settings and   *)
(* the fields named in section 4.3 keep their applied value, a port keeps *)
(* the pvid it joined with.                                                *)
ReapplyContent(p, old, new) ==
    [c |-> [routes |-> old.c.routes \cup new.routes,
            kparam |-> IF Kind[p] \in KparamKinds \cup {"vpn"}
                       THEN old.c.kparam ELSE new.kparam,
            mptcp  |-> old.c.mptcp,
            mtu    |-> IF Kind[p] = "vpn" THEN old.c.mtu ELSE new.mtu,
            queue  |-> IF CtrlType[p] = "bond" THEN old.c.queue ELSE new.queue],
     pvid |-> old.pvid]

-----------------------------------------------------------------------------
(* The merged interfaces: their current side is what nm_retrieve() read   *)
(* from the applied profile (the saved one when the profile is inactive).  *)
Current(p) == IF applied[p] = Inactive THEN saved[p] ELSE applied[p].c

(* The profiles perpare_nm_conns() stores and activates: those whose      *)
(* interface the merged state sees changed.                                *)
ChangedProfiles == {p \in Profiles : desired[p] # Current(p)}

(* A port's queue id is set in its bond's configuration, so a desired      *)
(* queue-id change makes the bond desired too.                             *)
QueueChangedBonds ==
    {Ctrl[p] : p \in {q \in Profiles : CtrlType[q] = "bond"
                                     /\ desired[q].queue # Current(q).queue}}

(* get_default_pvid_changed_brs(): bridges whose default-pvid changes.     *)
DefaultPvidChangedBrs ==
    {b \in Profiles : Kind[b] = "bridge" /\ desired[b].kparam # Current(b).kparam}

(* get_bond_ports_with_queue_id_changed(): ports of a desired or changed   *)
(* bond whose queue id changes.                                            *)
BondPortsWithQueueIdChanged ==
    {p \in Profiles : /\ CtrlType[p] = "bond"
                      /\ Ctrl[p] \in toActivate
                      /\ desired[p].queue # Current(p).queue}

(* Mutation of IsRouteRemoved: any route change counts, added ones too.    *)
IsRouteChanged(new, old) == new.routes # old.routes

(* is_route_removed().                                                     *)
IsRouteRemoved(new, old) == ~(old.routes \subseteq new.routes)

(* is_vrf_table_id_changed(), is_vlan_changed(), is_vxlan_changed(),       *)
(* is_veth_peer_changed(), is_ipvlan_changed().                            *)
IsKparamChanged(p, new, old) == Kind[p] \in KparamKinds /\ new.kparam # old.kparam

(* is_mptcp_flags_changed().                                                *)
IsMptcpFlagsChanged(new, old) == new.mptcp # old.mptcp

(* is_bridge_port_changed_default_pvid(): the port's controller reference *)
(* is looked up among the bridge names.                                    *)
IsBridgePortChangedDefaultPvid(p) ==
    CtrlType[p] = "bridge" /\ Ctrl[p] \in DefaultPvidChangedBrs

(* is_bond_port_queue_id_changed().                                        *)
IsBondPortQueueIdChanged(p) ==
    CtrlType[p] = "bond" /\ p \in BondPortsWithQueueIdChanged

(* activated_nm_conns: the saved profiles whose UUID is active.            *)
ActivatedNmConns == {p \in Profiles : applied[p] # Inactive}

(* Mutation of NeedDeactivateFirst: is_mptcp_flags_changed() left out.     *)
NeedDeactivateFirstNoMptcp(p) ==
    LET new == desired[p]
        old == saved[p]
    IN \/ IsRouteRemoved(new, old)
       \/ IsKparamChanged(p, new, old)
       \/ Kind[p] = "vpn"
       \/ IsBridgePortChangedDefaultPvid(p)
       \/ IsBondPortQueueIdChanged(p)

(* Mutation of NeedDeactivateFirst: the MPTCP check compares the whole     *)
(* profile instead of its flags.                                           *)
NeedDeactivateFirstAnyChange(p) ==
    LET new == desired[p]
        old == saved[p]
    IN \/ IsRouteRemoved(new, old)
       \/ IsKparamChanged(p, new, old)
       \/ new # old
       \/ Kind[p] = "vpn"
       \/ IsBridgePortChangedDefaultPvid(p)
       \/ IsBondPortQueueIdChanged(p)

(* The condition of the loop body of gen_nm_conn_need_to_deactivate_first, *)
(* with old the saved profile of the active UUID.                          *)
NeedDeactivateFirst(p) ==
    LET new == desired[p]
        old == saved[p]
    IN \/ IsRouteRemoved(new, old)
       \/ IsKparamChanged(p, new, old)
       \/ IsMptcpFlagsChanged(new, old)
       \/ Kind[p] = "vpn"
       \/ IsBridgePortChangedDefaultPvid(p)
       \/ IsBondPortQueueIdChanged(p)

(* Mutation of GenNmConnNeedToDeactivateFirst: the loop runs over the     *)
(* active profiles instead of nm_conns_to_activate.                        *)
GenNmConnNeedToDeactivateFirstAllActive ==
    {p \in ActivatedNmConns : NeedDeactivateFirst(p)}

GenNmConnNeedToDeactivateFirst ==
    {p \in toActivate \cap ActivatedNmConns : NeedDeactivateFirst(p)}

(* The functions f with domain DOMAIN F and f[x] \in F[x].                  *)
RECURSIVE ChoiceFns(_, _)
ChoiceFns(F, dom) ==
    IF dom = {} THEN {<<>>}
    ELSE LET x == CHOOSE y \in dom : TRUE
         IN {f @@ (x :> v) : f \in ChoiceFns(F, dom \ {x}), v \in F[x]}

-----------------------------------------------------------------------------
(* Every profile starts saved as Base; active ones applied as saved, or,   *)
(* when StaleSaved, with a saved profile edited since it was applied.      *)
(* The desired state asks for one of the Options of each profile and      *)
(* activates every changed profile and possibly unchanged ones.            *)
Init ==
    /\ \E active \in ActiveSets :
          /\ applied = [p \in Profiles |->
                          IF p \in active THEN Activated(p, Base) ELSE Inactive]
          /\ saved \in ChoiceFns([p \in Profiles |->
                          IF StaleSaved /\ p \in active THEN Options[p]
                          ELSE {Base[p]}], Profiles)
    /\ desired \in ChoiceFns(Options, Profiles)
    /\ \E extra \in SUBSET Extra :
          toActivate = ChangedProfiles \cup extra \cup QueueChangedBonds
    /\ phase = "plan"
    /\ deactPlan = {}
    /\ deactFirst = {}
    /\ toStore = {}
    /\ toAct = {}

(* A backend call returns Err and `?` ends nm_apply().                     *)
BackendError ==
    /\ phase \in {"deactivate", "store", "activate"}
    /\ phase' = "failed"
    /\ UNCHANGED <<saved, applied, desired, toActivate, deactPlan, deactFirst, toStore, toAct>>

(* perpare_nm_conns() is not in src/: the model takes every profile to    *)
(* activate as also stored (spec section 4.3, steps 3(c), (e) and (g)), so *)
(* an activation runs what nm_apply() stored and never an older saved one. *)
Plan ==
    /\ phase = "plan"
    /\ deactFirst' = GenNmConnNeedToDeactivateFirst
    /\ deactPlan' = GenNmConnNeedToDeactivateFirst
    /\ toStore' = toActivate
    /\ toAct' = toActivate
    /\ phase' = "deactivate"
    /\ UNCHANGED <<saved, applied, desired, toActivate>>

(* deactivate_nm_profiles(nm_conns_to_deactivate_first).                   *)
DeactivateFirst(p) ==
    /\ phase = "deactivate"
    /\ p \in deactFirst
    /\ applied' = [applied EXCEPT ![p] = Inactive]
    /\ deactFirst' = deactFirst \ {p}
    /\ UNCHANGED <<saved, desired, toActivate, phase, deactPlan, toStore, toAct>>

EndDeactivate ==
    /\ phase = "deactivate"
    /\ deactFirst = {}
    /\ phase' = "store"
    /\ UNCHANGED <<saved, applied, desired, toActivate, deactPlan, deactFirst, toStore, toAct>>

(* save_nm_profiles(): one profile stored per call.                        *)
Store(p) ==
    /\ phase = "store"
    /\ p \in toStore
    /\ saved' = [saved EXCEPT ![p] = desired[p]]
    /\ toStore' = toStore \ {p}
    /\ UNCHANGED <<applied, desired, toActivate, phase, deactPlan, deactFirst, toAct>>

EndStore ==
    /\ phase = "store"
    /\ toStore = {}
    /\ phase' = "activate"
    /\ UNCHANGED <<saved, applied, desired, toActivate, deactPlan, deactFirst, toStore, toAct>>

(* activate_nm_profiles(): an inactive profile is activated, an active one *)
(* reapplied.                                                              *)
Activate(p) ==
    /\ phase = "activate"
    /\ p \in toAct
    /\ applied' = [applied EXCEPT ![p] =
                     IF @ = Inactive THEN Activated(p, saved)
                     ELSE ReapplyContent(p, @, saved[p])]
    /\ toAct' = toAct \ {p}
    /\ UNCHANGED <<saved, desired, toActivate, phase, deactPlan, deactFirst, toStore>>

EndActivate ==
    /\ phase = "activate"
    /\ toAct = {}
    /\ phase' = "done"
    /\ UNCHANGED <<saved, applied, desired, toActivate, deactPlan, deactFirst, toStore, toAct>>

(* nm_apply() has returned.                                                *)
Returned ==
    /\ phase \in {"done", "failed"}
    /\ UNCHANGED vars

Next ==
    \/ BackendError
    \/ Plan
    \/ \E p \in Profiles : DeactivateFirst(p) \/ Store(p) \/ Activate(p)
    \/ EndDeactivate
    \/ EndStore
    \/ EndActivate
    \/ Returned

Spec == Init /\ [][Next]_vars

-----------------------------------------------------------------------------
(* Properties.                                                             *)

(* Once nm_apply() returns Ok, every profile it activated runs exactly     *)
(* what it stored: no removed route, VLAN id, VRF table, MPTCP flag, bond  *)
(* queue id or bridge default-pvid survives from before, although a        *)
(* reapply, which NM uses for an active profile, would keep them.          *)
AppliedMatchesStored ==
    phase = "done" =>
        \A p \in toActivate : applied[p] = Activated(p, saved)

(* A profile that gen_nm_conn_need_to_deactivate_first() took down is     *)
(* back up when nm_apply() returns Ok: deactivating first never leaves an  *)
(* interface down, a VPN profile the desired state does not activate       *)
(* included.                                                               *)
DeactivatedFirstReactivated ==
    phase = "done" => \A p \in deactPlan : applied[p] # Inactive

(* A profile is deactivated first only when reapplying it would leave     *)
(* something stale (VPN profiles, reactivated unconditionally by the code, *)
(* apart): a route that is only added, or an MTU change, is reapplied      *)
(* without taking the interface down.                                      *)
MinimalDisruption ==
    [][phase = "plan" /\ phase' = "deactivate" =>
         \A p \in deactPlan' :
             \/ Kind[p] = "vpn"
             \/ ReapplyContent(p, applied[p], desired[p]) # Activated(p, desired)]_vars

=============================================================================
