-------------------------- MODULE MCNmReactivate --------------------------
(***************************************************************************)
(* Seven profiles, one per trigger of gen_nm_conn_need_to_deactivate_first *)
(* and one that only a reapply touches: ethernet eth0 (routes, MPTCP,      *)
(* MTU), VLAN vlan10 (VLAN id), linux bridge br0 with its port br0p, bond  *)
(* bond0 with its port bondp (queue id) and VPN vpn0.                      *)
(*                                                                         *)
(* A behaviour runs one of three parts of the apply path, chosen by `op`:  *)
(* the activation half of nm_apply() ("apply"), the sequence of nm_apply() *)
(* itself with its version check ("nm_apply", NmApply and NmVersionCheck), *)
(* or the chains of overlays that build the merged interfaces it is given *)
(* ("overlay", BaseIfaceUpdate).                                           *)
(* The two parts a behaviour does not run stay at a fixed initial state.   *)
(***************************************************************************)
EXTENDS NmReactivate, Sequences

CONSTANTS
    Versions,
    Bases, Overlays, MaxChain

VARIABLES
    op,
    nmVersion, checked, warned,
    memoryOnly, hostnameDesired, dnsChanged, searchOnly, ifaceDnsDesired,
    dnsPurge, step, calls, ifaceDns, globalDns, outcome,
    prev, last, iface, chain

Ver == INSTANCE NmVersionCheck
Flow == INSTANCE NmApply
Upd == INSTANCE BaseIfaceUpdate

C(routes, kparam, mptcp, mtu, queue) ==
    [routes |-> routes, kparam |-> kparam, mptcp |-> mptcp, mtu |-> mtu,
     queue |-> queue]

Plain == C({"r1"}, 0, 0, 0, 0)

MCProfiles == {"eth0", "vlan10", "br0", "br0p", "bond0", "bondp", "vpn0"}

MCKind ==
    ("eth0" :> "ethernet") @@ ("vlan10" :> "vlan") @@ ("br0" :> "bridge") @@
    ("br0p" :> "ethernet") @@ ("bond0" :> "bond") @@ ("bondp" :> "ethernet") @@
    ("vpn0" :> "vpn")

MCCtrl == [p \in MCProfiles |->
             CASE p = "br0p"  -> "br0"
               [] p = "bondp" -> "bond0"
               [] OTHER       -> None]

MCCtrlType == [p \in MCProfiles |->
                 CASE p = "br0p"  -> "bridge"
                   [] p = "bondp" -> "bond"
                   [] OTHER       -> None]

MCBase == [p \in MCProfiles |-> Plain]

(* Per profile: unchanged, or one change of a field it has.                *)
MCOptions ==
    [p \in MCProfiles |->
        {Plain} \cup
        CASE p = "eth0"   -> {C({"r1", "r2"}, 0, 0, 0, 0), C({}, 0, 0, 0, 0),
                              C({"r1"}, 0, 1, 0, 0), C({"r1"}, 0, 0, 1, 0)}
          [] p = "vlan10" -> {C({"r1"}, 1, 0, 0, 0), C({"r1"}, 0, 0, 1, 0)}
          [] p = "br0"    -> {C({"r1"}, 1, 0, 0, 0)}
          [] p = "br0p"   -> {C({"r1"}, 0, 0, 1, 0)}
          [] p = "bondp"  -> {C({"r1"}, 0, 0, 0, 1)}
          [] p = "vpn0"   -> {C({"r1"}, 0, 0, 1, 0)}
          [] OTHER        -> {}]

MCActiveSets == {MCProfiles, MCProfiles \ {"vlan10"}}

MCExtra == {"br0p", "bondp", "vpn0"}

(* Version strings NM may report: the minimum 1.40, an older 1.39 and     *)
(* 0.9, a newer major 2.0, no minor part, a minor part that does not       *)
(* parse; or version() failing.                                            *)
MCVersions ==
    {<<"1", ".", "4", "0">>, <<"1", ".", "3", "9">>, <<"0", ".", "9">>,
     <<"2", ".", "0">>, <<"1">>, <<"1", ".", "x">>, None}

(* Records for update(): every combination of a few values per property,  *)
(* with None as the value of an explicitly cleared property, and every    *)
(* prop_list over the four properties (in a fixed order for the starting  *)
(* records, in the order of the property list for overlays).             *)

Props == <<"iface_type", "mtu", "min_mtu", "ipv4">>

(* The record's prop_list names p (BaseIfaceUpdate's Touched).             *)
InList(r, p) == \E k \in DOMAIN r.prop_list : r.prop_list[k] = p

Ip(dhcp, props) == [dhcp |-> dhcp, props |-> props]

PropLists == {SelectSeq(Props, LAMBDA p : p \in S) :
                 S \in SUBSET {"iface_type", "mtu", "min_mtu", "ipv4"}}

MCBases ==
    {r \in [iface_type : {"unknown", "ethernet"}, mtu : {None, 9000},
            min_mtu : {None, 68}, ipv4 : {None, Ip(FALSE, {"dhcp"})},
            prop_list : PropLists] :
        \* properties not in prop_list hold their default value
        \A p \in {"mtu", "min_mtu", "ipv4"} :
            ~InList(r, p) => r[p] = None}

(* An overlay sets only what it touches; others keep the default.          *)
MCOverlays ==
    {o \in [iface_type : {"unknown", "bond"}, mtu : {None, 1500},
            min_mtu : {None, 60}, ipv4 : {None, Ip(TRUE, {"dhcp"}), Ip(TRUE, {})},
            prop_list : PropLists] :
        /\ ~InList(o, "iface_type") => o.iface_type = "unknown"
        /\ \A p \in {"mtu", "min_mtu", "ipv4"} : ~InList(o, p) => o[p] = None}

verVars == <<nmVersion, checked, warned, memoryOnly, hostnameDesired,
             dnsChanged, searchOnly, ifaceDnsDesired, dnsPurge, step, calls,
             ifaceDns, globalDns, outcome>>
updVars == <<prev, last, iface, chain>>
allVars == <<op, vars, verVars, updVars>>

(* The fixed initial state of each part a behaviour does not run.          *)
(* (each also an initial state of its part's own Init).                    *)
ApplyIdle ==
    /\ saved = Base /\ desired = Base /\ toActivate = {}
    /\ applied = [p \in Profiles |-> Activated(p, Base)]
    /\ phase = "plan" /\ deactPlan = {} /\ deactFirst = {}
    /\ toStore = {} /\ toAct = {}
    /\ Init
VersionIdle ==
    /\ nmVersion = None /\ checked = FALSE /\ warned = FALSE
    /\ memoryOnly = FALSE /\ hostnameDesired = FALSE /\ dnsChanged = FALSE
    /\ searchOnly = FALSE /\ ifaceDnsDesired = FALSE /\ dnsPurge = FALSE
    /\ step = "new" /\ calls = {} /\ ifaceDns = "cur" /\ globalDns = "cur"
    /\ outcome = "running"
IdleRecord ==
    [iface_type |-> "unknown", mtu |-> None, min_mtu |-> None, ipv4 |-> None,
     prop_list |-> <<>>]
ASSUME IdleRecord \in MCBases
OverlayIdle == iface = IdleRecord /\ prev = None /\ last = None /\ chain = 0

AllInit ==
    \/ op = "apply"   /\ Init /\ VersionIdle /\ OverlayIdle
    \/ op = "nm_apply" /\ ApplyIdle /\ Flow!Init /\ OverlayIdle
    \/ op = "overlay" /\ ApplyIdle /\ VersionIdle /\ Upd!Init

AllNext ==
    \/ op = "apply"   /\ Next /\ UNCHANGED <<op, verVars, updVars>>
    \/ op = "nm_apply" /\ Flow!ApplyNext /\ UNCHANGED <<op, vars, updVars>>
    \/ op = "overlay" /\ Upd!Next /\ UNCHANGED <<op, vars, verVars>>

AllSpec == AllInit /\ [][AllNext]_allVars

(* The properties of NmApply, BaseIfaceUpdate and NmVersionCheck.          *)
(* A DNS change takes effect when nm_apply() returns Ok; see NmApply.      *)
DnsAppliedOnOk == Flow!DnsAppliedOnOk

(* Memory-only mode deletes nothing and sets no hostname; see NmApply.     *)
MemoryOnlyKeepsPersistent == Flow!MemoryOnlyKeepsPersistent


UpdTypeOK == Upd!TypeOK

(* Re-applying the last overlay changes nothing, prop_list included.       *)
OverlayIdempotent == Upd!OverlayIdempotent

(* Overlays touching disjoint properties commute, up to prop_list order.   *)
DisjointOverlaysCommute == Upd!DisjointOverlaysCommute

(* The unsupported-version warning is logged exactly below 1.40.           *)
WarnsOnlyBelowMinimum == Ver!WarnsOnlyBelowMinimum


(* update() leaves every property `other` touched with other's value, an  *)
(* explicitly cleared ipv4 included; see BaseIfaceUpdate.                 *)
TouchedValuesWin == Upd!TouchedValuesWin
=============================================================================
