------------------------------ MODULE NmApply ------------------------------
(***************************************************************************)
(* The sequence of nm_apply() in src/rust/src/lib/nm/query_apply/apply.rs: *)
(* connect, the version check (NmVersionCheck), the checkpoint, the        *)
(* deletion pass, the hostname, the three reads, the route and rule        *)
(* stores, the DNS placement, then planning, deactivate-first, save,       *)
(* deletion of replaced profiles, activation, deactivation and the         *)
(* dispatch script.  Every call ending in `?` may fail, and a failure ends  *)
(* nm_apply() with that error: nothing after it runs.                      *)
(*                                                                         *)
(* The deletion pass and the activation half are single calls here; their  *)
(* inside is NmDeleteIfaces and NmReactivate.  The DNS helpers live       *)
(* outside src/: each is a call that succeeds or fails, and DNS is tracked *)
(* only by where it ends up: in the interface profiles (ifaceDns) or in    *)
(* NM's global configuration (globalDns), each "cur" (as before), "new"    *)
(* or "purged".  The predicates on the merged DNS state that choose the    *)
(* branch (is_changed() || is_desired() || !cur_dns_ifaces_still_valid,    *)
(* is_search_or_option_only, is_iface_dns_desired, is_purge) are inputs.   *)
(***************************************************************************)
EXTENDS FiniteSets

CONSTANTS
    Versions,   \* what nm_api.version() may return, or None
    None

VARIABLES
    memoryOnly,         \* merged_state.memory_only
    hostnameDesired,    \* a desired hostname config is given
    dnsChanged,         \* the DNS block runs
    searchOnly,         \* dns.is_search_or_option_only()
    ifaceDnsDesired,    \* is_iface_dns_desired()
    dnsPurge,           \* dns.is_purge()
    step,               \* the next statement of nm_apply()
    calls,              \* the NM calls made so far
    ifaceDns,           \* DNS in the interface profiles
    globalDns,          \* DNS in NM's global configuration
    outcome,            \* "running", "ok" or "err"
    nmVersion, checked, warned

Ver == INSTANCE NmVersionCheck

inputs == <<memoryOnly, hostnameDesired, dnsChanged, searchOnly,
            ifaceDnsDesired, dnsPurge>>
applyVars == <<step, calls, ifaceDns, globalDns, outcome>>
vars == <<inputs, applyVars, nmVersion, checked, warned>>

DnsStates == {"cur", "new", "purged"}

(* The calls that change what NM keeps beyond this process.                *)
PersistentCalls ==
    {"delete_ifaces", "hostname_set", "delete_exist_profiles",
     "delete_orphan_ovs_ports"}

(* The branch of the DNS block, in the order of the code's if/else chain.  *)
DnsBranch ==
    CASE searchOnly      -> "search_or_option"
      [] ifaceDnsDesired -> "iface"
      [] dnsPurge        -> "purge"
      [] OTHER           -> "global"

(* A call made with success, going on to statement `next`, or one whose    *)
(* error `?` returns from nm_apply().                                      *)
CallOk(name, next) ==
    /\ calls' = calls \cup {name}
    /\ step' = next
    /\ UNCHANGED outcome
CallErr(name) ==
    /\ calls' = calls \cup {name}
    /\ step' = "done"
    /\ outcome' = "err"

Call(name, next) == CallOk(name, next) \/ CallErr(name)

(* The calls after DNS, each made unconditionally, with the next one.      *)
PlainCalls ==
    [perpare_nm_conns |-> "deactivate_first",
     deactivate_first |-> "save_nm_profiles",
     save_nm_profiles |-> "delete_exist_profiles",
     activate_nm_profiles |-> "deactivate_nm_profiles",
     deactivate_nm_profiles |-> "apply_dispatch_script",
     apply_dispatch_script |-> "finish"]

TypeOK ==
    /\ \A k \in DOMAIN inputs : inputs[k] \in BOOLEAN
    /\ calls \subseteq PersistentCalls \cup DOMAIN PlainCalls \cup
                       {"NmApi::new", "set_checkpoint", "read", "store_routes",
                        "purge_global_dns_config", "store_dns_to_iface",
                        "store_dns_via_global_api"}
    /\ ifaceDns \in DnsStates /\ globalDns \in DnsStates
    /\ outcome \in {"running", "ok", "err"}

Init ==
    /\ memoryOnly \in BOOLEAN /\ hostnameDesired \in BOOLEAN
    /\ dnsChanged \in BOOLEAN /\ searchOnly \in BOOLEAN
    /\ ifaceDnsDesired \in BOOLEAN /\ dnsPurge \in BOOLEAN
    /\ step = "new"
    /\ calls = {}
    /\ ifaceDns = "cur" /\ globalDns = "cur"
    /\ outcome = "running"
    /\ Ver!VersionInit

-----------------------------------------------------------------------------
NoDns == UNCHANGED <<ifaceDns, globalDns>>
Fixed == UNCHANGED <<memoryOnly, hostnameDesired, dnsChanged, searchOnly,
                      ifaceDnsDesired, dnsPurge, nmVersion, checked, warned>>

(* NmApi::new().map_err(nm_error_to_nmstate)?                               *)
NewApi ==
    /\ step = "new"
    /\ Call("NmApi::new", "version")
    /\ NoDns /\ Fixed

(* check_nm_version(&nm_api): only a log line, never an error.             *)
CheckVersion ==
    /\ step = "version"
    /\ Ver!CheckNmVersion
    /\ step' = "checkpoint"
    /\ UNCHANGED <<memoryOnly, hostnameDesired, dnsChanged, searchOnly,
                   ifaceDnsDesired, dnsPurge, calls, ifaceDns, globalDns, outcome>>

(* set_checkpoint() and set_checkpoint_auto_refresh() return nothing.       *)
SetCheckpoint ==
    /\ step = "checkpoint"
    /\ CallOk("set_checkpoint", "delete_ifaces")
    /\ NoDns /\ Fixed

(* if !merged_state.memory_only { delete_ifaces(...)?; }                    *)
DeleteIfaces ==
    /\ step = "delete_ifaces"
    /\ IF memoryOnly
       THEN step' = "hostname" /\ UNCHANGED <<calls, outcome>>
       ELSE Call("delete_ifaces", "hostname")
    /\ NoDns /\ Fixed

(* A desired hostname is set, except in memory-only mode, where it is only *)
(* logged.                                                                 *)
Hostname ==
    /\ step = "hostname"
    /\ IF hostnameDesired /\ ~memoryOnly
       THEN Call("hostname_set", "read")
       ELSE step' = "read" /\ UNCHANGED <<calls, outcome>>
    /\ NoDns /\ Fixed

(* connections_get(), active_connections_get(), devices_get(), each `?`.   *)
ReadNm ==
    /\ step = "read"
    /\ Call("read", "store_routes")
    /\ NoDns /\ Fixed

(* store_route_config(&mut merged_state)?; store_route_rule_config(...)?;  *)
StoreRoutes ==
    /\ step = "store_routes"
    /\ Call("store_routes", "dns")
    /\ NoDns /\ Fixed

(* The DNS block runs only when DNS changed, is desired, or the current    *)
(* DNS interfaces are no longer valid; it starts by purging the global     *)
(* configuration.                                                          *)
PurgeGlobalDns ==
    /\ step = "dns"
    /\ IF ~dnsChanged
       THEN step' = "perpare_nm_conns" /\ UNCHANGED <<calls, outcome, globalDns>>
       ELSE \/ CallOk("purge_global_dns_config", "dns_store") /\ globalDns' = "purged"
            \/ CallErr("purge_global_dns_config") /\ UNCHANGED globalDns
    /\ UNCHANGED ifaceDns /\ Fixed

StoreDnsIfaceNoFallback ==
    \/ CallOk("store_dns_to_iface", "perpare_nm_conns") /\ ifaceDns' = "new"
       /\ UNCHANGED globalDns
    \/ CallOk("store_dns_to_iface", "perpare_nm_conns") /\ NoDns

(* is_iface_dns_desired(): store_dns_config_to_iface(), and when it fails  *)
(* (logged, "will try to set via global DNS") the global API, whose error  *)
(* is returned.                                                            *)
StoreDnsIface ==
    \/ CallOk("store_dns_to_iface", "perpare_nm_conns") /\ ifaceDns' = "new"
       /\ UNCHANGED globalDns
    \/ /\ calls' = calls \cup {"store_dns_to_iface", "store_dns_via_global_api"}
       /\ \/ step' = "perpare_nm_conns" /\ globalDns' = "new" /\ UNCHANGED outcome
          \/ step' = "done" /\ outcome' = "err" /\ UNCHANGED globalDns
       /\ UNCHANGED ifaceDns

(* The DNS store of each branch.  The interface stores write the merged    *)
(* profiles, saved later by save_nm_profiles.  When storing to interfaces *)
(* fails the global API is tried instead; the purge of interface DNS has   *)
(* its error dropped by .ok().                                             *)
StoreDns ==
    /\ step = "dns_store"
    /\ CASE DnsBranch = "search_or_option" ->
              \/ CallOk("store_dns_to_iface", "perpare_nm_conns") /\ ifaceDns' = "new"
                 /\ UNCHANGED globalDns
              \/ CallErr("store_dns_to_iface") /\ NoDns
         [] DnsBranch = "iface" -> StoreDnsIface
         [] DnsBranch = "purge" ->
              /\ calls' = calls \cup {"store_dns_to_iface"}
              /\ step' = "perpare_nm_conns"
              /\ ifaceDns' \in {ifaceDns, "purged"}
              /\ UNCHANGED <<globalDns, outcome>>
         [] OTHER ->
              \/ CallOk("store_dns_via_global_api", "perpare_nm_conns") /\ globalDns' = "new"
                 /\ UNCHANGED ifaceDns
              \/ CallErr("store_dns_via_global_api") /\ NoDns
    /\ Fixed

(* perpare_nm_conns()?, deactivate_nm_profiles()? of the deactivate-first  *)
(* set, save_nm_profiles()?, activate_nm_profiles().await?,               *)
(* deactivate_nm_profiles()?, apply_dispatch_script()?.                    *)
PlainCall(s) ==
    /\ step = s
    /\ Call(s, PlainCalls[s])
    /\ NoDns /\ Fixed

DeleteExistProfilesAlways ==
    /\ step = "delete_exist_profiles"
    /\ Call("delete_exist_profiles", "delete_orphan_ovs_ports")
    /\ NoDns /\ Fixed

(* if !merged_state.memory_only { delete_exist_profiles(...)?;             *)
(* delete_orphan_ovs_ports(...)?; }                                        *)
DeleteExistProfiles ==
    /\ step = "delete_exist_profiles"
    /\ IF memoryOnly
       THEN step' = "activate_nm_profiles" /\ UNCHANGED <<calls, outcome>>
       ELSE Call("delete_exist_profiles", "delete_orphan_ovs_ports")
    /\ NoDns /\ Fixed

DeleteOrphanOvsPorts ==
    /\ step = "delete_orphan_ovs_ports"
    /\ Call("delete_orphan_ovs_ports", "activate_nm_profiles")
    /\ NoDns /\ Fixed

(* Ok(()).                                                                 *)
Finish ==
    /\ step = "finish"
    /\ step' = "done"
    /\ outcome' = "ok"
    /\ UNCHANGED <<calls, ifaceDns, globalDns>> /\ Fixed

(* nm_apply() has returned.                                                *)
ApplyReturned ==
    /\ step = "done"
    /\ UNCHANGED <<step, calls, ifaceDns, globalDns, outcome>> /\ Fixed

ApplyNext ==
    \/ NewApi \/ CheckVersion \/ SetCheckpoint \/ DeleteIfaces \/ Hostname
    \/ ReadNm \/ StoreRoutes \/ PurgeGlobalDns \/ StoreDns
    \/ \E s \in DOMAIN PlainCalls : PlainCall(s)
    \/ DeleteExistProfiles \/ DeleteOrphanOvsPorts \/ Finish \/ ApplyReturned

ApplySpec == Init /\ [][ApplyNext]_vars

-----------------------------------------------------------------------------
(* A change of DNS takes effect: when nm_apply() returns Ok after the DNS  *)
(* block ran, the old global DNS is gone (purged or replaced), and unless  *)
(* the change is a purge the new DNS is stored somewhere, in the interface *)
(* profiles or, when storing there failed, through the global API         *)
(* (apply.rs 104-116).  Only a purge may leave interface DNS behind, its   *)
(* error being dropped by .ok().                                           *)
DnsAppliedOnOk ==
    outcome = "ok" /\ dnsChanged =>
        /\ globalDns # "cur"
        /\ DnsBranch # "purge" => "new" \in {ifaceDns, globalDns}

(* Memory-only mode leaves what NM keeps on disk alone: however the apply  *)
(* goes or fails, it deletes no profile or interface and sets no hostname  *)
(* (the three memory_only guards of nm_apply()).                           *)
MemoryOnlyKeepsPersistent == memoryOnly => calls \cap PersistentCalls = {}
=============================================================================
