# TLA+ models of nmstate's NetworkManager and nispor backends

This directory holds TLA+ models of the parts of `src/rust/src/lib` that
decide what nmstate does to a host: how interface records are overlaid,
which NetworkManager (NM) profiles and devices are deleted, which active
profiles are taken down before being re-activated, and how routes are
read from and written to the kernel through nispor. Every module is
translated from the Rust source. `PROJECT.json` maps each definition to
the lines it models. A definition is marked `spec_modelled` when the code
it stands for (NetworkManager itself, or helpers outside `src/`) is not
in the repository; for those, `spec.md` is the source.

## 1. The system and its parts

| Part | Source | State and operations | Module |
|---|---|---|---|
| Interface overlay | `query_apply/base.rs` | `BaseInterface::update(self, other)`: copies every property named in `other.prop_list`, except an `Unknown` interface type; merges ipv4/ipv6 blocks; appends `other.prop_list` to `self.prop_list` without repeats | `BaseIfaceUpdate` |
| NM deletion pass | `nm/query_apply/apply.rs` 191-402 | `delete_ifaces`: reads all profiles and collects the UUIDs of absent interfaces. It matches profiles by name/type, by name only for an Unknown type, by profile name and MAC for MAC-identified interfaces, and by IPsec VPN id, then follows OVS ports to their port profile. It then calls `connection_delete` per UUID, `delete_orphan_ports` (re-reads, deletes ovs-port profiles whose controller UUID was deleted) and `delete_remain_virtual_interface_as_desired` (`device_delete`, errors ignored) | `NmDeleteIfaces` |
| NM apply | `nm/query_apply/apply.rs` 39-189, 404-542 | `nm_apply`: connects, checks the NM version, sets the checkpoint, runs the deletion pass and sets the hostname (both skipped in memory-only mode). It then places DNS (purging the global configuration, then storing to interfaces or globally, with a global fallback). It reads saved profiles, active connections and devices, then plans. Profiles that need a full restart are computed by `gen_nm_conn_need_to_deactivate_first`: route removed, VRF/VLAN/VXLAN/veth/IPVLAN change, MPTCP flags, VPN, bridge default-pvid, bond queue id. It then deactivates those first, saves, deletes stale profiles, activates (NM reapplies an active profile in place) and deactivates; every call may fail and end the apply | `NmApply`, `NmVersionCheck`, `NmReactivate` |
| Route collection | `nispor/route.rs` 33-236 | `get_routes`: one nispor query per protocol, a failed query only logged. It builds the running view (every supported protocol) and the config view (boot/static), filtered on scope. Multipath routes are flattened, route-type and unicast routes converted, default destination and next hop synthesized, cwnd gated on its lock bit | `NisporRoute` |
| Outbound routes | `nispor/route.rs` 238-300 | `gen_nispor_route_confs`: converts each changed route and stops at the first error. A table id above 255, a weight, a route type or a cwnd is rejected; a metric outside the u32 range becomes none | `NisporRouteConf` |
| Current state | `nm/show.rs` 21-260 | `nm_retrieve`: four separate reads (applied connections, devices, saved connections, active connections), then each NM device paired with its applied profile, saved profile and active connection; profile name from the saved profile | `NmRetrieve` |
| Active connections | `nm/nm_dbus/active_connection.rs` | `get_nm_ac_by_obj_path`: Connection path, settings, Uuid and StateFlags read in separate D-Bus calls; a connection gone at the first read is skipped | `NmRetrieve` |
| D-Bus settings | `nm/nm_dbus/connection/{veth,ipvlan,ieee8021x,route_rule}.rs` | `TryFrom<DbusDictionary>` (unknown keys kept in `_other`), `fill_secrets`, `to_value`, the glib path encoding of 802.1X certificates, `parse_nm_ip_rule_data`/`nm_ip_rules_to_value` for routing rules | `NmRouteRule`, `NmDbusSetting` |
| IPsec vpn setting | `nm/settings/vpn.rs` | `gen_nm_ipsec_vpn_setting`: libreswan options formatted into `vpn.data`, the pre-shared key into `secrets`, the password placeholder replaced by the secrets the profile already has | `NmVpnSetting` |
| VRF conversion | `nispor/vrf.rs` | `np_vrf_to_nmstate`: table id copied, ports sorted | not modelled (a pure sort) |

How they interact: a reconciliation overlays desired interfaces on the
current ones (`update`). For the NM backend, `nm_apply` runs the deletion
pass (unless memory-only) and then the deactivate/store/activate sequence.
For the nispor path, `get_routes` gives the current routes and
`gen_nispor_route_confs` the routes to write. The current side of the
merge comes from `nm_retrieve`, which reads applied profiles. The
deactivate-first decision in `nm_apply`, however, compares with saved
profiles, and that mismatch is one of the findings below.

What makes this code hard to test:
- orders: HashSet iteration in the deletion loop;
- failures between calls: every `?` after a delete;
- stale reads: saved profiles read before anything changes, and orphan
  detection on a re-read;
- partial results: a failed route query only logged;
- numeric edges: narrowing u32 to u8 and i64 to u32, lock bit masks;
- long chains: overlays applied repeatedly;
- NM as a concurrent process: it activates, deactivates and renames
  between the separate reads of `nm_retrieve`;
- round trips: settings read from NM and written back must keep what
  nmstate does not know, and a hidden password must keep the stored one.

## 2. Modules

Each module declares the component's state as VARIABLES. It has one
action per call or loop iteration that changes state, a terminal
stuttering action for the function having returned, and `Spec`. An
`MC*` module gives the constants values, with one `.cfg` per run. Two MC
modules compose several components in one run: a variable `op` picks, in
the initial state, which component the behaviour exercises, and each branch
of the composed next-state relation leaves the other components' variables
unchanged. An idle component is pinned to one fixed state.
- `MCNmReactivate` composes three parts:
  - the apply steps of `NmReactivate`;
  - the whole sequence of `nm_apply` in `NmApply`, whose version step is
    `NmVersionCheck`;
  - the overlay chains of `BaseIfaceUpdate`.
- `MCNmDbusSetting` composes the D-Bus settings (`NmDbusSetting`), the vpn
  applies (`NmVpnSetting`) and, by instantiating `MCNisporRoute`, both
  directions of `route.rs` (`NisporRoute` and `NisporRouteConf`).
  `MCNisporRoute`'s own `phase` is renamed `npPhase` there.

### NmDeleteIfaces (deletion pass)
- State:
  - `present`: NM's profiles.
  - `devs`: NM's devices.
  - `ifState`: the merged state of each interface (keep, absent, down).
  - `toDelete`: `uuids_to_delete`.
  - `deleted`: the UUIDs deleted so far.
  - `orphans`: the orphan list.
  - `devTodo`: the devices still to try.
  - `phase`.
- Actions follow the calls:
  - `CollectUuids` (the first `connections_get` and the collection loop);
  - `DeleteConn(u)` (one `connection_delete`, in any order);
  - `EndDeletes`;
  - `CollectOrphans` and `DeleteOrphan(u)`;
  - `CollectDevices` and `DeleteDevice(d)` (the device may stay: the error
    is ignored);
  - `EndDevices`;
  - `BackendError` (any `?` failing);
  - `Returned`.
- The UUID collection is the operator `UuidsToDelete`. It is built from
  `ConnsOfIface`, `OvsPortOf` and `MatchIpsec`, each a translation of its
  branch of the loop.
- `MCNmDeleteIfaces` has ten profiles: an OVS bridge, port and two
  interfaces (one with a dangling port UUID), two MAC-bound ethernet
  profiles differing in letter case, a MAC-identified interface known
  under another profile name, a bond with a port, and a VPN for an IPsec
  interface. Every interface may be kept, absent or down.

### NmDeletePass (what the deletion pass promises)
- An abstract specification over the same profiles, devices and merged
  state, without calls, snapshots or loops.
- `RemoveProfile(u)` removes one profile that may go:
  - it belongs to an absent interface;
  - or it is an OVS port cascading from its controller.
- `RemoveDevice(d)` removes the device of an absent or down virtual
  interface.
- `Fail` may happen at any point.
- `Succeed` is enabled only when:
  - no profile an absent interface owns is left;
  - and no OVS port profile is left referring to a removed profile
    without also referring to a remaining OVS bridge profile (`OrphanedIn`
    in `NmDeleteIfaces`). That is the only kind of reference it checks.
- Ownership is stated independently of the code's collection loop (`Owns`
  in `NmDeleteIfaces`):
  - by name and NM type (or unknown type);
  - by the stored profile name;
  - by MAC in any letter case;
  - the VPN of an IPsec interface.
- `NmDeleteIfaces` instantiates it as `Pass`. The refinement mapping is:
  - `held` is `present`;
  - `devices` is `devs`;
  - `merged` is `ifState`;
  - the outcome comes from `phase`.
- Every step of the code must therefore be one abstract step, or a
  stutter.

### NmReactivate (deactivate-first, store, activate)
- State:
  - `saved` and `applied`: NM's two copies of each profile.
  - `desired`.
  - `toActivate`.
  - the plan: `deactPlan`, `deactFirst`, `toStore`, `toAct`.
  - `phase`.
- Profile content is abstracted to what the triggers tell apart:
  - the route set;
  - a parameter a reapply cannot change (VLAN id, VRF table, ...; the
    default-pvid for a bridge);
  - MPTCP flags;
  - MTU;
  - a bond port's queue id.
- NM's activation and reapply (`Activated`, `ReapplyContent`, `PortPvid`)
  follow spec section 4.3. The helpers `is_route_removed` etc., which are
  outside `src/`, are modelled from their names and the spec.
- `perpare_nm_conns`, which builds the sets to store and to activate, is
  also outside `src/`. The model stores every profile it activates (spec
  section 4.3, steps 3(c), (e) and (g)). An activation therefore runs
  what `nm_apply` stored, never an older saved profile.
- Actions:
  - `Plan` (the computation of `nm_conns_to_deactivate_first`);
  - `DeactivateFirst(p)`, `Store(p)`, `Activate(p)`;
  - `End*` for each;
  - `BackendError`, `Returned`.
- `MCNmReactivate` has seven profiles: an ethernet, a VLAN, a bridge and
  its port, a bond and its port, and a VPN. Each has options changing one
  field. The active set and which unchanged profiles are activated as
  well are also chosen.

### NmApply (the sequence of nm_apply)
- Inputs chosen in the initial state:
  - `memoryOnly`;
  - whether a hostname is desired;
  - the four predicates that steer the DNS block (whether it runs, search
    or options only, interface DNS desired, purge).
- State:
  - `step`: the next statement;
  - `calls`: the NM calls made;
  - `ifaceDns` and `globalDns`: where DNS is (as before, new or purged);
  - `outcome`.
  - It shares `nmVersion`, `checked` and `warned` with `NmVersionCheck`.
- One action per statement:
  - `NewApi`, `CheckVersion`, `SetCheckpoint`, `DeleteIfaces`,
    `Hostname`, `ReadNm`, `StoreRoutes`;
  - `PurgeGlobalDns`, then `StoreDns` (with `StoreDnsIface` for the
    interface branch and its global fallback);
  - `PlainCall(s)` for the unconditional calls;
  - `DeleteExistProfiles`, `DeleteOrphanOvsPorts`, `Finish`,
    `ApplyReturned`.
- Each `?` call succeeds or returns the error (`Call`).
- The deletion pass and the activation half are single calls here; their
  inside is `NmDeleteIfaces` and `NmReactivate`. The DNS helpers, outside
  `src/`, are calls that succeed or fail.

### NmVersionCheck (check_nm_version)
- `check_nm_version` is the first step of `nm_apply`.
- State: `nmVersion` (the string NM reports, or None for an error),
  `checked`, `warned`.
- `SplitDot` is `split('.')`, empty parts included.
- `ParseI32OrDefault` is `parse::<i32>().unwrap_or_default()`. It is a
  fold over the digits, giving 0 for anything that does not parse.
- `WarnsUnsupported` is the warning condition on the first two parts.
- `MCNmReactivate` enumerates "1.40", "1.39", "0.9", "2.0", "1" and
  "1.x", and an error.

### NisporRoute (get_routes)
- State:
  - `kernel`: the routes the host holds, any subset of the candidates.
  - `runningConfigOnly`.
  - `pending`: the protocols not yet queried.
  - `npRoutes`.
  - `failed`: the protocols whose query failed.
  - the `running` and `config` views.
  - `phase`.
- Actions: `QueryOk`, `QueryFail` (at most `MaxFailures` per call),
  `Convert`, `Returned`.
- The conversions are operators with the source's names:
  - `NpRouteToNmstate`, `NpRoutetypeToNmstate`, `FlatMultipathRoute`;
  - `IsMultipath`, `CwndLock`, `Destination`, `NextHopAddr`.
- Each flat route carries the id of the kernel route it came from (`from`)
  so properties can count.

### NisporRouteConf (gen_nispor_route_confs)
- State: `changed`, `i` (routes converted), `confs`, `result`.
- Actions: `ConvertNext` (one iteration, with the `?`), `Finish`,
  `Returned`.
- It is instantiated as `Gen` by `MCNisporRoute` (itself run inside
  `MCNmDbusSetting`), over up to two changed
  routes drawn from table ids 254/255/256, metrics at 0 and the maximum,
  and every unsupported feature.
- The u32 maximum is the constant `U32Max`. TLC's integers are 32-bit, so
  the MC scales it down to 4095. Only comparisons against it occur, so the
  boundary behaviour is the same.

### BaseIfaceUpdate (BaseInterface::update)
- A record keeps:
  - `iface_type`;
  - `mtu` and `min_mtu`, which stand for the plain copies;
  - `ipv4`: absent, or a block with its own touched set;
  - `prop_list`.
- State: `iface` (self), `prev`, `last` (the last `other`), `chain`.
- `UpdateStep` applies `Update` with any overlay, up to `MaxChain` times.
- `MCNmReactivate` enumerates every starting record and every overlay
  over a few values per property, including None for an explicitly
  cleared one.

### NmRetrieve (nm_retrieve and active-connection reading)
- NM's state: `devState`, `ac` (each device's active connection: object
  path, profile UUID, StateFlags), `applied`, `savedId` (the
  connection.id of each saved profile), `nextPath`, `events`.
- Retrieval's state: `phase`, the snapshots `appliedSnap`, `devSnap`,
  `savedSnap`, `acsSnap`, the active connections still to read
  (`acPending`, `acCur`), `dirty` (NM changed something during the reads),
  `result` and `reported`.
- NM's actions: `NmActivate(d, p, f)`, `NmDeactivate(d)`,
  `NmRename(p, i)`, at most `MaxEvents`, and only while reads remain.
- Retrieval's actions, one per D-Bus call: `ReadApplied`, `ReadDevices`,
  `ReadSaved`, `ReadAcList`, then per active connection `AcConnection`
  (Connection path; None if the object is gone), `AcUuid`, `AcFlags`
  (a failure there is `ErrorKind::Bug`), then `Build` (the pairing loop,
  pure computation over the snapshots) and `Returned`.
- `MCNmRetrieve` has nine devices covering each classification branch
  (unmanaged, not real, OVS interface with its tun twin, loopback and
  `ip_vti0` without MAC, veth, OVS port) and four profiles, one renamed
  after activation.

### NmRouteRule and NmDbusSetting (D-Bus settings)
- `NmRouteRule` is operators only: `RuleFromMap` (`_from_map!`, exact
  signature match), `RuleTryFromDict`, `ActionFromU8`/`U8FromAction`,
  `RuleToValue`, `ParseNmIpRuleData`, `NmIpRulesToValue`. A D-Bus value is
  a record of its signature letter and its value.
- `NmDbusSetting` follows one setting through one profile update. The
  variables are `setting` (veth, ipvlan, 802-1x or routing-rules), `input`
  (what GetSettings returned), `secrets`, `parsed`, `output`, `certPath`
  and `phase`. The actions are `Parse`
  (`TryFrom`), `Fill` (`fill_secrets`, 802.1X only), `SetCaCert`
  (`file_path_to_glib_bytes`), `Write` (`to_value`), `ParseRules`,
  `WriteRules` and `Finished`. `GlibBytesToFilePath` models the reverse
  conversion byte by byte (NUL trimming, the `file://` prefix, UTF-8
  failure).
- `MCNmDbusSetting` gives every known key the values absent, its own
  signature and a wrong one, plus a key unknown to the struct; the rule
  action covers 6, 7, 8, a neighbouring code and the u8 bounds.

### NmVpnSetting (gen_nm_ipsec_vpn_setting)
- `GenNmIpsecVpnSetting(conf, vpn)` is an operator: `VpnData` formats
  each set field (bools as yes/no, u64 through `Decimal`), `VpnSecrets`
  handles the psk and the password placeholder.
- The state is the vpn setting NM stores (`stored`), the psk the user last
  gave (`lastPsk`) and `applies`. `Apply` regenerates the stored setting
  from a configuration in `Confs`, up to `MaxApplies` times. The caller
  and `NmSettingVpn` are outside `src/`; that the stored setting handed
  to the function carries its secrets is taken from the spec.
- Configurations: no libreswan at all, or one with psk absent, hidden,
  "s1" or "s2", with and without a dpddelay.

## 3. Runs

| Run | Cfg | Expect | What it shows |
|---|---|---|---|
| nm_delete | MCNmDeleteIfaces.cfg | pass | Controllers referenced by UUID, every interface state, deletes and failures in every order. |
| nm_delete_name_ref | MCNmDeleteIfacesNameRef.cfg | violation | An OVS port naming its bridge by interface name survives the bridge (finding 1). |
| nm_reactivate | MCNmReactivate.cfg | pass | Saved equals applied at start; every trigger kind; and, composed, `nm_apply` failing at any call under all 64 input combinations and chains of two overlays. |
| nm_reactivate_stale_saved | MCNmReactivateStale.cfg | violation | The saved profile was edited after activation: a removed route survives the reapply (finding 2). |
| nm_reactivate_version | MCNmReactivateVersion.cfg | violation | NM 2.0 is reported as older than 1.40 (finding 6). |
| nm_reactivate_overlay_clear | MCNmReactivateOverlayClear.cfg | violation | An overlay touching ipv4 with no value leaves the current block in place (finding 7). |
| nispor_routes_other_family | MCNmDbusSettingOtherFamily.cfg | violation | A route of unknown address family is kept with no destination (finding 3). |
| nm_retrieve | MCNmRetrieve.cfg | pass | Up to three NM events interleaved with every read; a quiet retrieval is faithful. |
| nm_retrieve_dropped | MCNmRetrieveDropped.cfg | violation | A profile activated between two reads drops a running interface from the report (finding 4). |
| nm_retrieve_ac_race | MCNmRetrieveAcRace.cfg | violation | An active connection going away between its reads fails retrieval with `Bug` (finding 5). |
| nm_dbus_setting | MCNmDbusSetting.cfg | pass | Settings and routing rules written back losslessly, certificate paths round-trip, and the vpn psk survives applies showing the placeholder. In the same run: `get_routes` over every kernel table of nine candidate routes, both modes, any one failed query; and `gen_nispor_route_confs` over two changed routes. |

Properties of the passing runs, besides the `TypeOK` of each module
(`NmReactivate` has none):

- **DeletePassRefined** (NmDeleteIfaces): the pass implements
  `NmDeletePass`. Every profile deleted belongs to an absent interface or
  is an OVS port. Every device deleted is an absent or down virtual one.
  Success comes only once no owned profile and no orphan is left.
- **NoOrphanOvsPort** (violation run only): after a successful pass, no
  OVS port profile refers to a deleted bridge profile, whether by UUID or
  by name.
- **AppliedMatchesStored** (NmReactivate): after a successful apply, every
  activated profile runs exactly what was stored. No removed route, VLAN
  id, MPTCP flag, queue id or pvid survives a reapply.
- **DnsAppliedOnOk** (NmApply): when `nm_apply` returns Ok after the
  DNS block ran, the old global DNS is gone. Unless the change is a purge,
  the new DNS is stored in the interface profiles or, after that failed,
  globally.
- **MemoryOnlyKeepsPersistent**: in memory-only mode no profile or
  interface is deleted and no hostname set, however the apply goes.
- **TouchedValuesWin** (BaseIfaceUpdate, violation run only): every
  property the overlay touched holds the overlay's value, an explicitly
  cleared ipv4 included.
- **DeactivatedFirstReactivated** (NmReactivate): when `nm_apply`
  returns Ok, every profile taken down by the deactivate-first step is
  up again. This holds because the code's loop runs over
  `nm_conns_to_activate` and not over the active profiles. An unchanged
  VPN profile, which always triggers, is otherwise left down.
- **MinimalDisruption**: a profile is planned for deactivation only if a
  reapply would leave it stale (VPNs apart).
- **RouteTypeOK**, **ViewAccounting** (NisporRoute, checked through
  `MCNmDbusSetting`): each kernel route appears in each view
  exactly as often as it has flat routes; a route of a failed query or
  outside the scope/protocol filter does not appear, and the running view
  is absent exactly in running-config-only mode.
- **MultipathRoundTrip**: re-aggregating the flat routes of a multipath
  route gives back its hop set, with weights for IPv4 only.
- **CwndGating**: cwnd is present exactly when the lock bitfield has 0x80.
  The reference uses division; the code model uses `&`.
- **ConfTypeOK**, **RejectNotClamp** (NisporRouteConf): success exactly
  when every route is expressible; the table id is never clamped, and a
  failure stops at the first inexpressible route.
- **UpdTypeOK** (BaseIfaceUpdate): the overlaid record keeps its type,
  and `prop_list` has no duplicates.
- **OverlayIdempotent**: re-applying the last overlay
  changes nothing, prop_list included.
- **DisjointOverlaysCommute**: overlays touching disjoint properties
  commute, up to prop_list order.
- **SnapshotFaithful** (NmRetrieve): when NM changed nothing during the
  reads, every managed device is reported as NM holds it: the profile name
  of a renamed saved profile, a veth under ethernet, an external
  activation without a profile.
- **RoundTrip** (NmDbusSetting): routing rules written back carry every
  key NM sent, unknown keys and every action code included.
- **WriteBackLossless**: a veth, ipvlan or 802.1X setting written back is
  exactly what NM sent, overridden by the secrets and certificate set.
- **CaCertPathRoundTrip**: a certificate path set by nmstate is read back
  as the same path.
- **VpnTypeOK**, **PskIsLastGiven** (NmVpnSetting): NM's stored secrets
  hold exactly the psk the user last gave, never the placeholder, across
  applies that show the placeholder.

Every property of a passing run has a mutant in `PROJECT.json`: one mapped
definition replaced by a plausible bug, under which TLC finds the
property violated. The bugs:
- a UUID deleted without being collected;
- a case-sensitive MAC match (breaks the refinement);
- `is_mptcp_flags_changed` left out;
- every change taken for a deactivate-first trigger;
- a pvid taken from a non-bridge controller;
- a missing protocol filter;
- `multipath.is_some()` instead of non-empty;
- the hop's `via` not overridden;
- `lock & RTAX_CWND` instead of `1 << RTAX_CWND`;
- the table check dropped, and `>=` instead of `>` at u8::MAX;
- `prop_list` appended without the `contains` check;
- a stray copy of `min_mtu` under the `mtu` key;
- the profile name taken from the UUID, or from the applied profile only;
- the active-connection read not advancing;
- known keys left in `_other`;
- the unreachable and prohibit action codes swapped;
- secrets filled regardless of their signature;
- an off-by-one in the `file://` prefix drain;
- the password placeholder stored as the psk;
- the global DNS fallback lost when storing to interfaces fails;
- the memory-only guard of `delete_exist_profiles` dropped.

## 4. Findings

1. **delete_orphan_ports matches controller UUIDs only** (apply.rs:383).
   `delete_ifaces` resolves a controller given by UUID or by name
   (287-298). The orphan pass does not. Its comment (line 371) reads "If any
   connection still referring to deleted UUID, we should delete it also",
   and it matches the deleted UUIDs only. An OVS port profile
   whose controller is the bridge's name outlives the deleted bridge.
2. **Deactivate-first compares with the saved profile** (apply.rs:143,
   71). Spec section 4.3 compares with the active profile. After an edit
   without reapply, a removed route is not detected, the profile is
   reapplied, and NM keeps the route. In the trace, `eth0`'s saved
   profile has lost route `r1`, which is still applied. The desired
   state removes `r1`; compared with the saved profile, nothing is
   removed, so no deactivate-first happens and the reapply keeps `r1`.
3. **Unknown address family is not dropped** (route.rs:116, 165). The
   route is kept with destination None; spec sections 4.2 and 8 say it is
   dropped.
4. **A running interface can be dropped from the report** (show.rs:110).
   Applied connections and devices are read in separate calls; a device
   activated in between has no applied connection and is skipped.
5. **A benign race fails retrieval with Bug** (active_connection.rs:102).
   Only the first read of an active connection tolerates its going away;
   a later Uuid or StateFlags read fails, and spec section 7 reserves
   `Bug` for contract violations.
6. **The NM version check is not lexicographic** (apply.rs:472).
   `check_nm_version` warns when `major < 1 || minor < 40`. NM 2.0 logs
   "Unsupported NetworkManager version 2.0, expecting >= 1.40", although
   by the text of its own message it is supported.
7. **Clearing an IP block through update() is ignored** (base.rs:65).
   `update` copies ipv4 (and ipv6) only when `other`'s block is present.
   An overlay whose `prop_list` names ipv4 with no value leaves the current
   block in place. Spec section 3 says a null-ish value in the touched set
   overwrites the current one. Section 4.4 says the other side's block
   otherwise replaces self's wholesale.

## 5. Bounds, fairness, what is not modelled

- **Bounds.**
  - NM profiles: ten for deletion, seven for reactivation, each chosen so
    that every branch of the loop and every trigger has a case.
  - Routes: nine candidates and all 512 kernel tables over them; at most
    one failed query per call; two changed routes, enough for "stop at the
    first error".
  - Overlays: chains of two, enough for idempotence and commutation.
  - `nm_apply`: every combination of the six inputs and seven version
    strings, and a failure at any call. That is every path through its
    branches.
  - NM events during retrieval: `MaxEvents = 3`, enough for an
    activation, a deactivation and a rename to fall between any two reads.
  - Vpn applies: `MaxApplies = 3`, enough for a key, a placeholder and a
    change of key or a configuration without one.
- **Fairness.** None is assumed, and no liveness property is checked.
  Every function modelled is a sequential loop over a finite snapshot, or
  a fixed sequence of blocking calls. Each ends by the shape of the code,
  so a termination property would only restate the model's shape. Each
  module ends in a terminal `Returned`/`Finished` step, so deadlock
  checking stays on.
- **Not modelled.**
  - the inside of the DNS stores, `delete_exist_profiles`,
    `delete_orphan_ovs_ports`, `perpare_nm_conns` and the dispatch script.
    They are outside `src/`, so `NmApply` takes each as one call that
    succeeds or fails. Whether a failing DNS store leaves part of its
    change behind cannot be read from this repository.
  - LLDP reads in `nm_retrieve` (every profile has LLDP off). The only
    consequence would be a failure when NM removes a device between
    `devices_get` and the read. What NM answers for a removed device
    object is outside `src/`, and no statement says retrieval must survive
    it.
  - `np_vrf_to_nmstate`, a copy and a sort.
- **Known and not checked.** Three cases are modelled but have no
  property, because neither the spec nor a comment says what the code
  should do there:
  - the narrowing of an out-of-range metric to None (route.rs:248);
  - a bridge port naming its controller by UUID (apply.rs:501);
  - the dropped error of the interface DNS purge (apply.rs:121);
  - one malformed routing rule failing the whole list (route_rule.rs:163).
    Spec section 7's log-and-drop rule is about the kernel-route
    normalizer, and section 6 leaves D-Bus (de)serialization to the
    adapters.

## 6. Plan

1. Extend the refinement to the whole of `nm_apply`: each desired
   profile stored and running, implemented by `NmApply` with
   `NmDeleteIfaces` and `NmReactivate` in place of its single calls.
2. Compose `NmRetrieve` with `NmDeleteIfaces`: the MAC and profile-name
   matches of the deletion pass rely on the `identifier` and
   `profile_name` that retrieval derives.
3. No module needs a liveness property: each loop runs over a finite
   snapshot, so it ends by the shape of the code.
