--------------------------- MODULE MCNmDbusSetting --------------------------
(***************************************************************************)
(* For each of the three settings, dictionaries over a few keys, each     *)
(* absent, of its own signature or of a wrong one, plus a key NM adds that *)
(* the struct does not know.  GetSettings never returns secrets, so the    *)
(* input dictionaries hold none; the secrets dictionaries hold a password  *)
(* of the right or of a wrong signature.  A ca-cert holds a path, or a raw *)
(* certificate blob (not UTF-8).                                           *)
(*                                                                         *)
(* The run also follows the vpn setting of an IPsec profile over up to     *)
(* MaxApplies applies (NmVpnSetting): a behaviour is either one setting    *)
(* read and written back (op = "dict") or a sequence of applies            *)
(* (op = "vpn"); the other part stays at an initial state of its own.      *)
(*                                                                         *)
(* The same run carries the two directions of nispor/route.rs, as set out  *)
(* in MCNisporRoute (op = "get" and op = "gen"), so that the D-Bus        *)
(* settings the NM backend writes and the routes the nispor backend reads  *)
(* and writes are checked together.                                        *)
(***************************************************************************)
EXTENDS NmDbusSetting

CONSTANTS
    Confs,
    PASSWORD_HID_BY_NMSTATE,
    MaxApplies,
    Candidates,
    MaxFailures,
    MaxChanged,
    U32Max

VARIABLES
    op,
    stored, lastPsk, applies,
    runningConfigOnly, kernel, pending, npRoutes, failed, running, config,
    npPhase,
    changed, i, confs, result

Vpn == INSTANCE NmVpnSetting

V(t, v) == [t |-> t, v |-> v]

Present(c) == [k \in {x \in DOMAIN c : c[x] # None} |-> c[k]]

Unknown == {None, V("s", "kept")}

MCInputs ==
    ("veth" :>
        {Present(("peer" :> a) @@ ("x-new" :> z)) :
            a \in {None, V("s", "veth1"), V("u", 1)}, z \in Unknown}) @@
    ("ipvlan" :>
        {Present(("parent" :> a) @@ ("mode" :> b) @@ ("private" :> c)
                 @@ ("x-new" :> z)) :
            a \in {None, V("s", "eth0")}, b \in {None, V("u", 2), V("s", "l2")},
            c \in {None, V("b", TRUE)}, z \in Unknown}) @@
    ("802-1x" :>
        {Present(("identity" :> a) @@ ("eap" :> b) @@ ("ca-cert" :> c)
                 @@ ("x-new" :> z)) :
            a \in {None, V("s", "alice")}, b \in {None, V("as", <<"tls">>), V("s", "tls")},
            c \in {None, V("ay", <<"f", "i", "l", "e", ":", "/", "/", "c", "NUL">>),
                   V("ay", <<"b", "xFF">>)},
            z \in Unknown})

MCSecretInputs ==
    {<<>>, ("password" :> V("s", "pw")), ("password" :> V("ay", <<"p">>)),
     ("private-key-password" :> V("s", "k")) @@ ("password" :> V("s", "pw"))}

MCPaths == {<<>>, <<"c">>, <<"/", "c">>, <<"f", "/">>}

(* Routing rules: dictionaries over a few keys, each absent, of its own    *)
(* signature or of a wrong one; the action takes the three named codes, a *)
(* neighbour and the u8 bounds; one key is unknown to the struct.  The    *)
(* values each key may carry, None standing for "absent":                  *)
RuleKeyValues ==
    ("family"   :> {None, V("i", 2), V("i", 10), V("u", 2)}) @@
    ("priority" :> {None, V("u", 100)}) @@
    ("from"     :> {None, V("s", "192.0.2.0")}) @@
    ("from-len" :> {None, V("y", 24), V("u", 24)}) @@
    ("action"   :> {None, V("y", 0), V("y", 6), V("y", 7), V("y", 8),
                    V("y", 9), V("y", 255), V("u", 7)}) @@
    ("x-nm-new" :> {None, V("s", "kept"), V("u", 1)})

RuleDicts ==
    {Present(("family" :> a) @@ ("priority" :> b) @@ ("from" :> c) @@
             ("from-len" :> d) @@ ("action" :> e) @@ ("x-nm-new" :> f)) :
        a \in RuleKeyValues["family"], b \in RuleKeyValues["priority"],
        c \in RuleKeyValues["from"], d \in RuleKeyValues["from-len"],
        e \in RuleKeyValues["action"], f \in RuleKeyValues["x-nm-new"]}

(* One rule of any shape, or two rules over priority, from and action.    *)
MCRuleInputs ==
    {<<d>> : d \in RuleDicts} \cup
    {<<d1, d2>> : d1, d2 \in {d \in RuleDicts : "family" \notin DOMAIN d
                                         /\ "from-len" \notin DOMAIN d
                                         /\ "x-nm-new" \notin DOMAIN d}}

(* Libreswan configurations: a psk absent, hidden or one of two keys, with *)
(* and without a dpddelay; or an interface without libreswan.              *)
(* The field names, from an instance that does not depend on Confs.      *)
VpnFields == INSTANCE NmVpnSetting WITH Confs <- {}
Conf(o) == [f \in DOMAIN VpnFields!VpnDataKey \cup {"psk"} |-> IF f \in DOMAIN o THEN o[f] ELSE None]
MCConfs ==
    {None} \cup
    {Conf(("right" :> "192.0.2.9") @@ ("psk" :> p) @@ ("dpddelay" :> d)
          @@ ("leftmodecfgclient" :> TRUE)) :
        p \in {None, PASSWORD_HID_BY_NMSTATE, "s1", "s2"}, d \in {None, 30}}

(* The route runs of nispor/route.rs; their kernel routes are read from an *)
(* instance that does not depend on Candidates.                           *)
Np == INSTANCE MCNisporRoute WITH phase <- npPhase
NpDefs == INSTANCE MCNisporRoute WITH phase <- npPhase, Candidates <- {}
MCCandidates == NpDefs!MCCandidates
MCCandidatesOtherFamily == NpDefs!MCCandidatesOtherFamily

vpnVars == <<stored, lastPsk, applies>>
npVars == <<runningConfigOnly, kernel, pending, npRoutes, failed, running,
            config, npPhase, changed, i, confs, result>>
allVars == <<op, vars, vpnVars, npVars>>

(* The route functions have not run: no kernel route, nothing changed.    *)
RoutesIdle ==
    /\ runningConfigOnly = FALSE /\ kernel = {}
    /\ pending = Np!SUPPORTED_ROUTE_PROTOCOL
    /\ npRoutes = <<>> /\ failed = {} /\ running = None /\ config = <<>>
    /\ npPhase = "query"
    /\ changed = <<>> /\ i = 0 /\ confs = <<>> /\ result = None

(* No setting has been read: an empty veth dictionary, and no vpn apply.  *)
SettingsIdle ==
    /\ Init /\ setting = "veth" /\ input = <<>>
    /\ Vpn!VpnInit

BothInit ==
    \/ /\ op = "dict"
       /\ Init
       /\ Vpn!VpnInit
       /\ RoutesIdle
    \/ /\ op = "vpn"
       /\ SettingsIdle
       /\ RoutesIdle
    \/ /\ Np!BothInit
       /\ SettingsIdle

BothNext ==
    \/ op = "dict" /\ Next /\ UNCHANGED <<op, vpnVars, npVars>>
    \/ op = "vpn" /\ Vpn!VpnNext /\ UNCHANGED <<op, vars, npVars>>
    \/ Np!BothNext /\ UNCHANGED <<vars, vpnVars>>

BothSpec == BothInit /\ [][BothNext]_allVars

(* See NmVpnSetting.                                                       *)
VpnTypeOK == Vpn!VpnTypeOK

(* NM holds exactly the pre-shared key the user last gave, across applies *)
(* that carry the password placeholder nmstate shows.                      *)
PskIsLastGiven == Vpn!PskIsLastGiven

(* The properties of the route functions, see NisporRoute, NisporRouteConf *)
(* and MCNisporRoute.                                                      *)
RouteTypeOK == Np!TypeOK

(* Each kernel route appears in each view exactly as often as it has flat  *)
(* routes, and only when its query succeeded and it passes the filters.   *)
ViewAccounting == Np!ViewAccounting

(* Re-aggregating the flat routes of a multipath route gives its hop set.  *)
MultipathRoundTrip == Np!MultipathRoundTrip

(* cwnd is reported exactly when the lock bitfield has the cwnd bit.       *)
CwndGating == Np!CwndGating

(* See NisporRouteConf.                                                    *)
ConfTypeOK == Np!ConfTypeOK

(* gen_nispor_route_confs() succeeds exactly when every changed route is  *)
(* expressible, and never clamps a table id.                               *)
RejectNotClamp == Np!RejectNotClamp
=============================================================================
