------------------------- MODULE MCNmDeleteIfaces -------------------------
(***************************************************************************)
(* One host for the deletion pass: an OVS bridge br0 with port p0 and      *)
(* internal interface ovs0, a second OVS interface ovs1 whose port         *)
(* profile no longer exists, a MAC-identified ethernet eth1 with a second  *)
(* profile bound to its MAC in the other letter case, an interface known   *)
(* only by its profile name wan, a bond0 with port eth2 (type unknown to   *)
(* the merged state), and an IPsec connection vpn0.                        *)
(***************************************************************************)
EXTENDS NmDeleteIfaces

P(iface, type, id, ctrl, ctrlType, mac) ==
    [iface |-> iface, type |-> type, id |-> id, ctrl |-> ctrl,
     ctrlType |-> ctrlType, mac |-> mac]

\* The OVS port profile names its bridge by UUID (as nmstate writes it) or
\* by interface name (as nmcli accepts it).
ConnsWith(p0Ctrl) ==
    ("u-br"    :> P("br0", "ovs-bridge", "br0", None, None, None)) @@
    ("u-p0"    :> P("p0", "ovs-port", "p0", p0Ctrl, "ovs-bridge", None)) @@
    ("u-ovs0"  :> P("ovs0", "ovs-interface", "ovs0", "u-p0", "ovs-port", None)) @@
    ("u-ovs1"  :> P("ovs1", "ovs-interface", "ovs1", "u-p1", "ovs-port", None)) @@
    ("u-eth1"  :> P("eth1", "ethernet", "eth1", None, None, "AA")) @@
    ("u-eth1b" :> P(None, "ethernet", "eth1-alt", None, None, "aa")) @@
    ("u-wan"   :> P(None, "ethernet", "wan", None, None, "BB")) @@
    ("u-bond"  :> P("bond0", "bond", "bond0", None, None, None)) @@
    ("u-eth2"  :> P("eth2", "ethernet", "eth2", "u-bond", "bond", None)) @@
    ("u-vpn"   :> P(None, "vpn", "vpn0", None, None, None))

MCNmConnUuidRef == ConnsWith("u-br")
MCNmConnNameRef == ConnsWith("br0")

MCUuids == DOMAIN MCNmConnUuidRef \cup {"u-p1"}

MCIfaces == {"br0", "ovs0", "ovs1", "eth1", "wan", "bond0", "eth2", "vpn0"}

MCIfaceType ==
    ("br0" :> "ovs-bridge") @@ ("ovs0" :> "ovs-interface") @@
    ("ovs1" :> "ovs-interface") @@ ("eth1" :> "ethernet") @@
    ("wan" :> "ethernet") @@ ("bond0" :> "bond") @@ ("eth2" :> "unknown") @@ ("vpn0" :> "ipsec")

Cur(name, identifier, profileName, mac) ==
    [name |-> name, identifier |-> identifier, profileName |-> profileName,
     mac |-> mac]

MCCurIface ==
    [a \in MCIfaces |->
        CASE a = "eth1" -> Cur("eth1", "mac", None, "AA")
          [] a = "wan"  -> Cur("eth3", "mac", "wan", "BB")
          [] a = "vpn0" -> NoIface
          [] OTHER      -> Cur(a, "name", None, None)]

MCVirtual == {"ovs0", "ovs1", "bond0"}

MCInitDevs == {<<"ovs0", "ovs-interface">>, <<"bond0", "bond">>}

=============================================================================
