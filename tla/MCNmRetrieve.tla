---------------------------- MODULE MCNmRetrieve ----------------------------
(***************************************************************************)
(* One host: eth0 (two profiles, one named after the interface), veth0     *)
(* (an ethernet profile), an OVS interface ovs0 with its netdev tun twin,  *)
(* a generic loopback, libreswan's ip_vti0, a dummy that is not real, an   *)
(* OVS port device, and an unmanaged wireguard device.  NM acts only on    *)
(* eth0 and veth0; the others keep their state.                            *)
(***************************************************************************)
EXTENDS NmRetrieve

MCDevices == {"eth0", "veth0", "ovs0", "ovs0-tun", "lo", "vti", "dummy9", "p0", "wg0"}

MCDevName ==
    [d \in MCDevices |-> CASE d = "ovs0-tun" -> "ovs0"
                           [] d = "vti" -> "ip_vti0"
                           [] OTHER -> d]

MCDevType ==
    ("eth0" :> "ethernet") @@ ("veth0" :> "veth") @@ ("ovs0" :> "ovs-interface")
    @@ ("ovs0-tun" :> "tun") @@ ("lo" :> "generic") @@ ("vti" :> "generic")
    @@ ("dummy9" :> "dummy") @@ ("p0" :> "ovs-port") @@ ("wg0" :> "wireguard")

MCDevReal == [d \in MCDevices |-> d # "dummy9"]

MCDevMac == [d \in MCDevices |-> IF d \in {"lo", "vti"} THEN "" ELSE "mac"]

MCManaged == {"eth0", "veth0"}

MCProfiles == {"pA", "pB", "pV", "pO"}

MCProfIface == ("pA" :> "eth0") @@ ("pB" :> "eth0") @@ ("pV" :> "veth0") @@ ("pO" :> "ovs0")

MCProfType == ("pA" :> "ethernet") @@ ("pB" :> "ethernet") @@ ("pV" :> "ethernet")
              @@ ("pO" :> "ovs-interface")

MCInitSavedId == ("pA" :> "eth0") @@ ("pB" :> "office") @@ ("pV" :> "veth0") @@ ("pO" :> "ovs0")

MCInitDevState ==
    ("eth0" :> "activated") @@ ("veth0" :> "disconnected") @@ ("ovs0" :> "activated")
    @@ ("ovs0-tun" :> "activated") @@ ("lo" :> "unmanaged") @@ ("vti" :> "unmanaged")
    @@ ("dummy9" :> "unmanaged") @@ ("p0" :> "disconnected") @@ ("wg0" :> "unmanaged")

MCInitAc == [d \in MCDevices |-> CASE d = "eth0" -> "pA"
                                   [] d = "ovs0" -> "pO"
                                   [] OTHER -> None]
=============================================================================
