---------------------------- MODULE NmVpnSetting -----------------------------
(***************************************************************************)
(* The vpn setting of an IPsec profile, src/rust/src/lib/nm/settings/      *)
(* vpn.rs: gen_nm_ipsec_vpn_setting() rebuilds nm_conn.vpn from the        *)
(* libreswan configuration of the desired IpsecInterface, every option     *)
(* formatted into the string map `data`, and the pre-shared key put in     *)
(* `secrets`, or, when the desired state carries the placeholder that      *)
(* nmstate shows instead of a password, taken over from the secrets the    *)
(* profile already has.                                                    *)
(*                                                                         *)
(* The module follows the vpn setting NM stores across a sequence of       *)
(* applies, each of which hands gen_nm_ipsec_vpn_setting() the stored      *)
(* profile (secrets included) to update.                                   *)
(***************************************************************************)
EXTENDS Integers, Sequences, FiniteSets, Functions, TLC

CONSTANTS
    Confs,                      \* libreswan configurations, or None
    PASSWORD_HID_BY_NMSTATE,    \* NetworkState's password placeholder
    MaxApplies,                 \* bound on the applies of one behaviour
    None

SERVICE_TYPE_LIBRESWAN == "org.freedesktop.NetworkManager.libreswan"

(* The data key of each LibreswanConfig field that is copied when set.     *)
VpnDataKey ==
    [f \in {"right", "rightid", "rightrsasigkey", "rightcert", "left",
            "leftid", "leftrsasigkey", "leftcert", "ikev2", "ikelifetime",
            "salifetime", "ike", "esp", "dpddelay", "dpdtimeout",
            "dpdaction", "authby", "leftmodecfgclient", "rightsubnet",
            "leftsubnet", "clientaddrfamily", "hostaddrfamily"} |-> f]
    @@ ("ipsec_interface" :> "ipsec-interface") @@ ("kind" :> "type")
    @@ ("require_id_on_certificate" :> "require-id-on-certificate")

BoolFields == {"leftmodecfgclient", "require_id_on_certificate"}
U64Fields == {"dpddelay", "dpdtimeout"}

(* u64::to_string(): the decimal digits.                                   *)
Digit(d) == CASE d = 0 -> "0" [] d = 1 -> "1" [] d = 2 -> "2" [] d = 3 -> "3"
              [] d = 4 -> "4" [] d = 5 -> "5" [] d = 6 -> "6" [] d = 7 -> "7"
              [] d = 8 -> "8" [] d = 9 -> "9"
RECURSIVE Decimal(_)
Decimal(n) == IF n < 10 THEN Digit(n) ELSE Decimal(n \div 10) \o Digit(n % 10)

(* The string stored for a field: "yes"/"no" for a bool, the decimal form *)
(* of a number, the string itself (or the enum's Display) otherwise.       *)
VpnValue(f, v) ==
    IF f \in BoolFields THEN IF v THEN "yes" ELSE "no"
    ELSE IF f \in U64Fields THEN Decimal(v)
    ELSE v

(* vpn_data: one entry per field that is set.                              *)
VpnData(conf) ==
    LET set == {f \in DOMAIN VpnDataKey : conf[f] # None}
    IN [k \in {VpnDataKey[f] : f \in set} |->
          LET f == CHOOSE g \in set : VpnDataKey[g] = k IN VpnValue(f, conf[f])]

(* Mutation of VpnSecrets: the placeholder check left out.                 *)
VpnSecretsNoHidCheck(conf, vpn) ==
    IF conf.psk = None THEN None ELSE "pskvalue" :> conf.psk

(* nm_vpn_set.secrets: none without a psk; for the placeholder, the        *)
(* secrets of the vpn setting nm_conn already has; else the psk.           *)
VpnSecrets(conf, vpn) ==
    CASE conf.psk = None                    -> None
      [] conf.psk = PASSWORD_HID_BY_NMSTATE -> IF vpn = None THEN None
                                               ELSE vpn.secrets
      [] OTHER                              -> "pskvalue" :> conf.psk

(* gen_nm_ipsec_vpn_setting(): nm_conn.vpn replaced by a new setting when  *)
(* the interface has a libreswan configuration, left alone otherwise.      *)
GenNmIpsecVpnSetting(conf, vpn) ==
    IF conf = None THEN vpn
    ELSE [data         |-> VpnData(conf),
          service_type |-> SERVICE_TYPE_LIBRESWAN,
          secrets      |-> VpnSecrets(conf, vpn)]

-----------------------------------------------------------------------------
VARIABLES
    stored,     \* the vpn setting of the profile NM holds, or None
    lastPsk,    \* the pre-shared key the user last gave, or None
    applies

vpnVars == <<stored, lastPsk, applies>>

(* The stored secrets hold at most a pre-shared key, never the            *)
(* placeholder.                                                            *)
VpnTypeOK ==
    /\ applies \in 0..MaxApplies
    /\ stored # None =>
          /\ stored.service_type = SERVICE_TYPE_LIBRESWAN
          /\ stored.secrets # None =>
                /\ DOMAIN stored.secrets = {"pskvalue"}
                /\ stored.secrets["pskvalue"] # PASSWORD_HID_BY_NMSTATE

VpnInit ==
    /\ stored = None
    /\ lastPsk = None
    /\ applies = 0

(* One apply of a desired IpsecInterface: the profile is regenerated from  *)
(* the stored one and saved.                                               *)
Apply ==
    /\ applies < MaxApplies
    /\ \E c \in Confs :
        /\ stored' = GenNmIpsecVpnSetting(c, stored)
        /\ lastPsk' = IF c = None \/ c.psk = PASSWORD_HID_BY_NMSTATE
                      THEN lastPsk ELSE c.psk
    /\ applies' = applies + 1

(* No more applies.                                                        *)
VpnDone ==
    /\ applies = MaxApplies
    /\ UNCHANGED vpnVars

VpnNext == Apply \/ VpnDone

VpnSpec == VpnInit /\ [][VpnNext]_vpnVars

-----------------------------------------------------------------------------
(* The secret survives a round trip through the shown state: after any     *)
(* sequence of applies, some of them with the password placeholder nmstate *)
(* shows, NM holds exactly the pre-shared key the user last gave (none     *)
(* once a configuration without one was applied).                          *)
PskIsLastGiven ==
    stored # None =>
        IF lastPsk = None THEN stored.secrets = None
        ELSE stored.secrets = ("pskvalue" :> lastPsk)
=============================================================================
