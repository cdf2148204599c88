----------------------------- MODULE NmRouteRule -----------------------------
(***************************************************************************)
(* Routing-rule settings on the NetworkManager D-Bus boundary,            *)
(* src/rust/src/lib/nm/nm_dbus/connection/route_rule.rs: the rules of an   *)
(* ipv4/ipv6 setting arrive as an array of a{sv} dictionaries, are parsed  *)
(* into NmIpRouteRule (parse_nm_ip_rule_data(), TryFrom<DbusDictionary>),  *)
(* and are written back when a profile is updated (nm_ip_rules_to_value(), *)
(* to_value()).  Keys the struct does not know are kept in _other so that  *)
(* writing back does not lose them.  The operators of this module are used *)
(* by the state machine of NmDbusSetting.                                  *)
(*                                                                         *)
(* A D-Bus value is a record [t, v]: its signature letter and its value.   *)
(* A dictionary is a function from keys to values; the written form is a  *)
(* sequence of key/value pairs, as zvariant::Dict::append() builds it.     *)
(***************************************************************************)
EXTENDS Integers, Sequences, SequencesExt, FiniteSets, Functions, TLC

CONSTANTS
    None,
    Err         \* the NmError of a failed conversion

(* The struct fields in to_value() order, with the D-Bus key and the       *)
(* signature of the Rust type each is converted with.                      *)
RuleFields == <<"family", "priority", "from", "from-len", "to", "to-len",
            "table", "fwmark", "fwmask", "iifname", "action",
            "suppress-prefixlength">>
RuleKnownKeys == Range(RuleFields)
RuleKeyType ==
    ("family" :> "i") @@ ("priority" :> "u") @@ ("from" :> "s") @@
    ("from-len" :> "y") @@ ("to" :> "s") @@ ("to-len" :> "y") @@
    ("table" :> "u") @@ ("fwmark" :> "u") @@ ("fwmask" :> "u") @@
    ("iifname" :> "s") @@ ("action" :> "y") @@ ("suppress-prefixlength" :> "i")

RTN_BLACKHOLE == 6
RTN_UNREACHABLE == 7
RTN_PROHIBIT == 8

(* From<u8> for NmIpRouteRuleAction.                                       *)
ActionFromU8(v) ==
    CASE v = RTN_BLACKHOLE   -> "blackhole"
      [] v = RTN_UNREACHABLE -> "unreachable"
      [] v = RTN_PROHIBIT    -> "prohibit"
      [] OTHER               -> <<"other", v>>

(* From<NmIpRouteRuleAction> for u8, and a mutation of it.                  *)
U8FromActionSwapped(a) ==
    CASE a = "blackhole"   -> RTN_BLACKHOLE
      [] a = "unreachable" -> RTN_PROHIBIT
      [] a = "prohibit"    -> RTN_UNREACHABLE
      [] OTHER             -> a[2]

U8FromAction(a) ==
    CASE a = "blackhole"   -> RTN_BLACKHOLE
      [] a = "unreachable" -> RTN_UNREACHABLE
      [] a = "prohibit"    -> RTN_PROHIBIT
      [] OTHER             -> a[2]

(* _from_map!(v, key, T::try_from): None when the key is absent, Err when  *)
(* its value has another signature (zvariant's TryFrom is exact).          *)
RuleFromMap(d, k) ==
    IF k \notin DOMAIN d THEN None
    ELSE IF d[k].t # RuleKeyType[k] THEN Err
    ELSE IF k = "action" THEN ActionFromU8(d[k].v)
    ELSE d[k].v

(* NmIpRouteRule::try_from(): each known key removed from the dictionary  *)
(* and converted (the first failure is returned by `?`); what is left is  *)
(* _other.                                                                 *)
RuleTryFromDict(d) ==
    IF \E k \in RuleKnownKeys : RuleFromMap(d, k) = Err THEN Err
    ELSE [field |-> [k \in RuleKnownKeys |-> RuleFromMap(d, k)],
          other |-> Restrict(d, DOMAIN d \ RuleKnownKeys)]

(* The keys of a finite set in some fixed order (a HashMap iterates in an  *)
(* order of its own; the properties do not depend on it).                  *)
RECURSIVE KeyOrder(_)
KeyOrder(S) ==
    IF S = {} THEN <<>>
    ELSE LET k == CHOOSE x \in S : TRUE IN <<k>> \o KeyOrder(S \ {k})

(* NmIpRouteRule::to_value(): every present field under its key, with the  *)
(* signature of its type, then every entry of _other.                      *)
RuleToValue(r) ==
    LET present == SelectSeq(RuleFields, LAMBDA k : r.field[k] # None)
        others == KeyOrder(DOMAIN r.other)
    IN [i \in 1..Len(present) |->
          LET k == present[i] IN
          <<k, [t |-> RuleKeyType[k],
                v |-> IF k = "action" THEN U8FromAction(r.field[k])
                      ELSE r.field[k]]>>]
       \o [i \in 1..Len(others) |-> <<others[i], r.other[others[i]]>>]

(* parse_nm_ip_rule_data(): the rules in order, or the first error.        *)
ParseNmIpRuleData(ds) ==
    IF \E i \in DOMAIN ds : RuleTryFromDict(ds[i]) = Err THEN Err
    ELSE [i \in DOMAIN ds |-> RuleTryFromDict(ds[i])]

(* nm_ip_rules_to_value(): the array of the rules' dictionaries.           *)
NmIpRulesToValue(rs) == [i \in DOMAIN rs |-> RuleToValue(rs[i])]

(* A written dictionary read back by NetworkManager: its pairs as a       *)
(* function (NM's parser keeps one value per key).                         *)
AsDict(pairs) ==
    [k \in {pairs[i][1] : i \in DOMAIN pairs} |->
        pairs[CHOOSE i \in DOMAIN pairs : pairs[i][1] = k][2]]
=============================================================================
