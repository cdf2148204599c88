--------------------------- MODULE BaseIfaceUpdate ---------------------------
(***************************************************************************)
(* BaseInterface::update() of src/rust/src/lib/query_apply/base.rs: the    *)
(* overlay of one interface record onto another, steered by prop_list,     *)
(* the list of property names the overlaid record set explicitly.          *)
(*                                                                         *)
(* A record keeps the properties whose handling differs in the code:       *)
(* iface_type (not copied when Unknown), mtu and min_mtu (plain copies),   *)
(* ipv4 (an optional nested block with its own overlay) and prop_list.     *)
(* The other plain copies of update() (name, state, mac_address, ...)      *)
(* behave as mtu does.                                                     *)
(*                                                                         *)
(* The model is a chain of overlays: starting from a record as retrieval   *)
(* or an earlier merge left it, update() is applied with overlays drawn    *)
(* from a bounded set, up to MaxChain times.                               *)
(***************************************************************************)
EXTENDS Integers, Sequences, SequencesExt, TLC

CONSTANTS
    Bases,      \* records update() may be called on
    Overlays,   \* records update() may be given as `other`
    MaxChain,   \* bound on the number of update() calls in one chain
    None

Unknown == "unknown"

VARIABLES
    prev,       \* the record before the last update() (None at the start)
    last,       \* the last `other` applied (None at the start)
    iface,      \* self
    chain       \* number of update() calls so far

vars == <<prev, last, iface, chain>>

Touched(o, p) == p \in Range(o.prop_list)

(* Ipv4 overlay of both blocks present, IpConfig::update(): the same       *)
(* touched-set rule on the block's own properties.                         *)
UpdateIp(s, o) ==
    [dhcp  |-> IF "dhcp" \in o.props THEN o.dhcp ELSE s.dhcp,
     props |-> s.props \cup o.props]

(* The trailing loop: append the names of `other` not yet in self.         *)
MergePropListNoDedup(s, o) == s.prop_list \o o.prop_list

MergePropList(s, o) ==
    s.prop_list \o SelectSeq(o.prop_list, LAMBDA p : ~Touched(s, p))

(* ipv4: recurse when both present, take other's when self has none, and *)
(* leave self alone when other's is None.                                  *)
UpdateIpv4(s, o) ==
    IF Touched(o, "ipv4") /\ o.ipv4 # None
    THEN IF s.ipv4 # None THEN UpdateIp(s.ipv4, o.ipv4) ELSE o.ipv4
    ELSE s.ipv4

UpdateCopyPaste(s, o) ==
    [iface_type |-> IF Touched(o, "iface_type") /\ o.iface_type # Unknown
                    THEN o.iface_type ELSE s.iface_type,
     mtu        |-> IF Touched(o, "mtu") THEN o.mtu ELSE s.mtu,
     min_mtu    |-> IF Touched(o, "min_mtu") \/ Touched(o, "mtu")
                    THEN o.min_mtu ELSE s.min_mtu,
     ipv4       |-> UpdateIpv4(s, o),
     prop_list  |-> MergePropList(s, o)]

Update(s, o) ==
    [iface_type |-> IF Touched(o, "iface_type") /\ o.iface_type # Unknown
                    THEN o.iface_type ELSE s.iface_type,
     mtu        |-> IF Touched(o, "mtu") THEN o.mtu ELSE s.mtu,
     min_mtu    |-> IF Touched(o, "min_mtu") THEN o.min_mtu ELSE s.min_mtu,
     ipv4       |-> UpdateIpv4(s, o),
     prop_list  |-> MergePropList(s, o)]

-----------------------------------------------------------------------------
TypeOK ==
    /\ iface.prop_list \in Seq({"iface_type", "mtu", "min_mtu", "ipv4"})
    /\ IsInjective(iface.prop_list)
    /\ DOMAIN iface = {"iface_type", "mtu", "min_mtu", "ipv4", "prop_list"}
    /\ last \in Overlays \cup {None}
    /\ chain \in 0..MaxChain

Init ==
    /\ iface \in Bases
    /\ prev = None
    /\ last = None
    /\ chain = 0

(* self.update(other) for some `other`.                                    *)
UpdateStep ==
    /\ chain < MaxChain
    /\ \E o \in Overlays :
        /\ iface' = Update(iface, o)
        /\ prev' = iface
        /\ last' = o
    /\ chain' = chain + 1

(* The chain ends: the merged record is used.                              *)
Done ==
    /\ chain = MaxChain
    /\ UNCHANGED vars

Next == UpdateStep \/ Done

Spec == Init /\ [][Next]_vars

-----------------------------------------------------------------------------
(* A record with prop_list read as a set, as the touched-set contract does. *)
AsSet(r) == [r EXCEPT !.prop_list = Range(@)]

(* Overlay idempotence: overlaying the same record again right after it    *)
(* was applied changes nothing, prop_list order and length included (the   *)
(* contains() check of the trailing loop keeps names from repeating).      *)
OverlayIdempotent ==
    last # None => Update(iface, last) = iface

(* Disjoint overlays commute: when `last` and another overlay touch        *)
(* disjoint properties, applying them to the previous record in either     *)
(* order gives the same record, up to the order of prop_list.              *)
DisjointOverlaysCommute ==
    last # None =>
        \A z \in Overlays :
            Range(z.prop_list) \cap Range(last.prop_list) = {} =>
                AsSet(Update(iface, z)) = AsSet(Update(Update(prev, z), last))

(* What the overlaid record explicitly set wins (spec sections 3 and 4.4): *)
(* after update(), every property `other` touched holds other's value,     *)
(* None included, since None there means "explicitly cleared"; iface_type *)
(* is exempt when other's is Unknown, and an ipv4 block is merged rather   *)
(* than replaced when both records carry one.                              *)
TouchedValuesWin ==
    last # None =>
        \A p \in Range(last.prop_list) :
            /\ p = "iface_type" /\ last.iface_type = Unknown => iface.iface_type = prev.iface_type
            /\ ~(p = "iface_type" /\ last.iface_type = Unknown)
               /\ ~(p = "ipv4" /\ prev.ipv4 # None /\ last.ipv4 # None)
               => iface[p] = last[p]

=============================================================================
