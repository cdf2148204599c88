----------------------------- MODULE NisporRoute -----------------------------
(***************************************************************************)
(* Route collection from the kernel: get_routes() of                       *)
(* src/rust/src/lib/nispor/route.rs and the conversions it calls.          *)
(*                                                                         *)
(* get_routes() asks nispor for the routes of one protocol at a time (the  *)
(* await is inside the loop, so the queries run one after the other); a   *)
(* failed query is logged and its routes are missing from the result.     *)
(* From the concatenated routes it builds the running view (all supported *)
(* protocols, skipped when running_config_only) and the config view (Boot *)
(* and Static only), flattening multipath routes, giving route-type routes *)
(* and plain unicast routes their own conversion, and dropping the rest.   *)
(***************************************************************************)
EXTENDS Integers, Sequences, SequencesExt, Bitwise, TLC

CONSTANTS
    Candidates,     \* kernel routes the host may hold (records with an id)
    MaxFailures,    \* bound on failed nispor queries in one get_routes()
    None

(* nispor enumerations.                                                    *)
SUPPORTED_ROUTE_SCOPE == {"universe", "link"}
SUPPORTED_ROUTE_PROTOCOL ==
    <<"boot", "static", "ra", "dhcp", "mrouted", "keepalived", "babel">>
SUPPORTED_STATIC_ROUTE_PROTOCOL == <<"boot", "static">>
RouteTypeKinds == {"blackhole", "unreachable", "prohibit"}

(* kernel value                                                            *)
RTAX_CWND == 7

IPV4_DEFAULT_GATEWAY == "0.0.0.0/0"
IPV6_DEFAULT_GATEWAY == "::/0"
IPV4_EMPTY_NEXT_HOP_ADDRESS == "0.0.0.0"
IPV6_EMPTY_NEXT_HOP_ADDRESS == "::"

VARIABLES
    runningConfigOnly,
    kernel,     \* the routes the kernel holds
    pending,    \* protocols not queried yet, in query order
    npRoutes,   \* np_routes: routes returned by the successful queries
    failed,     \* protocols whose query failed
    running,    \* ret.running: a sequence of RouteEntry, or None
    config,     \* ret.config
    phase

vars == <<runningConfigOnly, kernel, pending, npRoutes, failed, running,
          config, phase>>

-----------------------------------------------------------------------------
(* Conversions.  A RouteEntry carries, besides its fields, the id of the   *)
(* kernel route it came from (`from`), which the properties use.           *)

(* np_route.lock.unwrap_or(0) & (1 << RTAX_CWND) != 0                      *)
CwndLockNoShift(r) == ((IF r.lock = None THEN 0 ELSE r.lock) & RTAX_CWND) # 0
CwndLock(r) == ((IF r.lock = None THEN 0 ELSE r.lock) & 2^RTAX_CWND) # 0

Entry(r, dst, iface, via, rtype, weight) ==
    [from |-> r.id, dst |-> dst, iface |-> iface, via |-> via,
     table |-> r.table, rtype |-> rtype, weight |-> weight,
     cwnd |-> IF CwndLock(r) THEN r.cwnd ELSE None]

(* The destination, or the default route of the family, or None.          *)
Destination(r) ==
    IF r.dst # None THEN r.dst
    ELSE CASE r.family = "ipv4" -> IPV4_DEFAULT_GATEWAY
           [] r.family = "ipv6" -> IPV6_DEFAULT_GATEWAY
           [] OTHER             -> None

(* np_routetype_to_nmstate(): only IPv6 keeps the output interface.        *)
NpRoutetypeToNmstate(r) ==
    Entry(r, Destination(r), IF r.family = "ipv6" THEN r.oif ELSE None, None,
          r.type, None)

(* np_route_to_nmstate(): via, else gateway, else the empty address.       *)
NextHopAddr(r) ==
    IF r.via # None THEN r.via
    ELSE IF r.gateway # None THEN r.gateway
    ELSE CASE r.family = "ipv4" -> IPV4_EMPTY_NEXT_HOP_ADDRESS
           [] r.family = "ipv6" -> IPV6_EMPTY_NEXT_HOP_ADDRESS
           [] OTHER             -> None

NpRouteToNmstate(r) ==
    Entry(r, Destination(r), r.oif, NextHopAddr(r), None, None)

IsMultipathSome(r) == r.multipath # None
IsMultipath(r) == r.multipath # None /\ r.multipath # <<>>

FlatMultipathRouteKeepVia(r) ==
    [i \in 1..Len(r.multipath) |->
        LET hop == r.multipath[i]
            e   == NpRouteToNmstate([r EXCEPT !.oif = hop.iface])
        IN IF r.family = "ipv4" THEN [e EXCEPT !.weight = hop.weight] ELSE e]

(* flat_multipath_route(): one entry per next hop; IPv4 keeps the weight.  *)
FlatMultipathRoute(r) ==
    [i \in 1..Len(r.multipath) |->
        LET hop == r.multipath[i]
            e   == NpRouteToNmstate([r EXCEPT !.via = hop.via, !.oif = hop.iface])
        IN IF r.family = "ipv4" THEN [e EXCEPT !.weight = hop.weight] ELSE e]

(* The body of both loops of get_routes() for one route.                   *)
ConvertRoute(r) ==
    IF IsMultipath(r) THEN FlatMultipathRoute(r)
    ELSE IF r.type \in RouteTypeKinds THEN <<NpRoutetypeToNmstate(r)>>
    ELSE IF r.oif # None THEN <<NpRouteToNmstate(r)>>
    ELSE <<>>

InRunningScope(r) == r.scope \in SUPPORTED_ROUTE_SCOPE

InConfigScope(r) ==
    r.scope \in SUPPORTED_ROUTE_SCOPE
    /\ r.protocol \in ToSet(SUPPORTED_STATIC_ROUTE_PROTOCOL)

(* One loop: the concatenated conversions of the routes of rs in `keep`.   *)
ConvertAll(rs, keep) ==
    FlattenSeq([i \in 1..Len(rs) |->
                   IF rs[i] \in keep THEN ConvertRoute(rs[i]) ELSE <<>>])

(* A set of routes listed in the (fixed, arbitrary) order of the kernel.   *)
RECURSIVE KernelOrder(_)
KernelOrder(S) ==
    IF S = {} THEN <<>>
    ELSE LET r == CHOOSE x \in S : TRUE IN <<r>> \o KernelOrder(S \ {r})

(* Mutation of QueryResult: the protocol filter left unset.                *)
QueryResultNoFilter(p) == KernelOrder(kernel)

(* The routes one nispor query for a protocol returns, in kernel order.    *)
QueryResult(p) == KernelOrder({r \in kernel : r.protocol = p})

-----------------------------------------------------------------------------
IsRouteEntrySeq(s) ==
    /\ s \in Seq(UNION {Range(ConvertRoute(c)) : c \in Candidates})
    /\ \A i \in DOMAIN s : s[i].from \in {c.id : c \in Candidates}

TypeOK ==
    /\ runningConfigOnly \in BOOLEAN
    /\ kernel \subseteq Candidates
    /\ pending \in Seq(ToSet(SUPPORTED_ROUTE_PROTOCOL))
    /\ Range(npRoutes) \subseteq kernel /\ IsInjective(npRoutes)
    /\ failed \subseteq ToSet(SUPPORTED_ROUTE_PROTOCOL)
    /\ running = None \/ IsRouteEntrySeq(running)
    /\ IsRouteEntrySeq(config)
    /\ phase \in {"query", "done"}

Init ==
    /\ runningConfigOnly \in BOOLEAN
    /\ kernel \in SUBSET Candidates
    /\ pending = IF runningConfigOnly THEN SUPPORTED_STATIC_ROUTE_PROTOCOL
                 ELSE SUPPORTED_ROUTE_PROTOCOL
    /\ npRoutes = <<>>
    /\ failed = {}
    /\ running = None
    /\ config = <<>>
    /\ phase = "query"

(* NetState::retrieve_with_filter_async() for the next protocol succeeds.  *)
QueryOk ==
    /\ phase = "query"
    /\ pending # <<>>
    /\ npRoutes' = npRoutes \o QueryResult(Head(pending))
    /\ pending' = Tail(pending)
    /\ UNCHANGED <<runningConfigOnly, kernel, failed, running, config, phase>>

(* The query fails: log::warn! and go on with the next protocol.           *)
QueryFail ==
    /\ phase = "query"
    /\ pending # <<>>
    /\ Cardinality(failed) < MaxFailures
    /\ failed' = failed \cup {Head(pending)}
    /\ pending' = Tail(pending)
    /\ UNCHANGED <<runningConfigOnly, kernel, npRoutes, running, config, phase>>

(* The two loops after the queries: running view, then config view.        *)
Convert ==
    /\ phase = "query"
    /\ pending = <<>>
    /\ running' = IF runningConfigOnly THEN None
                  ELSE ConvertAll(npRoutes, {r \in kernel : InRunningScope(r)})
    /\ config' = ConvertAll(npRoutes, {r \in kernel : InConfigScope(r)})
    /\ phase' = "done"
    /\ UNCHANGED <<runningConfigOnly, kernel, pending, npRoutes, failed>>

(* get_routes() has returned.                                              *)
Returned ==
    /\ phase = "done"
    /\ UNCHANGED vars

Next == QueryOk \/ QueryFail \/ Convert \/ Returned

Spec == Init /\ [][Next]_vars

-----------------------------------------------------------------------------
(* Properties, stated from what Routes promises its callers.               *)

(* The kernel routes whose protocol was queried and answered.              *)
Collected(k) ==
    /\ k \in kernel
    /\ k.protocol \in ToSet(IF runningConfigOnly
                             THEN SUPPORTED_STATIC_ROUTE_PROTOCOL
                             ELSE SUPPORTED_ROUTE_PROTOCOL)
    /\ k.protocol \notin failed

(* How many flat routes a kernel route stands for: one per next hop of a   *)
(* non-empty multipath list, one for a blackhole/unreachable/prohibit      *)
(* route or a route out of an interface, none for a route without a        *)
(* destination whose address family is unknown.                            *)
ExpectedCount(k) ==
    IF k.dst = None /\ k.family \notin {"ipv4", "ipv6"} THEN 0
    ELSE IF k.multipath \notin {None, <<>>} THEN Len(k.multipath)
    ELSE IF k.type \in RouteTypeKinds \/ k.oif # None THEN 1
    ELSE 0

CountFrom(s, k) == Cardinality({i \in DOMAIN s : s[i].from = k.id})

(* Best-effort collection and protocol filtering: after get_routes() every *)
(* collected kernel route in an owned scope appears in the running view    *)
(* exactly as many times as it has flat routes, and in the config view     *)
(* only when its protocol is boot or static; a route whose protocol query  *)
(* failed, or which is outside the scope filter, appears in neither; the  *)
(* running view is absent exactly in running-config-only mode.             *)
ViewAccounting ==
    phase = "done" =>
        /\ (running = None) = runningConfigOnly
        /\ \A k \in Candidates :
            /\ CountFrom(config, k) =
                IF Collected(k) /\ k.scope \in {"universe", "link"}
                   /\ k.protocol \in {"boot", "static"}
                THEN ExpectedCount(k) ELSE 0
            /\ running # None =>
                CountFrom(running, k) =
                    IF Collected(k) /\ k.scope \in {"universe", "link"}
                    THEN ExpectedCount(k) ELSE 0

(* Multipath round trip: the flat routes made from one multipath route     *)
(* share its table and destination, and re-aggregating their next hops     *)
(* gives back its hop set, with the weight for IPv4 and none for IPv6.     *)
MultipathRoundTrip ==
    phase = "done" =>
        \A k \in Candidates, v \in {config} \cup (IF running = None THEN {} ELSE {running}) :
            k.multipath \notin {None, <<>>} /\ CountFrom(v, k) > 0 =>
                LET flat == {v[i] : i \in {j \in DOMAIN v : v[j].from = k.id}}
                IN /\ \A e \in flat : e.table = k.table /\ e.dst = Destination(k)
                   /\ {<<e.iface, e.via, e.weight>> : e \in flat} =
                      {<<h.iface, h.via,
                         IF k.family = "ipv4" THEN h.weight ELSE None>> :
                         h \in Range(k.multipath)}

(* Congestion window gating: a flat route carries the kernel's cwnd only   *)
(* when the route's lock bitfield has bit 0x80 set, and no cwnd otherwise. *)
CwndGating ==
    \A e \in Range(config) \cup (IF running = None THEN {} ELSE Range(running)) :
        LET k == CHOOSE c \in Candidates : c.id = e.from
        IN e.cwnd = IF k.lock # None /\ (k.lock \div 128) % 2 = 1
                    THEN k.cwnd ELSE None

=============================================================================
