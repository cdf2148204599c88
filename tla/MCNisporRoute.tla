--------------------------- MODULE MCNisporRoute ---------------------------
(* Kernel routes get_routes() may find: every combination of them is a     *)
(* possible kernel table.  They cover a default route, an empty and two    *)
(* non-empty multipath lists, route-type routes of both families, a route  *)
(* of a dynamic protocol, one outside the scope filter and one without an  *)
(* output interface, and lock bitfields with and without the cwnd bit.     *)
(*                                                                         *)
(* The two directions of route.rs in one run: a behaviour is either one    *)
(* get_routes() over such a kernel table (op = "get") or one               *)
(* gen_nispor_route_confs() over changed routes around the numeric edges   *)
(* of the narrowing, table ids 254, 255 and 256, metrics 0 and u32::MAX    *)
(* (scaled down, see U32Max), and one route with each feature the apply    *)
(* path does not support (op = "gen").  The other direction's variables    *)
(* stay at an initial state of theirs.                                     *)
EXTENDS NisporRoute

CONSTANTS
    MaxChanged,
    U32Max

Hop(iface, via, weight) == [iface |-> iface, via |-> via, weight |-> weight]

R(id, family, dst, scope, protocol, type, oif, gw, mp, lock, cwnd, table) ==
    [id |-> id, family |-> family, dst |-> dst, scope |-> scope,
     protocol |-> protocol, type |-> type, oif |-> oif, via |-> None,
     gateway |-> gw, multipath |-> mp, lock |-> lock, cwnd |-> cwnd,
     table |-> table]

MCCandidates == {
  R("c1", "ipv4", None, "universe", "static", "unicast", "eth0", "gw4",
    None, 128, 10, 254),
  R("c2", "ipv6", "d6", "link", "boot", "unicast", "eth0", None,
    <<>>, 3, 10, 254),
  R("c3", "ipv4", "d4", "universe", "dhcp", "unicast", "eth1", "gw4",
    None, None, None, 254),
  R("c4", "ipv4", "d4", "universe", "static", "unicast", None, None,
    <<Hop("eth0", "gwA", 1), Hop("eth1", "gwB", 2)>>, 384, 10, 100),
  R("c5", "ipv6", None, "universe", "ra", "unicast", None, None,
    <<Hop("eth0", "gw6a", 1), Hop("eth1", "gw6b", 1)>>, None, None, 254),
  R("c6", "ipv4", None, "universe", "static", "blackhole", None, None,
    None, 255, 20, 254),
  R("c7", "ipv4", "d4", "host", "static", "unicast", "eth0", None,
    None, None, None, 254),
  R("c8", "ipv4", "d4b", "universe", "static", "unicast", None, None,
    None, None, None, 254),
  R("c9", "ipv6", None, "universe", "boot", "unreachable", "eth0", None,
    None, 128, 10, 254)}

Rt(dst, table, metric, weight, rtype, cwnd) ==
    [absent |-> FALSE, dst |-> dst, iface |-> "eth1", via |-> "192.0.2.1",
     metric |-> metric, table |-> table, weight |-> weight,
     route_type |-> rtype, cwnd |-> cwnd]

MCRoutes ==
    {Rt("198.51.100.0/24", t, m, None, None, None) :
        t \in {None, 254, 255, 256}, m \in {None, 0, 100, U32Max}}
    \cup {Rt(None, 254, 100, 1, None, None),
          Rt("203.0.113.0/24", 254, None, None, "blackhole", None),
          Rt("203.0.113.0/24", 254, None, None, None, 10),
          [Rt("198.51.100.0/24", 254, 100, None, None, None) EXCEPT !.absent = TRUE]}

VARIABLES
    op,         \* which function the behaviour runs
    changed, i, confs, result

Gen == INSTANCE NisporRouteConf WITH Routes <- MCRoutes

genVars == <<changed, i, confs, result>>
allVars == <<op, vars, genVars>>

BothInit ==
    \/ /\ op = "get"
       /\ Init
       /\ Gen!Init /\ changed = <<>>
    \/ /\ op = "gen"
       /\ Init /\ kernel = {} /\ ~runningConfigOnly
       /\ Gen!Init

BothNext ==
    \/ op = "get" /\ Next /\ UNCHANGED <<op, genVars>>
    \/ op = "gen" /\ Gen!Next /\ UNCHANGED <<op, vars>>

BothSpec == BothInit /\ [][BothNext]_allVars

(* The properties of the outbound translation, see NisporRouteConf.        *)
ConfTypeOK == Gen!TypeOK

(* Reject, never clamp: gen_nispor_route_confs() succeeds exactly when     *)
(* every changed route is expressible and keeps each route's table,        *)
(* interface and next hop; when it fails, no later route was converted.    *)
RejectNotClamp == Gen!RejectNotClamp

(* A route of an address family that is neither IPv4 nor IPv6.             *)
MCCandidatesOtherFamily == MCCandidates \cup {
  R("c10", "other", None, "universe", "static", "unicast", "eth0", None,
    None, None, None, 254)}
=============================================================================
