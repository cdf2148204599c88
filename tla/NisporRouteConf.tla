--------------------------- MODULE NisporRouteConf ---------------------------
(***************************************************************************)
(* Outbound route translation of src/rust/src/lib/nispor/route.rs:        *)
(* gen_nispor_route_confs() turns the changed routes of MergedRoutes into *)
(* nispor RouteConf values with nmstate_to_nispor_route_conf(), stopping  *)
(* at the first route it cannot express (the `?` in the loop).            *)
(*                                                                         *)
(* Integer fields keep their width: table_id is a u32 narrowed to u8,      *)
(* metric an i64 narrowed to u32.  TLC's integers are 32-bit, so the       *)
(* largest u32 is the constant U32Max, which a model may scale down: only  *)
(* the comparisons against it matter.                                      *)
(***************************************************************************)
EXTENDS Integers, Sequences, SequencesExt, TLC

CONSTANTS
    Routes,     \* RouteEntry values a desired state may hold
    MaxChanged, \* bound on the number of changed routes
    U32Max,     \* u32::MAX
    None

U8_MAX == 2^8 - 1

VARIABLES
    changed,    \* merged_routes.changed_routes
    i,          \* routes converted so far
    confs,      \* ret: the RouteConf values built so far
    result      \* None while running, then "ok" or an error kind

vars == <<changed, i, confs, result>>

(* u32::try_from(m).ok()                                                   *)
MetricToU32(m) == IF m # None /\ 0 <= m /\ m <= U32Max THEN m ELSE None

(* The checks of nmstate_to_nispor_route_conf(), in order, as the error    *)
(* they raise, or None when the route converts.                            *)
ConfErrorOffByOne(r) ==
    IF r.table # None /\ r.table >= U8_MAX THEN "NotImplementedError"
    ELSE IF r.weight # None \/ r.route_type # None \/ r.cwnd # None
         THEN "NotImplementedError"
    ELSE None

ConfErrorNoTableCheck(r) ==
    IF r.weight # None \/ r.route_type # None \/ r.cwnd # None
    THEN "NotImplementedError"
    ELSE None

ConfError(r) ==
    IF r.table # None /\ r.table > U8_MAX THEN "NotImplementedError"
    ELSE IF r.weight # None \/ r.route_type # None \/ r.cwnd # None
         THEN "NotImplementedError"
    ELSE None

NmstateToNisporRouteConf(r) ==
    [remove |-> r.absent,
     dst    |-> IF r.dst = None THEN "" ELSE r.dst,
     oif    |-> r.iface,
     via    |-> r.via,
     metric |-> MetricToU32(r.metric),
     table  |-> r.table]

-----------------------------------------------------------------------------
TypeOK ==
    /\ changed \in Seq(Routes)
    /\ i \in 0..Len(changed)
    /\ confs \in Seq([remove : BOOLEAN, dst : STRING \cup {""},
                      oif : STRING \cup {None}, via : STRING \cup {None},
                      metric : (0..U32Max) \cup {None},
                      table : (0..U8_MAX) \cup {None}])
    /\ result \in {None, "ok", "NotImplementedError"}

Init ==
    /\ changed \in UNION {[1..n -> Routes] : n \in 0..MaxChanged}
    /\ i = 0
    /\ confs = <<>>
    /\ result = None

(* One iteration: ret.push(nmstate_to_nispor_route_conf(nmstate_rt)?).     *)
ConvertNext ==
    /\ result = None
    /\ i < Len(changed)
    /\ LET r == changed[i + 1] IN
        IF ConfError(r) # None
        THEN /\ result' = ConfError(r)
             /\ UNCHANGED <<i, confs>>
        ELSE /\ confs' = Append(confs, NmstateToNisporRouteConf(r))
             /\ i' = i + 1
             /\ UNCHANGED result
    /\ UNCHANGED changed

(* The loop ends: Ok(ret).                                                 *)
Finish ==
    /\ result = None
    /\ i = Len(changed)
    /\ result' = "ok"
    /\ UNCHANGED <<changed, i, confs>>

(* gen_nispor_route_confs() has returned.                                  *)
Returned ==
    /\ result # None
    /\ UNCHANGED vars

Next == ConvertNext \/ Finish \/ Returned

Spec == Init /\ [][Next]_vars

-----------------------------------------------------------------------------
(* What the apply path can express: a table id that fits the backend's     *)
(* range (at most 255) and no weight, route kind or congestion window.     *)
Expressible(r) ==
    /\ r.table = None \/ r.table \in 0..255
    /\ r.weight = None /\ r.route_type = None /\ r.cwnd = None

(* Reject, never clamp: gen_nispor_route_confs() succeeds exactly when     *)
(* every changed route is expressible, and then hands nispor one conf per  *)
(* route, in order, with the route's own table id, interface and next   *)
(* hop; when it fails, no route after the offending one was converted.  *)
RejectNotClamp ==
    /\ result = "ok" =>
        /\ \A k \in DOMAIN changed : Expressible(changed[k])
        /\ Len(confs) = Len(changed)
        /\ \A k \in DOMAIN changed :
            /\ confs[k].table = changed[k].table
            /\ confs[k].oif = changed[k].iface
            /\ confs[k].via = changed[k].via
    /\ result = "NotImplementedError" =>
        /\ ~Expressible(changed[i + 1])
        /\ \A k \in 1..i : Expressible(changed[k])

=============================================================================
