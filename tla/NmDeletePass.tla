---------------------------- MODULE NmDeletePass ----------------------------
(***************************************************************************)
(* What the deletion pass of the NetworkManager backend promises, stated   *)
(* without its calls, snapshots or loops (spec section 4.3): while it      *)
(* runs, profiles and devices disappear one at a time, each of them one    *)
(* that goes with an absent interface (a virtual device also with a down   *)
(* one); the pass may fail at any point; and it returns Ok only once no    *)
(* profile an absent interface owns is left and no profile is left        *)
(* referring to one that was removed.                                      *)
(*                                                                         *)
(* Which profile goes with which interface is a parameter: NmDeleteIfaces  *)
(* instantiates it with the relations of the spec, and is checked to       *)
(* implement this specification.                                           *)
(***************************************************************************)
CONSTANTS
    Profiles,           \* the profiles NM holds when the pass starts
    Devices,            \* the NM devices present when the pass starts
    Ifaces,             \* the interfaces of the merged state
    Virtual,            \* the interfaces that are virtual
    DevIface(_),        \* the interface name of a device
    Owns(_, _),         \* Owns(u, a): profile u must go when a is absent
    BelongsTo(_, _),    \* BelongsTo(u, a): profile u may go when a is absent
    Cascades(_),        \* profile u may go with the profile it depends on
    Orphaned(_, _)      \* Orphaned(u, h): u refers to a removed profile and
                        \* to none of the profiles h

VARIABLES
    merged,     \* [Ifaces -> "keep" | "absent" | "down"]
    held,       \* the profiles NM still holds
    devices,    \* the devices NM still has
    outcome     \* "running", "ok" or "err"

avars == <<merged, held, devices, outcome>>

Absent == {a \in Ifaces : merged[a] = "absent"}

(* A profile the pass may remove, and one it must have removed.            *)
MayGo(u) == Cascades(u) \/ \E a \in Absent : BelongsTo(u, a)
MustGo(u) == \/ \E a \in Absent : Owns(u, a)
             \/ Orphaned(u, held)

(* A device the pass may remove: the kernel device of a virtual interface  *)
(* that is absent or down.                                                 *)
DevMayGo(d) ==
    /\ DevIface(d) \in Ifaces \cap Virtual
    /\ merged[DevIface(d)] \in {"absent", "down"}

AbsInit ==
    /\ merged \in [Ifaces -> {"keep", "absent", "down"}]
    /\ held = Profiles
    /\ devices = Devices
    /\ outcome = "running"

RemoveProfile(u) ==
    /\ outcome = "running"
    /\ u \in held
    /\ MayGo(u)
    /\ held' = held \ {u}
    /\ UNCHANGED <<merged, devices, outcome>>

RemoveDevice(d) ==
    /\ outcome = "running"
    /\ d \in devices
    /\ DevMayGo(d)
    /\ devices' = devices \ {d}
    /\ UNCHANGED <<merged, held, outcome>>

Fail ==
    /\ outcome = "running"
    /\ outcome' = "err"
    /\ UNCHANGED <<merged, held, devices>>

Succeed ==
    /\ outcome = "running"
    /\ \A u \in held : ~MustGo(u)
    /\ outcome' = "ok"
    /\ UNCHANGED <<merged, held, devices>>

AbsNext ==
    \/ \E u \in Profiles : RemoveProfile(u)
    \/ \E d \in Devices : RemoveDevice(d)
    \/ Fail
    \/ Succeed

AbsSpec == AbsInit /\ [][AbsNext]_avars
=============================================================================
