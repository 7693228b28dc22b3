---------------------------- MODULE SystemdUnits ----------------------------
(***************************************************************************)
(* The part of systemd that ResMan's property-lease adapter talks to:      *)
(* user slices, their normalised D-Bus properties, the mutable unit files  *)
(* on disk and the list of drop-ins the manager has loaded.  systemd is    *)
(* not part of the repository: it is modelled from the way                 *)
(* internal/systemdunit uses it and from the assumptions its comments and  *)
(* fakes record.                                                           *)
(*                                                                         *)
(* A managed runtime drop-in 50-<Property>.conf is identified with its     *)
(* property, so a path is a property or OperatorFile, which stands for any *)
(* other mutable unit file.  The content of a managed drop-in, and hence   *)
(* its SHA-256 digest, is determined by the value written into it.         *)
(***************************************************************************)
EXTENDS Naturals

CONSTANTS
    Units,          \* user.slice and the user-UID.slice units
    Properties,     \* approved resource properties
    Requested,      \* property values ResMan asks for
    Vendor,         \* the normalised value of a unit without drop-ins
    KernelDefault,  \* the explicit weight programmed for an unset baseline
    Foreign,        \* a property value only an operator writes
    OperatorFile,   \* a mutable unit file outside the managed paths
    NoFile,         \* "no such file" in a footprint
    MaxLife         \* bound on the lifetimes of one unit

Values == Requested \cup {Vendor, KernelDefault, Foreign}
Paths == Properties \cup {OperatorFile}
Footprints == [Paths -> Values \cup {NoFile}]

ASSUME SystemdAssumption ==
    /\ OperatorFile \notin Properties
    /\ NoFile \notin Values
    /\ Foreign \notin Requested \cup {Vendor, KernelDefault}
    /\ MaxLife \in Nat \ {0}

VARIABLES
    active,   \* is the unit listed by systemd?
    life,     \* current lifetime: stands for InvocationID and cgroup ID
    prop,     \* normalised D-Bus property values
    disk,     \* the mutable unit files, with their content
    loaded    \* DropInPaths as the manager last loaded them

systemdVars == <<active, life, prop, disk, loaded>>

EmptyFootprint == [x \in Paths |-> NoFile]
Present(f) == {x \in Paths : f[x] # NoFile}

\* The values the manager computes from the unit files.
Configured(f) == [p \in Properties |-> IF f[p] = NoFile THEN Vendor ELSE f[p]]

SystemdTypeOK ==
    /\ active \in [Units -> BOOLEAN]
    /\ life \in [Units -> 1..MaxLife]
    /\ prop \in [Units -> [Properties -> Values]]
    /\ disk \in [Units -> Footprints]
    /\ loaded \in [Units -> SUBSET Paths]

SystemdInit ==
    /\ active = [u \in Units |-> TRUE]
    /\ life = [u \in Units |-> 1]
    /\ prop = [u \in Units |-> [p \in Properties |-> Vendor]]
    /\ disk = [u \in Units |-> EmptyFootprint]
    /\ loaded = [u \in Units |-> {}]

-----------------------------------------------------------------------------
(* Calls of the manager interface.                                         *)

\* SetUnitProperties(runtime=true): systemd writes one runtime drop-in per
\* assigned property, even for a unit that is no longer active, and changes
\* the live properties of an active one.
SetUnitProperties(u, a) ==
    /\ disk' = [disk EXCEPT ![u] =
                  [x \in Paths |-> IF x \in DOMAIN a THEN a[x] ELSE disk[u][x]]]
    /\ IF active[u]
       THEN /\ prop' = [prop EXCEPT ![u] =
                  [p \in Properties |-> IF p \in DOMAIN a THEN a[p] ELSE prop[u][p]]]
            /\ loaded' = [loaded EXCEPT ![u] = loaded[u] \cup DOMAIN a]
       ELSE UNCHANGED <<prop, loaded>>
    /\ UNCHANGED <<active, life>>

\* RevertUnitFiles removes every mutable file of the unit, whoever wrote it.
\* DropInPaths and the properties stay stale until the next reload.
RevertUnitFiles(u) ==
    /\ disk' = [disk EXCEPT ![u] = EmptyFootprint]
    /\ UNCHANGED <<active, life, prop, loaded>>

\* Reload re-reads the unit files of every loaded unit.
Reload ==
    /\ prop' = [u \in Units |-> IF active[u] THEN Configured(disk[u]) ELSE prop[u]]
    /\ loaded' = [u \in Units |-> IF active[u] THEN Present(disk[u]) ELSE loaded[u]]
    /\ UNCHANGED <<active, life, disk>>

-----------------------------------------------------------------------------
(* Events ResMan does not control.                                         *)

\* The user's last session ends; runtime drop-ins outlive the unit.
Depart(u) ==
    /\ active[u]
    /\ active' = [active EXCEPT ![u] = FALSE]
    /\ prop' = [prop EXCEPT ![u] = [p \in Properties |-> Vendor]]
    /\ loaded' = [loaded EXCEPT ![u] = {}]
    /\ UNCHANGED <<life, disk>>

\* The user logs in again: a new lifetime configured from the files on disk.
Return(u) ==
    /\ ~active[u]
    /\ life[u] < MaxLife
    /\ active' = [active EXCEPT ![u] = TRUE]
    /\ life' = [life EXCEPT ![u] = life[u] + 1]
    /\ prop' = [prop EXCEPT ![u] = Configured(disk[u])]
    /\ loaded' = [loaded EXCEPT ![u] = Present(disk[u])]
    /\ UNCHANGED disk

\* systemctl set-property --runtime by an operator.
OperatorSet(u, p) == SetUnitProperties(u, [x \in {p} |-> Foreign])

\* An operator drops in a unit file of their own, not yet reloaded.
OperatorDropIn(u) ==
    /\ disk[u][OperatorFile] = NoFile
    /\ disk' = [disk EXCEPT ![u][OperatorFile] = Foreign]
    /\ UNCHANGED <<active, life, prop, loaded>>

\* systemctl revert followed by daemon-reload: the documented manual cleanup.
OperatorRevert(u) ==
    /\ Present(disk[u]) # {}
    /\ disk' = [disk EXCEPT ![u] = EmptyFootprint]
    /\ IF active[u]
       THEN /\ prop' = [prop EXCEPT ![u] = [p \in Properties |-> Vendor]]
            /\ loaded' = [loaded EXCEPT ![u] = {}]
       ELSE UNCHANGED <<prop, loaded>>
    /\ UNCHANGED <<active, life>>
=============================================================================
