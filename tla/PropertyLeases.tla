--------------------------- MODULE PropertyLeases ---------------------------
(***************************************************************************)
(* The systemd property-lease adapter (internal/systemdunit/adapter.go and *)
(* recovery.go): Apply, RestoreProperties, RestoreUnits, ReconcileOwned    *)
(* and the recovery at startup, over the write-ahead lease journal.        *)
(*                                                                         *)
(* The operation gate runs one operation at a time.  An operation is split *)
(* at every call that changes systemd or the journal, so that a crash, a   *)
(* lost reply, a failing store, an operator or a departing unit can come   *)
(* between any two of them; the reads of one snapshot and the journal      *)
(* write that follows them are one step, because that write touches        *)
(* nothing the environment touches.                                        *)
(***************************************************************************)
EXTENDS LeaseJournal, FiniteSets

CONSTANTS
    WeightProperties,   \* CPUWeight and IOWeight: unset is programmed as 100
    NoTx,               \* no property transaction in progress
    Disturbances,       \* the kinds of disturbance that may happen
    MaxDisturbances     \* bound on the disturbances of one behaviour

ASSUME LeasesAssumption ==
    /\ WeightProperties \subseteq Properties
    /\ MaxDisturbances \in Nat

VARIABLES
    journal,    \* the durable journal
    mem,        \* leases, overrides and phases of the running adapter
    blocked,    \* units whose recovery failed: mutations are refused
    pc,         \* where the operation holding the gate is
    tx,         \* the property transaction between its persist and confirm
    task,       \* the operation around the transaction or the batch
    todo,       \* units the operation has still to examine
    departed,   \* recorded units that recovery found inactive
    pending,    \* units of the batch whose restoration is under way
    left,       \* units of the batch still to be reverted
    reverted,   \* units of the batch whose RevertUnitFiles succeeded
    budget      \* disturbances still allowed

adapterVars == <<journal, mem, blocked, pc, tx, task, todo, departed, pending, left, reverted>>
vars == <<systemdVars, adapterVars, budget>>

PCs == {"down", "idle", "set", "confirm", "recheck", "prepare", "recover",
        "finishReset", "inactive", "revert", "reload", "verify"}
Tasks == {"none", "release", "startup", "reconcile", "inactive"}
Assignments == UNION {[S -> Values] : S \in SUBSET Properties}
Requests == UNION {[S -> Requested] : S \in (SUBSET Properties) \ {{}}}
Transactions == [kind : {"apply", "properties", "conflict", "baseline"},
                 unit : Units, id : 1..MaxLife, assign : Assignments]

TypeOK ==
    /\ SystemdTypeOK
    /\ journal \in Journals
    /\ mem \in Journals
    /\ blocked \in SUBSET Units
    /\ pc \in PCs
    /\ tx \in Transactions \cup {NoTx}
    /\ task \in Tasks
    /\ todo \in SUBSET Units
    /\ departed \in SUBSET Units
    /\ pending \in SUBSET Units
    /\ left \in SUBSET Units
    /\ reverted \in SUBSET Units
    /\ budget \in 0..MaxDisturbances

\* Nothing tells two units apart, nor two properties unless one is a weight.
Bijections(S) == {f \in [S -> S] : \A x, y \in S : x # y => f[x] # f[y]}
InstanceSymmetry ==
    {[x \in Units \cup Properties |-> IF x \in Units THEN f[x] ELSE g[x]] :
        f \in Bijections(Units),
        g \in {h \in Bijections(Properties) :
                 \A p \in Properties : p \in WeightProperties => h[p] = p}}

NoRecords == [u \in Units |-> NoRecord]

Init ==
    /\ SystemdInit
    /\ journal = NoRecords
    /\ mem = NoRecords
    /\ blocked = {}
    /\ pc = "down"
    /\ tx = NoTx
    /\ task = "none"
    /\ todo = {}
    /\ departed = {}
    /\ pending = {}
    /\ left = {}
    /\ reverted = {}
    /\ budget = MaxDisturbances

Disturb(kind) ==
    /\ kind \in Disturbances
    /\ budget > 0
    /\ budget' = budget - 1

-----------------------------------------------------------------------------
(* What one snapshot of a unit shows.                                      *)

\* combinedMutableUnitFilePaths
CombinedPaths(u) == loaded[u] \cup Present(disk[u])

\* captureFootprint fails on a listed drop-in that is no longer on disk.
Capturable(u) == loaded[u] \subseteq Present(disk[u])

\* propertiesMatch
AtLast(r, u) ==
    /\ Leased(r) # {}
    /\ \A p \in Leased(r) : prop[u][p] = r.lease[p].last
AtPrevious(r, u) ==
    /\ Leased(r) # {}
    /\ \A p \in Leased(r) : prop[u][p] = r.lease[p].prev
AtBaseline(r, u) ==
    /\ Leased(r) # {}
    /\ \A p \in Leased(r) : prop[u][p] = r.lease[p].baseline

\* verifyRestored, but for the kernel values.
Restored(r, u) == active[u] /\ AtBaseline(r, u) /\ CombinedPaths(u) = {}

\* effectiveBaselineAssignments
EffectiveBaseline(p, v) == IF p \in WeightProperties /\ v = Vendor THEN KernelDefault ELSE v

-----------------------------------------------------------------------------
(* persistLeaseState.                                                      *)

Saved(m) ==
    /\ ValidJournal(m)
    /\ mem' = m
    /\ journal' = Exported(m)
    /\ UNCHANGED budget

\* A journal the validation refuses is never written.  A store error leaves
\* the old file, or the new one when only the directory sync failed; memory
\* is rolled back either way.
NotSaved(m, before) ==
    /\ mem' = before
    /\ \/ ~ValidJournal(m) /\ UNCHANGED <<journal, budget>>
       \/ /\ ValidJournal(m)
          /\ Disturb("store")
          /\ journal' \in {journal, Exported(m)}

-----------------------------------------------------------------------------
(* The property transaction shared by Apply, RestoreProperties and         *)
(* restoreOwnedPropertiesWithoutRevert: persist, SetUnitProperties,        *)
(* readback, persist.                                                      *)

\* Where the operation continues when its transaction is over.
AfterTransaction(kind) == IF kind \in {"conflict", "baseline"} THEN "prepare" ELSE "idle"

Begin(kind, u, a, staged, before) ==
    LET m == [before EXCEPT ![u] = staged]
    IN  \/ /\ Saved(m)
           /\ pc' = "set"
           /\ tx' = [kind |-> kind, unit |-> u, id |-> life[u], assign |-> a]
        \/ /\ NotSaved(m, before)
           /\ pc' = AfterTransaction(kind)
           /\ UNCHANGED tx

Apply(u, a) ==
    LET tracked == mem[u] # NoRecord
        r == IF tracked THEN mem[u] ELSE BlankRecord(life[u])
        confirmed == tracked /\ r.phase = "applied"
        acquired == [r EXCEPT !.lease = [p \in Properties |->
                        IF p \notin DOMAIN a THEN r.lease[p]
                        ELSE IF r.lease[p] = NoLease THEN NewLease(prop[u][p])
                        ELSE Resolved(r.lease[p], prop[u][p])]]
    IN  /\ pc = "idle"
        /\ u \notin blocked
        /\ active[u]
        /\ r.id = life[u]
        /\ CombinedPaths(u) = r.managed
        /\ confirmed => Capturable(u) /\ disk[u] = r.fp
        /\ ~(confirmed /\ AtLast(r, u) /\ \A p \in DOMAIN a :
                r.lease[p] # NoLease /\ r.lease[p].last = a[p])
        /\ \A p \in DOMAIN a \cap Leased(r) : Owned(r.lease[p], prop[u][p])
        /\ Begin("apply", u, a, StageMutation(StageLeases(acquired, a), DOMAIN a), mem)
        /\ UNCHANGED <<systemdVars, blocked, task, todo, departed, pending, left, reverted>>

\* RestoreProperties keeps the ownership it resolved even when there is
\* nothing to write.
RestoreProperties(u, S) ==
    LET r == mem[u]
        owned == {p \in S \cap Leased(r) : Owned(r.lease[p], prop[u][p])}
        resolved == [r EXCEPT !.lease = [p \in Properties |->
                        IF p \in owned THEN Resolved(r.lease[p], prop[u][p]) ELSE r.lease[p]]]
        needed == {p \in owned : prop[u][p] # r.lease[p].baseline}
        a == [p \in needed |-> r.lease[p].baseline]
        before == [mem EXCEPT ![u] = resolved]
    IN  /\ pc = "idle"
        /\ u \notin blocked
        /\ active[u]
        /\ r # NoRecord
        /\ r.id = life[u]
        /\ CombinedPaths(u) = r.managed
        /\ Capturable(u)
        /\ disk[u] = r.fp
        /\ IF needed = {}
           THEN mem' = before /\ UNCHANGED <<journal, pc, tx, budget>>
           ELSE Begin("properties", u, a, StageMutation(StageLeases(resolved, a), needed), before)
        /\ UNCHANGED <<systemdVars, blocked, task, todo, departed, pending, left, reverted>>

\* The D-Bus call: a failing one may or may not have taken effect.
SetProperties ==
    /\ pc = "set"
    /\ \/ /\ SetUnitProperties(tx.unit, tx.assign)
          /\ pc' = "confirm"
          /\ UNCHANGED <<tx, budget>>
       \/ /\ Disturb("transport")
          /\ SetUnitProperties(tx.unit, tx.assign) \/ UNCHANGED systemdVars
          /\ pc' = AfterTransaction(tx.kind)
          /\ tx' = NoTx
    /\ UNCHANGED <<journal, mem, blocked, task, todo, departed, pending, left, reverted>>

\* The readback.  Only Apply compares the paths with the managed ones here.
ReadbackAgrees ==
    LET u == tx.unit
    IN  /\ active[u]
        /\ life[u] = tx.id
        /\ \A p \in DOMAIN tx.assign : prop[u][p] = tx.assign[p]
        /\ tx.kind = "apply" => CombinedPaths(u) = mem[u].managed
        /\ Capturable(u)

\* Any failure after the first persist leaves the record applying.
Confirm ==
    LET u == tx.unit
        m == [mem EXCEPT ![u] = Confirmed(mem[u], disk[u])]
    IN  /\ pc = "confirm"
        /\ \/ /\ ReadbackAgrees
              /\ Saved(m)
              /\ IF tx.kind = "baseline"
                 THEN pc' = "recheck" /\ UNCHANGED tx
                 ELSE pc' = AfterTransaction(tx.kind) /\ tx' = NoTx
           \/ /\ \/ ReadbackAgrees /\ NotSaved(m, mem)
                 \/ ReadbackAgrees /\ Disturb("verify") /\ UNCHANGED <<mem, journal>>
                 \/ ~ReadbackAgrees /\ UNCHANGED <<mem, journal, budget>>
              /\ pc' = AfterTransaction(tx.kind)
              /\ tx' = NoTx
        /\ UNCHANGED <<systemdVars, blocked, task, todo, departed, pending, left, reverted>>

-----------------------------------------------------------------------------
(* RestoreUnits: prepareUnitRestore for each unit in turn, then the shared *)
(* removal of the runtime drop-ins.                                        *)

Release(S) ==
    /\ pc = "idle"
    /\ S # {}
    /\ S \subseteq Recorded(mem)
    /\ pc' = "prepare"
    /\ task' = "release"
    /\ todo' = S
    /\ UNCHANGED <<systemdVars, journal, mem, blocked, tx, departed, pending, left,
                   reverted, budget>>

\* Fault: the mutable paths are not compared with the managed ones.
BadRestorable(r, u) ==
    /\ u \notin blocked
    /\ active[u]
    /\ r.id = life[u]

\* requireRestorableUnitFileFootprint and the digest check.  While a mutation
\* is uncertain the digests on disk are taken as they are.
Restorable(r, u) ==
    /\ u \notin blocked
    /\ active[u]
    /\ r.id = life[u]
    /\ CombinedPaths(u) \in {r.managed, {}}
    /\ CombinedPaths(u) # {} =>
         /\ Capturable(u)
         /\ (r.phase = "applying" /\ Present(disk[u]) = r.managed) \/ disk[u] = r.fp

PrepareUnitRestore(u) ==
    LET r == mem[u]
        paths == CombinedPaths(u)
        owned == {p \in Leased(r) : Owned(r.lease[p], prop[u][p])}
        conflicts == Leased(r) \ owned
        needed == {p \in owned : prop[u][p] # r.lease[p].baseline}
        resolved == [r EXCEPT
            !.fp = IF paths # {} THEN disk[u] ELSE r.fp,
            !.lease = [p \in Properties |->
                IF p \in owned THEN Resolved(r.lease[p], prop[u][p]) ELSE r.lease[p]]]
        raw == [p \in needed |-> r.lease[p].baseline]
        effective == [p \in needed |-> EffectiveBaseline(p, r.lease[p].baseline)]
        before == [mem EXCEPT ![u] = resolved]
        removed == [mem EXCEPT ![u] = NoRecord]
    IN  /\ pc = "prepare"
        /\ u \in todo
        /\ todo' = todo \ {u}
        /\ \/ /\ ~Restorable(r, u)
              /\ UNCHANGED <<mem, journal, pc, tx, pending, budget>>
           \/ /\ Restorable(r, u)
              /\ conflicts # {} /\ needed = {}
              /\ mem' = before
              /\ UNCHANGED <<journal, pc, tx, pending, budget>>
           \/ /\ Restorable(r, u)
              /\ conflicts # {} /\ needed # {}
              /\ Begin("conflict", u, raw, StageLeases(resolved, raw), before)
              /\ UNCHANGED pending
           \/ /\ Restorable(r, u)
              /\ conflicts = {} /\ needed = {} /\ paths = {}
              /\ \/ Saved(removed)
                 \/ NotSaved(removed, before)
                 \/ Disturb("verify") /\ mem' = before /\ UNCHANGED journal
              /\ UNCHANGED <<pc, tx, pending>>
           \/ /\ Restorable(r, u)
              /\ conflicts = {} /\ needed # {}
              /\ Begin("baseline", u, effective, StageLeases(resolved, effective), before)
              /\ UNCHANGED pending
           \/ /\ Restorable(r, u)
              /\ conflicts = {} /\ needed = {} /\ paths # {}
              /\ mem' = before
              /\ pending' = pending \cup {u}
              /\ UNCHANGED <<journal, pc, tx, budget>>
        /\ UNCHANGED <<systemdVars, blocked, task, departed, left, reverted>>

\* The footprint is checked again after the baselines were programmed: a new
\* operator file wins.
Recheck ==
    LET u == tx.unit
        r == mem[u]
        unchanged == /\ active[u] /\ life[u] = tx.id
                     /\ AtLast(r, u)
                     /\ CombinedPaths(u) = r.managed
                     /\ Capturable(u) /\ disk[u] = r.fp
    IN  /\ pc = "recheck"
        /\ \/ unchanged /\ pending' = pending \cup {u} /\ UNCHANGED budget
           \/ ~unchanged /\ UNCHANGED <<pending, budget>>
           \/ Disturb("transport") /\ UNCHANGED pending
        /\ pc' = "prepare"
        /\ tx' = NoTx
        /\ UNCHANGED <<systemdVars, journal, mem, blocked, task, todo, departed, left, reverted>>

\* The end of a batch; a failed unit is blocked by recovery only.
EndBatch(failed) ==
    /\ pc' = IF task \in {"startup", "reconcile"} THEN "recover" ELSE "idle"
    /\ task' = IF task \in {"startup", "reconcile"} THEN task ELSE "none"
    /\ blocked' = IF task = "release" THEN blocked ELSE blocked \cup failed
    /\ pending' = {}
    /\ left' = {}
    /\ reverted' = {}

\* finishUnitRestores: one durable intent for every pending unit.
FinishUnitRestores ==
    LET m == [u \in Units |-> IF u \in pending THEN RestoreIntent(mem[u]) ELSE mem[u]]
    IN  /\ pc = "prepare"
        /\ todo = {}
        /\ \/ /\ pending = {}
              /\ EndBatch({})
              /\ UNCHANGED <<mem, journal, budget>>
           \/ /\ pending # {}
              /\ Saved(m)
              /\ pc' = "revert"
              /\ left' = pending
              /\ UNCHANGED <<blocked, task, pending, reverted>>
           \/ /\ pending # {}
              /\ NotSaved(m, mem)
              /\ EndBatch({})
        /\ UNCHANGED <<systemdVars, tx, todo, departed>>

Revert(u) ==
    /\ pc = "revert"
    /\ u \in left
    /\ left' = left \ {u}
    /\ \/ /\ RevertUnitFiles(u)
          /\ reverted' = reverted \cup {u}
          /\ UNCHANGED <<pending, blocked, budget>>
       \/ /\ Disturb("transport")
          /\ RevertUnitFiles(u) \/ UNCHANGED systemdVars
          /\ pending' = pending \ {u}
          /\ blocked' = IF task = "release" THEN blocked ELSE blocked \cup {u}
          /\ UNCHANGED reverted
    /\ UNCHANGED <<journal, mem, pc, tx, task, todo, departed>>

\* The reloading phase of every reverted unit, in one write.
RevertsDone ==
    LET m == [u \in Units |->
                IF u \in reverted THEN [mem[u] EXCEPT !.phase = "reloading"] ELSE mem[u]]
    IN  /\ pc = "revert"
        /\ left = {}
        /\ \/ /\ reverted = {}
              /\ IF pending = {}
                 THEN EndBatch({})
                 ELSE pc' = "reload" /\ UNCHANGED <<blocked, task, pending, left, reverted>>
              /\ UNCHANGED <<mem, journal, budget>>
           \/ /\ reverted # {}
              /\ Saved(m)
              /\ pc' = "reload"
              /\ UNCHANGED <<blocked, task, pending, left, reverted>>
           \/ /\ reverted # {}
              /\ NotSaved(m, mem)
              /\ IF pending = reverted
                 THEN EndBatch(reverted)
                 ELSE /\ pc' = "reload"
                      /\ pending' = pending \ reverted
                      /\ blocked' = blocked \cup reverted
                      /\ UNCHANGED <<task, left, reverted>>
        /\ UNCHANGED <<systemdVars, tx, todo, departed>>

ReloadManager ==
    /\ pc = "reload"
    /\ \/ /\ Reload
          /\ pc' = "verify"
          /\ UNCHANGED <<blocked, task, pending, left, reverted, budget>>
       \/ /\ Disturb("transport")
          /\ Reload \/ UNCHANGED systemdVars
          /\ EndBatch(pending)
    /\ UNCHANGED <<journal, mem, tx, todo, departed>>

\* A release and a resumed restore re-read the unit; the cleanup of an
\* inactive unit only looks for files left behind by its revert.
Verified(u) ==
    CASE task = "release" -> life[u] = mem[u].id /\ Restored(mem[u], u)
      [] task = "inactive" -> u \in reverted => Present(disk[u]) = {}
      [] OTHER -> Restored(mem[u], u)

\* The kernel values of one unit do not converge before the deadline.
KernelMismatch(u) ==
    /\ pc = "verify"
    /\ task # "inactive"
    /\ u \in pending
    /\ Disturb("verify")
    /\ pending' = pending \ {u}
    /\ blocked' = IF task = "release" THEN blocked ELSE blocked \cup {u}
    /\ UNCHANGED <<systemdVars, journal, mem, pc, tx, task, todo, departed, left, reverted>>

\* removeUnitLeasesDurably, in one write for every verified unit.
VerifyAndRemove ==
    LET good == {u \in pending : Verified(u)}
        m == [u \in Units |-> IF u \in good THEN NoRecord ELSE mem[u]]
    IN  /\ pc = "verify"
        /\ \/ /\ good = {}
              /\ UNCHANGED <<mem, journal, budget>>
              /\ EndBatch(pending)
           \/ /\ good # {}
              /\ Saved(m)
              /\ EndBatch(pending \ good)
           \/ /\ good # {}
              /\ NotSaved(m, mem)
              /\ EndBatch(pending)
        /\ UNCHANGED <<systemdVars, tx, todo, departed>>

-----------------------------------------------------------------------------
(* Recovery: loadAndReconcile when the adapter starts, ReconcileOwned in   *)
(* every control cycle.                                                    *)

\* Fault: a recorded unit that systemd does not list is overlooked.
BadStartRecovery(m) ==
    /\ pc' = "recover"
    /\ todo' = {u \in Recorded(m) : active[u]}
    /\ departed' = {}

\* The units are listed once; a unit the list misses counts as departed.
StartRecovery(m) ==
    /\ pc' = "recover"
    /\ todo' = {u \in Recorded(m) : active[u]}
    /\ departed' = {u \in Recorded(m) : ~active[u]}

Start ==
    /\ pc = "down"
    /\ mem' = journal
    /\ task' = "startup"
    /\ StartRecovery(journal)
    /\ UNCHANGED <<systemdVars, journal, blocked, tx, pending, left, reverted, budget>>

ReconcileOwned ==
    /\ pc = "idle"
    /\ task' = "reconcile"
    /\ StartRecovery(mem)
    /\ UNCHANGED <<systemdVars, journal, mem, blocked, tx, pending, left, reverted, budget>>

Conflict(u) == blocked' = blocked \cup {u}
Resolve(u) == blocked' = blocked \ {u}

\* A journal write of recovery: the unit is blocked when it fails.
RecoverySave(u, m, before, next) ==
    \/ Saved(m) /\ Resolve(u) /\ pc' = next
    \/ NotSaved(m, before) /\ Conflict(u) /\ UNCHANGED pc

\* recoverActiveRestore and the checks of resumeRestore.
RecoverRestore(u) ==
    LET r == mem[u]
    IN  /\ r.phase \in {"restoring", "reloading"}
        /\ UNCHANGED <<journal, mem, departed, budget>>
        /\ \/ /\ Present(disk[u]) = {}
              /\ pc' = "reload" /\ pending' = {u} /\ left' = {} /\ Resolve(u)
           \/ /\ Present(disk[u]) # {}
              /\ active[u] /\ r.phase = "restoring" /\ disk[u] = r.fp /\ AtPrevious(r, u)
              /\ pc' = "revert" /\ pending' = {u} /\ left' = {u} /\ Resolve(u)
           \/ /\ Present(disk[u]) # {}
              /\ ~(active[u] /\ r.phase = "restoring" /\ disk[u] = r.fp /\ AtPrevious(r, u))
              /\ Conflict(u) /\ UNCHANGED <<pc, pending, left>>

\* recoverActive for an applied record, and the shorter check ReconcileOwned
\* makes when the identity has not changed.  The drop-ins of this snapshot are
\* those finishResetUnit compares with the managed ones.
RecoverApplied(u) ==
    LET r == mem[u]
        same == r.id = life[u]
        exact == Capturable(u) /\ AtLast(r, u) /\ disk[u] = r.fp
        rebound == [mem EXCEPT ![u].id = life[u]]
    IN  /\ r.phase = "applied"
        /\ active[u]
        /\ UNCHANGED <<departed, left>>
        /\ \/ /\ ~exact
              /\ Conflict(u) /\ UNCHANGED <<journal, mem, pc, pending, budget>>
           \/ /\ exact
              /\ same /\ (task = "reconcile" \/ ~AtBaseline(r, u))
              /\ Resolve(u) /\ UNCHANGED <<journal, mem, pc, pending, budget>>
           \/ /\ exact
              /\ AtBaseline(r, u) /\ ~(same /\ task = "reconcile")
              /\ mem' = rebound
              /\ IF CombinedPaths(u) = r.managed
                 THEN pc' = "finishReset" /\ pending' = {u} /\ Resolve(u)
                 ELSE Conflict(u) /\ UNCHANGED <<pc, pending>>
              /\ UNCHANGED <<journal, budget>>
           \/ /\ exact
              /\ ~same /\ ~AtBaseline(r, u)
              /\ RecoverySave(u, rebound, mem, "recover")
              /\ UNCHANGED pending

\* recoverActive for an applying record: forward, back, or a conflict.
RecoverApplying(u) ==
    LET r == mem[u]
        forward == Capturable(u) /\ AtLast(r, u) /\ PendingFootprintMatches(disk[u], r)
        undispatched == /\ Capturable(u) /\ r.id = life[u]
                        /\ AtPrevious(r, u) /\ disk[u] = r.prevfp
        confirmed == [mem EXCEPT ![u] = Confirmed([r EXCEPT !.id = life[u]], disk[u])]
        rolledBack == [mem EXCEPT ![u] = RolledBack(r)]
    IN  /\ r.phase = "applying"
        /\ active[u]
        /\ UNCHANGED <<departed, left>>
        /\ \/ /\ forward
              /\ RecoverySave(u, confirmed, mem,
                              IF AtBaseline(r, u) THEN "finishReset" ELSE "recover")
              /\ pending' = IF pc' = "finishReset" THEN {u} ELSE {}
           \/ /\ ~forward /\ undispatched
              /\ RecoverySave(u, rolledBack, mem, "recover")
              /\ UNCHANGED pending
           \/ /\ ~forward /\ ~undispatched
              /\ Conflict(u) /\ UNCHANGED <<journal, mem, pc, pending, budget>>

\* A listed unit that is gone when it is read joins the departed ones.
RecoverMissing(u) ==
    /\ mem[u].phase \in {"applying", "applied"}
    /\ ~active[u]
    /\ departed' = departed \cup {u}
    /\ Resolve(u)
    /\ UNCHANGED <<journal, mem, pc, pending, left, budget>>

\* A failing read blocks the unit until the next reconciliation.
RecoverUnreadable(u) ==
    /\ Disturb("transport")
    /\ Conflict(u)
    /\ UNCHANGED <<journal, mem, pc, departed, pending, left>>

RecoverUnit(u) ==
    /\ pc = "recover"
    /\ u \in todo
    /\ todo' = todo \ {u}
    /\ \/ RecoverRestore(u) \/ RecoverApplied(u) \/ RecoverApplying(u)
       \/ RecoverMissing(u) \/ RecoverUnreadable(u)
    /\ UNCHANGED <<systemdVars, tx, task, reverted>>

\* finishResetUnit goes on with the values, digests and drop-ins it was called
\* with, which were the managed ones; a file on disk may have been added since.
FinishResetUnit(u) ==
    /\ pc = "finishReset"
    /\ u \in pending
    /\ \/ /\ Present(disk[u]) \subseteq mem[u].managed
          /\ LET m == [mem EXCEPT ![u] = StageUnitRestore(mem[u])]
             IN  \/ Saved(m) /\ pc' = "revert" /\ left' = {u} /\ UNCHANGED <<blocked, pending>>
                 \/ NotSaved(m, mem) /\ Conflict(u) /\ pc' = "recover" /\ pending' = {} /\ left' = {}
       \/ /\ ~(Present(disk[u]) \subseteq mem[u].managed)
          /\ Conflict(u) /\ pc' = "recover" /\ pending' = {} /\ left' = {}
          /\ UNCHANGED <<mem, journal, budget>>
    /\ UNCHANGED <<systemdVars, tx, task, todo, departed, reverted>>

EndRecovery ==
    /\ pc = "recover"
    /\ todo = {}
    /\ IF departed = {}
       THEN pc' = "idle" /\ task' = "none"
       ELSE pc' = "inactive" /\ task' = "inactive"
    /\ UNCHANGED <<systemdVars, journal, mem, blocked, tx, todo, departed, pending, left,
                   reverted, budget>>

-----------------------------------------------------------------------------
(* recoverInactiveUnits: the leases of units systemd no longer lists.      *)

PrepareInactiveRecovery(u) ==
    LET r == mem[u]
        empty == Present(disk[u]) = {}
        undispatched == empty /\ r.phase = "applying" /\ r.prevfp = EmptyFootprint
        reverted0 == empty /\ r.phase \in {"restoring", "reloading"}
        exact == \/ disk[u] = r.fp
                 \/ r.phase = "applying" /\ PendingFootprintMatches(disk[u], r)
    IN  /\ pc = "inactive"
        /\ u \in departed
        /\ departed' = departed \ {u}
        /\ \/ /\ undispatched
              /\ RecoverySave(u, [mem EXCEPT ![u] = RolledBack(r)], mem, "inactive")
              /\ UNCHANGED <<pending, left>>
           \/ /\ reverted0
              /\ pending' = pending \cup {u}
              /\ Resolve(u) /\ UNCHANGED <<journal, mem, pc, left, budget>>
           \/ /\ ~undispatched /\ ~reverted0
              /\ exact /\ r.phase # "reloading"
              /\ pending' = pending \cup {u} /\ left' = left \cup {u}
              /\ Resolve(u) /\ UNCHANGED <<journal, mem, pc, budget>>
           \/ /\ ~undispatched /\ ~reverted0
              /\ ~(exact /\ r.phase # "reloading")
              /\ Conflict(u) /\ UNCHANGED <<journal, mem, pc, pending, left, budget>>
        /\ UNCHANGED <<systemdVars, tx, task, todo, reverted>>

\* finishInactiveRecoveries: the restoring intent of the units not yet there.
InactiveIntent ==
    LET staged == {u \in left : mem[u].phase \in {"applying", "applied"}}
        m == [u \in Units |-> IF u \in staged THEN StageUnitRestore(mem[u]) ELSE mem[u]]
    IN  /\ pc = "inactive"
        /\ departed = {}
        /\ pc' = "revert"
        /\ \/ /\ staged = {}
              /\ UNCHANGED <<mem, journal, blocked, pending, left, budget>>
           \/ /\ staged # {}
              /\ Saved(m)
              /\ UNCHANGED <<blocked, pending, left>>
           \/ /\ staged # {}
              /\ NotSaved(m, mem)
              /\ pending' = pending \ staged
              /\ left' = left \ staged
              /\ blocked' = blocked \cup staged
        /\ UNCHANGED <<systemdVars, tx, task, todo, departed, reverted>>

-----------------------------------------------------------------------------
(* The end of the process, and the environment.                            *)

Down ==
    /\ pc' = "down"
    /\ mem' = NoRecords
    /\ blocked' = {}
    /\ tx' = NoTx
    /\ task' = "none"
    /\ todo' = {} /\ departed' = {} /\ pending' = {} /\ left' = {} /\ reverted' = {}
    /\ UNCHANGED <<systemdVars, journal>>

Close == pc = "idle" /\ Down /\ UNCHANGED budget
Crash == pc # "down" /\ Disturb("crash") /\ Down

Environment ==
    /\ UNCHANGED adapterVars
    /\ \E u \in Units :
        \/ Disturb("depart") /\ Depart(u)
        \/ Return(u) /\ UNCHANGED budget
        \/ Disturb("operator") /\ \E p \in Properties : OperatorSet(u, p)
        \/ Disturb("operator") /\ OperatorDropIn(u)
        \/ Disturb("operator") /\ OperatorRevert(u)

Client ==
    \/ \E u \in Units, a \in Requests : Apply(u, a)
    \/ \E u \in Units, S \in SUBSET Properties : RestoreProperties(u, S)
    \/ \E S \in SUBSET Units : Release(S)
    \/ ReconcileOwned
    \/ Start
    \/ Close

Progress ==
    \/ SetProperties \/ Confirm \/ Recheck
    \/ \E u \in Units : PrepareUnitRestore(u) \/ Revert(u) \/ KernelMismatch(u)
    \/ FinishUnitRestores \/ RevertsDone \/ ReloadManager \/ VerifyAndRemove
    \/ \E u \in Units : RecoverUnit(u) \/ FinishResetUnit(u) \/ PrepareInactiveRecovery(u)
    \/ EndRecovery \/ InactiveIntent

Next == Client \/ Progress \/ Crash \/ Environment

Spec == Init /\ [][Next]_vars

\* Every call is bounded by the adapter's timeout, so an operation that holds
\* the gate goes on.  The control cycle reconciles again and again, however
\* many other operations come between, and the service manager restarts the
\* daemon.
FairSpec ==
    /\ Spec
    /\ WF_vars(Progress)
    /\ WF_vars(Start)
    /\ SF_vars(ReconcileOwned)

-----------------------------------------------------------------------------
(* Safety.                                                                 *)

\* A drop-in ResMan wrote is never on disk without a durable lease on its
\* property: ownership is recorded before the first mutation and forgotten
\* only after the file is gone, whatever crashes, fails or departs between.
OwnedFilesRecorded ==
    \A u \in Units, p \in Properties :
        disk[u][p] \notin {NoFile, Foreign} =>
            journal[u] # NoRecord /\ p \in Leased(journal[u])

\* A baseline is the unit's own value and never one that ResMan, or an
\* operator behind its back, wrote: releasing returns the unit to what it was.
BaselinePreserved ==
    \A u \in Recorded(journal), p \in Properties :
        p \in Leased(journal[u]) => journal[u].lease[p].baseline = Vendor

\* While no operator interferes (no "operator" in Disturbances), an applied
\* record in the journal is the truth about its unit as far as confirmAppliedUnit
\* can tell: its digests are those on disk, some leased value is live, and one
\* that is not is still the value from before its last mutation, which was lost
\* and confirmed together with a later one.  No value is one nobody recorded.
AppliedIsLive ==
    \A u \in Recorded(journal) : journal[u].phase = "applied" =>
        LET r == journal[u]
            stale == {p \in Leased(r) : prop[u][p] # r.lease[p].last}
        IN  /\ disk[u] = r.fp
            /\ active[u] => /\ stale # Leased(r)
                            /\ \A p \in stale : prop[u][p] = r.lease[p].prev

\* RestoreUnits selects a unit for the destructive revert only while its
\* mutable files are exactly the leased drop-ins and none holds a value that
\* only an operator writes.
ReleaseRevertsOwnFiles ==
    [][\A u \in pending' \ pending : task = "release" =>
          /\ Present(disk[u]) \subseteq Leased(mem[u])
          /\ \A p \in Properties : disk[u][p] # Foreign]_vars

-----------------------------------------------------------------------------
(* Liveness.                                                               *)

\* Memory, journal and disk agree on an applied record.
Exact(u) ==
    /\ mem[u] # NoRecord
    /\ journal[u] = mem[u]
    /\ mem[u].phase = "applied"
    /\ disk[u] = mem[u].fp
    /\ Present(disk[u]) = mem[u].managed

\* Once nothing disturbs it any more, the release of a unit whose record is
\* exact ends with its limits and its record gone.
ReleaseCompletes ==
    \A u \in Units :
        /\ pc = "prepare" /\ u \in todo /\ u \notin blocked
        /\ Exact(u) /\ active[u] /\ mem[u].id = life[u]
        /\ loaded[u] = Present(disk[u]) /\ AtLast(mem[u], u)
        /\ budget = 0
        ~> journal[u] = NoRecord

\* A unit that departed with an exact record and does not return loses its
\* drop-ins and its record, because every control cycle reconciles.
DepartedUnitsCleaned ==
    \A u \in Units :
        ~active[u] /\ Exact(u) /\ budget = 0 ~> active[u] \/ journal[u] = NoRecord

-----------------------------------------------------------------------------
(* What the documentation promises and the code does not keep.             *)

\* An applied record has no uncertain value: every leased one is live.
AppliedIsExact ==
    \A u \in Recorded(journal) :
        journal[u].phase = "applied" /\ active[u] => AtLast(journal[u], u)

\* A crash leaves nothing that startup recovery cannot resolve.
CrashesResolve == pc = "idle" => blocked = {}

\* Recovery reverts the files of a departed unit only when they are exactly
\* the recorded ones.
DepartureRevertsOwnFiles ==
    [][\A u \in left' \ left : task = "inactive" => Present(disk[u]) \subseteq Leased(mem[u])]_vars

\* A departed unit whose cleanup fails does not stop the others of the batch.
BatchIsolation ==
    [][pc = "inactive" /\ pc' = "revert" /\ budget' = budget =>
          \A u \in left : ValidRecord(StageUnitRestore(mem[u])) => u \in left']_vars
=============================================================================
