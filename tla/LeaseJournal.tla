---------------------------- MODULE LeaseJournal ----------------------------
(***************************************************************************)
(* The write-ahead lease record of one unit and the durable journal made   *)
(* of those records (internal/systemdunit/journal.go, and the import and   *)
(* export halves of recovery.go).                                          *)
(***************************************************************************)
EXTENDS SystemdUnits

CONSTANTS
    NoLease,    \* a property without a lease
    NoRecord    \* a unit without a record

Phases == {"applying", "applied", "restoring", "reloading"}

Lease == [baseline : Values, last : Values, prev : Values,
          uncertain : BOOLEAN, new : BOOLEAN]

\* unitOverrideLease and the leases of one unit.  "managed" is managedPaths,
\* "fp" fingerprints and "prevfp" previousFingerprint; a managed path whose
\* fingerprint is NoFile has a pending digest.
Record == [id : 1..MaxLife, phase : Phases,
           lease : [Properties -> Lease \cup {NoLease}],
           managed : SUBSET Paths, fp : Footprints, prevfp : Footprints]

Journals == [Units -> Record \cup {NoRecord}]

ASSUME JournalAssumption ==
    /\ NoLease \notin Lease
    /\ NoRecord \notin Record

Leased(r) == {p \in Properties : r.lease[p] # NoLease}
Recorded(m) == {u \in Units : m[u] # NoRecord}

\* validateDurableLeaseJournal, for one record.
ValidRecord(r) ==
    LET L == Leased(r)
        uncertain == {p \in L : r.lease[p].uncertain}
    IN  /\ L # {}
        /\ \A p \in L : r.lease[p].new => r.lease[p].uncertain /\ r.phase = "applying"
        /\ r.phase = "applied" => uncertain = {}
        /\ r.phase = "applying" => uncertain # {}
        /\ r.phase \in {"restoring", "reloading"} => uncertain = L
        /\ r.phase # "applying" => /\ \A x \in r.managed : r.fp[x] # NoFile
                                   /\ r.prevfp = EmptyFootprint
        /\ Present(r.prevfp) \subseteq Properties
        /\ r.managed = L

ValidJournal(m) == \A u \in Recorded(m) : ValidRecord(m[u])

\* exportJournal keeps the digests of managed paths only.
Durable(r) == [r EXCEPT !.fp = [x \in Paths |-> IF x \in r.managed THEN r.fp[x] ELSE NoFile]]

Exported(m) == [u \in Units |-> IF m[u] = NoRecord THEN NoRecord ELSE Durable(m[u])]

-----------------------------------------------------------------------------
(* Leases of one property.                                                 *)

\* newPropertyLeaseState: the value found on the unit becomes the baseline.
NewLease(v) == [baseline |-> v, last |-> v, prev |-> v, uncertain |-> FALSE, new |-> TRUE]

\* Fault: an update takes the current limit for the baseline.
BadStaged(l, v) ==
    [l EXCEPT !.baseline = l.last, !.prev = l.last, !.last = v, !.uncertain = TRUE]

\* The write-ahead half of a mutation to v.
Staged(l, v) == [l EXCEPT !.prev = l.last, !.last = v, !.uncertain = TRUE]

\* resolveUncertainOwnership: is the value v found on the unit ResMan's?
Owned(l, v) == v = l.last \/ (l.uncertain /\ v = l.prev)

\* ... and the lease it settles on.  A lease that settles on the value from
\* before the mutation keeps its new flag.
Resolved(l, v) ==
    IF ~l.uncertain THEN l
    ELSE IF v = l.last THEN [l EXCEPT !.uncertain = FALSE, !.new = FALSE]
    ELSE [l EXCEPT !.last = l.prev, !.uncertain = FALSE]

-----------------------------------------------------------------------------
(* Transformations of a record.                                            *)

\* A record for a unit that has none yet.
BlankRecord(id) ==
    [id |-> id, phase |-> "applying", lease |-> [p \in Properties |-> NoLease],
     managed |-> {}, fp |-> EmptyFootprint, prevfp |-> EmptyFootprint]

\* stageManagedUnitFileMutation: the files of the properties in S are about
\* to be rewritten, the others stay bound to their digests.
StageMutation(r, S) ==
    [r EXCEPT !.managed = r.managed \cup S,
              !.prevfp = r.fp,
              !.fp = [x \in Paths |-> IF x \in S THEN NoFile ELSE r.fp[x]]]

\* The leases of DOMAIN a staged to the values of a, phase applying.
StageLeases(r, a) ==
    [r EXCEPT !.phase = "applying",
              !.lease = [p \in Properties |->
                  IF p \in DOMAIN a THEN Staged(r.lease[p], a[p]) ELSE r.lease[p]]]

\* confirmAppliedUnit
Confirmed(r, f) ==
    [r EXCEPT !.phase = "applied", !.fp = f, !.prevfp = EmptyFootprint,
              !.lease = [p \in Properties |->
                  IF r.lease[p] = NoLease THEN NoLease
                  ELSE [r.lease[p] EXCEPT !.uncertain = FALSE, !.new = FALSE]]]

\* Fault: the intent does not mark the leases uncertain.
BadRestoreIntent(r) ==
    [r EXCEPT !.phase = "restoring",
              !.lease = [p \in Properties |->
                  IF r.lease[p] = NoLease THEN NoLease
                  ELSE [r.lease[p] EXCEPT !.prev = r.lease[p].last,
                                          !.last = r.lease[p].baseline]]]

\* The restoring intent of finishUnitRestores.
RestoreIntent(r) ==
    [r EXCEPT !.phase = "restoring",
              !.lease = [p \in Properties |->
                  IF r.lease[p] = NoLease THEN NoLease
                  ELSE Staged(r.lease[p], r.lease[p].baseline)]]

\* stageUnitRestore: the same intent, which also clears the new flags.
StageUnitRestore(r) ==
    [RestoreIntent(r) EXCEPT !.lease = [p \in Properties |->
        IF r.lease[p] = NoLease THEN NoLease
        ELSE [Staged(r.lease[p], r.lease[p].baseline) EXCEPT !.new = FALSE]]]

\* Fault: the whole record is forgotten, not only the leases being acquired.
BadRolledBack(r) == IF Leased(r) = {} THEN r ELSE NoRecord

\* Fault: the leases keep the value that was never dispatched.
StaleRolledBack(r) ==
    [r EXCEPT !.phase = "applied", !.fp = r.prevfp, !.prevfp = EmptyFootprint,
              !.lease = [p \in Properties |->
                  IF r.lease[p] = NoLease THEN NoLease
                  ELSE [r.lease[p] EXCEPT !.uncertain = FALSE, !.new = FALSE]]]

\* rollbackUndispatchedApply: forget the leases that were being acquired and
\* take the others back to the value before the mutation.
RolledBack(r) ==
    LET kept == {p \in Leased(r) : ~(r.lease[p].uncertain /\ r.lease[p].new)}
    IN  IF kept = {} THEN NoRecord
        ELSE [r EXCEPT
               !.phase = "applied",
               !.managed = Present(r.prevfp), !.fp = r.prevfp, !.prevfp = EmptyFootprint,
               !.lease = [p \in Properties |->
                   IF p \notin kept THEN NoLease
                   ELSE IF ~r.lease[p].uncertain THEN r.lease[p]
                   ELSE [r.lease[p] EXCEPT !.last = r.lease[p].prev,
                                           !.uncertain = FALSE, !.new = FALSE]]]

\* pendingFootprintMatches
PendingFootprintMatches(f, r) ==
    /\ Present(f) = r.managed
    /\ \A x \in Present(r.fp) : f[x] = r.fp[x]
=============================================================================
