------------------------ MODULE PropertyLeasesProofs ------------------------
(***************************************************************************)
(* The lease record of one unit, the types and the control of the adapter  *)
(* (LeaseControl), and on them: every drop-in ResMan wrote is covered by a *)
(* durable lease (OwnedFilesRecorded), every lease returns its unit to     *)
(* what it was (BaselinePreserved), and no file of an operator is reverted *)
(* by a release (ReleaseRevertsOwnFiles), for any units, properties,       *)
(* values and disturbances.                                                *)
(***************************************************************************)
EXTENDS PropertyLeases, TLAPS

(* One record: its transformations yield records, and none of them forgets a
   drop-in that ResMan wrote. *)

\* A drop-in with content f[p] is one that ResMan wrote.
OwnFile(f, p) == f[p] \notin {NoFile, Foreign}

\* The record r does not forget a drop-in among the files f.  A lease still
\* being acquired can be forgotten: the digests from before the mutation show
\* no drop-in of its property, and one on disk has its last value.
Sound(f, r) ==
    /\ r = NoRecord => \A p \in Properties : ~OwnFile(f, p)
    /\ r # NoRecord => \A p \in Properties :
         /\ OwnFile(f, p) => r.lease[p] # NoLease
         /\ r.lease[p] # NoLease /\ r.lease[p].new /\ OwnFile(f, p) =>
              r.lease[p].uncertain /\ f[p] = r.lease[p].last
         /\ r.lease[p] = NoLease \/ r.lease[p].new =>
              ~OwnFile(r.fp, p) /\ ~OwnFile(r.prevfp, p)

-----------------------------------------------------------------------------
(* The transformations of a record yield records.                          *)

\* A lease being acquired.
LEMMA NewLeaseType ==
    ASSUME NEW v \in Values
    PROVE  NewLease(v) \in Lease
BY Zenon DEF Lease, NewLease

\* The leases of one property keep their type.
LEMMA LeaseTypes ==
    ASSUME NEW l \in Lease, NEW v \in Values
    PROVE  /\ Staged(l, v) \in Lease
           /\ Resolved(l, v) \in Lease
           /\ [Staged(l, v) EXCEPT !.new = FALSE] \in Lease
           /\ [l EXCEPT !.uncertain = FALSE, !.new = FALSE] \in Lease
           /\ [l EXCEPT !.last = l.prev, !.uncertain = FALSE, !.new = FALSE] \in Lease
BY Zenon DEF Lease, Staged, Resolved

\* Settling a lease never makes it new.
LEMMA ResolvedNew ==
    ASSUME NEW l \in Lease, NEW v
    PROVE  Resolved(l, v).new => l.new
BY Zenon DEF Lease, Resolved

\* EmptyFootprint is a footprint without files.
LEMMA EmptyFootprintType ==
    /\ EmptyFootprint \in Footprints
    /\ \A x \in Paths : EmptyFootprint[x] = NoFile
    /\ Present(EmptyFootprint) = {}
BY Zenon DEF EmptyFootprint, Footprints, Present

\* A record for a unit that has none.
LEMMA BlankRecordType ==
    ASSUME NEW id \in 1..MaxLife
    PROVE  BlankRecord(id) \in Record
BY EmptyFootprintType, Zenon DEF BlankRecord, Record, Phases, Paths

\* A record whose leases are replaced is a record.
LEMMA LeasesReplaced ==
    ASSUME NEW r \in Record, NEW L \in [Properties -> Lease \cup {NoLease}]
    PROVE  [r EXCEPT !.lease = L] \in Record
BY Zenon DEF Record

\* Staging the rewrite of some managed files.
LEMMA StageMutationType ==
    ASSUME NEW r \in Record, NEW S \in SUBSET Properties
    PROVE  StageMutation(r, S) \in Record
<1>1. [x \in Paths |-> IF x \in S THEN NoFile ELSE r.fp[x]] \in Footprints
  BY Zenon DEF Record, Footprints
<1>2. r.managed \cup S \in SUBSET Paths
  BY Zenon DEF Record, Paths
<1>3. QED
  BY Zenon, <1>1, <1>2 DEF Record, StageMutation

\* Staging leases to new values: those of DOMAIN a turn uncertain.
LEMMA StageLeasesType ==
    ASSUME NEW r \in Record, NEW a \in Assignments,
           \A p \in DOMAIN a : r.lease[p] # NoLease
    PROVE  StageLeases(r, a) \in Record
<1>1. DOMAIN a \subseteq Properties /\ \A p \in DOMAIN a : a[p] \in Values
  BY Zenon DEF Assignments
<1>2. \A p \in Properties : r.lease[p] \in Lease \cup {NoLease}
  BY Zenon DEF Record
<1>3. \A p \in DOMAIN a : Staged(r.lease[p], a[p]) \in Lease
  BY Zenon, <1>1, <1>2, LeaseTypes
<1>4. [p \in Properties |-> IF p \in DOMAIN a THEN Staged(r.lease[p], a[p]) ELSE r.lease[p]]
         \in [Properties -> Lease \cup {NoLease}]
  BY <1>2, <1>3, Zenon
<1>5. QED
  BY Zenon, <1>4 DEF StageLeases, Record, Phases

\* Confirming an applied unit.
LEMMA ConfirmedType ==
    ASSUME NEW r \in Record, NEW f \in Footprints
    PROVE  Confirmed(r, f) \in Record
<1>1. \A p \in Properties : r.lease[p] \in Lease \cup {NoLease}
  BY Zenon DEF Record
<1>2. \A l \in Lease : [l EXCEPT !.uncertain = FALSE, !.new = FALSE] \in Lease
  BY Zenon DEF Lease
<1>3. [p \in Properties |->
          IF r.lease[p] = NoLease THEN NoLease
          ELSE [r.lease[p] EXCEPT !.uncertain = FALSE, !.new = FALSE]]
         \in [Properties -> Lease \cup {NoLease}]
  BY Zenon, <1>1, <1>2
<1>4. QED
  BY Zenon, <1>3, EmptyFootprintType DEF Confirmed, Record, Phases

\* Both forms of the restoring intent.
LEMMA RestoreIntentType ==
    ASSUME NEW r \in Record
    PROVE  RestoreIntent(r) \in Record /\ StageUnitRestore(r) \in Record
<1>1. \A p \in Properties : r.lease[p] \in Lease \cup {NoLease}
  BY Zenon DEF Record
<1>2. \A l \in Lease : Staged(l, l.baseline) \in Lease /\ [Staged(l, l.baseline) EXCEPT !.new = FALSE] \in Lease
  BY Zenon DEF Lease, Staged
<1>3. [p \in Properties |-> IF r.lease[p] = NoLease THEN NoLease
                            ELSE Staged(r.lease[p], r.lease[p].baseline)]
         \in [Properties -> Lease \cup {NoLease}]
  BY Zenon, <1>1, <1>2
<1>4. RestoreIntent(r) \in Record
  BY Zenon, <1>3 DEF RestoreIntent, Record, Phases
<1>5. [p \in Properties |-> IF r.lease[p] = NoLease THEN NoLease
                            ELSE [Staged(r.lease[p], r.lease[p].baseline) EXCEPT !.new = FALSE]]
         \in [Properties -> Lease \cup {NoLease}]
  BY <1>1, <1>2, Zenon
<1>6. QED
  BY Zenon, <1>4, <1>5, LeasesReplaced DEF StageUnitRestore

\* Rolling an undispatched mutation back: a record, or none.
LEMMA RolledBackType ==
    ASSUME NEW r \in Record
    PROVE  RolledBack(r) \in Record \cup {NoRecord}
<1> DEFINE kept == {p \in Leased(r) : ~(r.lease[p].uncertain /\ r.lease[p].new)}
           L == [p \in Properties |->
                   IF p \notin kept THEN NoLease
                   ELSE IF ~r.lease[p].uncertain THEN r.lease[p]
                   ELSE [r.lease[p] EXCEPT !.last = r.lease[p].prev,
                                           !.uncertain = FALSE, !.new = FALSE]]
<1>1. \A p \in kept : r.lease[p] \in Lease
  BY Zenon DEF Record, Leased
<1>2. \A l \in Lease : [l EXCEPT !.last = l.prev, !.uncertain = FALSE, !.new = FALSE] \in Lease
  BY Zenon DEF Lease
<1>3. L \in [Properties -> Lease \cup {NoLease}]
  BY Zenon, <1>1, <1>2
<1>4. Present(r.prevfp) \in SUBSET Paths
  BY Zenon DEF Present
<1> HIDE DEF L
<1>5. [r EXCEPT !.phase = "applied", !.managed = Present(r.prevfp), !.fp = r.prevfp,
                !.prevfp = EmptyFootprint, !.lease = L] \in Record
  BY Zenon, <1>3, <1>4, EmptyFootprintType DEF Record, Phases
<1>6. QED
  BY <1>5, Zenon DEF RolledBack, L

\* The durable form of a record.
LEMMA DurableType ==
    ASSUME NEW r \in Record
    PROVE  Durable(r) \in Record
<1>1. [x \in Paths |-> IF x \in r.managed THEN r.fp[x] ELSE NoFile] \in Footprints
  BY Zenon DEF Record, Footprints
<1>2. QED
  BY <1>1, Zenon DEF Durable, Record

\* The durable form of a journal.
LEMMA ExportedType ==
    ASSUME NEW m \in Journals
    PROVE  Exported(m) \in Journals
BY DurableType, Zenon DEF Exported, Journals

\* An assignment gives values to some of the properties.
LEMMA AssignmentsType ==
    ASSUME NEW S \in SUBSET Properties, NEW f \in [S -> Values]
    PROVE  f \in Assignments
BY Zenon DEF Assignments

\* The leases of r with those of S settled by the values v found on the unit.
SettledLeases(r, S, v) ==
    [p \in Properties |-> IF p \in S THEN Resolved(r.lease[p], v[p]) ELSE r.lease[p]]

\* The record r with those leases and the digests g.
SettledRecord(r, S, v, g) == [r EXCEPT !.fp = g, !.lease = SettledLeases(r, S, v)]

\* Settling uncertain leases keeps them leases.
LEMMA SettledType ==
    ASSUME NEW r \in Record, NEW S \in SUBSET Leased(r), NEW v \in [Properties -> Values]
    PROVE  /\ SettledLeases(r, S, v) \in [Properties -> Lease \cup {NoLease}]
           /\ \A p \in Properties : SettledLeases(r, S, v)[p] = NoLease <=> r.lease[p] = NoLease
<1>1. \A p \in Properties : r.lease[p] \in Lease \cup {NoLease}
  BY Zenon DEF Record
<1>2. \A p \in S : p \in Properties /\ r.lease[p] \in Lease
  BY <1>1, Zenon DEF Leased
<1>3. \A p \in S : Resolved(r.lease[p], v[p]) \in Lease
  BY Zenon, <1>2, LeaseTypes
<1>4. QED
  BY <1>1, <1>2, <1>3, JournalAssumption, Zenon DEF SettledLeases

\* What PrepareUnitRestore computes from the record of its unit.
LEMMA PrepareTypes ==
    ASSUME NEW r \in Record, NEW f \in Footprints, NEW v \in [Properties -> Values],
           NEW owned \in SUBSET Leased(r), NEW needed \in SUBSET owned,
           NEW a \in [needed -> Values]
    PROVE  LET settled == [r EXCEPT !.fp = f, !.lease = SettledLeases(r, owned, v)]
           IN  /\ settled \in Record
               /\ StageLeases(settled, a) \in Record
               /\ a \in Assignments
<1> DEFINE L == SettledLeases(r, owned, v)
           settled == [r EXCEPT !.fp = f, !.lease = L]
<1>1. /\ L \in [Properties -> Lease \cup {NoLease}]
      /\ \A p \in Properties : L[p] = NoLease <=> r.lease[p] = NoLease
  BY SettledType, Zenon
<1> HIDE DEF L
<1>2. settled \in Record /\ settled.lease = L
  BY Zenon, <1>1 DEF Record
<1>3. needed \in SUBSET Properties /\ \A p \in needed : r.lease[p] # NoLease
  BY Zenon DEF Leased
<1>4. a \in Assignments
  BY <1>3, AssignmentsType, Zenon
<1>5. \A p \in DOMAIN a : settled.lease[p] # NoLease
  BY <1>1, <1>2, <1>3, Zenon
<1> HIDE DEF settled
<1>6. StageLeases(settled, a) \in Record
  BY <1>2, <1>4, <1>5, StageLeasesType, Zenon
<1>7. QED
  BY <1>2, <1>4, <1>6, Zenon DEF settled, L

-----------------------------------------------------------------------------
(* The transformations of a record keep it sound.                          *)

\* Exporting a record only drops digests.
LEMMA SoundExported ==
    ASSUME NEW f, NEW r \in Record, Sound(f, r)
    PROVE  Sound(f, Durable(r)) /\ Durable(r) # NoRecord /\ Durable(r).lease = r.lease
<1>1. Durable(r) \in Record /\ Durable(r) # NoRecord /\ r # NoRecord
  BY DurableType, JournalAssumption, Zenon
<1>2. Durable(r).lease = r.lease /\ Durable(r).prevfp = r.prevfp
      /\ \A p \in Properties : Durable(r).fp[p] \in {r.fp[p], NoFile}
  BY Zenon DEF Durable, Record, Paths
<1>3. QED
  BY <1>1, <1>2, Zenon DEF Sound, OwnFile

\* Files that disappear, or that an operator rewrites, forget nothing.
LEMMA SoundShrink ==
    ASSUME NEW f, NEW g, NEW r, Sound(f, r),
           \A p \in Properties : OwnFile(g, p) => g[p] = f[p]
    PROVE  Sound(g, r)
BY Zenon DEF Sound, OwnFile

\* The identity and the phase of a record do not matter.
LEMMA SoundRelabelled ==
    ASSUME NEW f, NEW r \in Record, Sound(f, r), NEW id \in 1..MaxLife, NEW ph \in Phases
    PROVE  Sound(f, [r EXCEPT !.id = id]) /\ Sound(f, [r EXCEPT !.phase = ph])
<1>1. [r EXCEPT !.id = id] \in Record /\ [r EXCEPT !.phase = ph] \in Record
  BY Zenon DEF Record
<1>2. r # NoRecord /\ [r EXCEPT !.id = id] # NoRecord /\ [r EXCEPT !.phase = ph] # NoRecord
  BY <1>1, JournalAssumption, Zenon
<1>3. /\ [r EXCEPT !.id = id].lease = r.lease /\ [r EXCEPT !.phase = ph].lease = r.lease
      /\ [r EXCEPT !.id = id].fp = r.fp /\ [r EXCEPT !.phase = ph].fp = r.fp
      /\ [r EXCEPT !.id = id].prevfp = r.prevfp /\ [r EXCEPT !.phase = ph].prevfp = r.prevfp
  BY Zenon DEF Record
<1>4. QED
  BY <1>2, <1>3, Zenon DEF Sound

\* A confirmed record acquires nothing any more.
LEMMA SoundConfirmed ==
    ASSUME NEW f \in Footprints, NEW r \in Record, Sound(f, r)
    PROVE  Sound(f, Confirmed(r, f))
<1>1. Confirmed(r, f) # NoRecord /\ r # NoRecord
  BY ConfirmedType, JournalAssumption, Zenon
<1>2. /\ Confirmed(r, f).fp = f /\ Confirmed(r, f).prevfp = EmptyFootprint
      /\ \A p \in Properties : Confirmed(r, f).lease[p] =
            IF r.lease[p] = NoLease THEN NoLease
            ELSE [r.lease[p] EXCEPT !.uncertain = FALSE, !.new = FALSE]
  BY Zenon DEF Confirmed, Record
<1>3. \A p \in Properties : r.lease[p] # NoLease =>
         /\ [r.lease[p] EXCEPT !.uncertain = FALSE, !.new = FALSE] # NoLease
         /\ ~[r.lease[p] EXCEPT !.uncertain = FALSE, !.new = FALSE].new
  <2>1. \A l \in Lease : /\ [l EXCEPT !.uncertain = FALSE, !.new = FALSE] \in Lease
                         /\ ~[l EXCEPT !.uncertain = FALSE, !.new = FALSE].new
    BY Zenon DEF Lease
  <2>2. \A p \in Properties : r.lease[p] # NoLease => r.lease[p] \in Lease
    BY Zenon DEF Record
  <2>3. QED
    BY Zenon, <2>1, <2>2, JournalAssumption
<1>4. \A p \in Properties : ~OwnFile(EmptyFootprint, p)
  BY EmptyFootprintType, Zenon DEF OwnFile, Paths
<1>5. \A p \in Properties :
         /\ r.lease[p] = NoLease <=> Confirmed(r, f).lease[p] = NoLease
         /\ r.lease[p] # NoLease => ~Confirmed(r, f).lease[p].new
  BY Zenon, <1>2, <1>3
<1>6. \A p \in Properties : OwnFile(f, p) => r.lease[p] # NoLease
  BY <1>1, Zenon DEF Sound
<1>7. QED
  BY Zenon, <1>1, <1>2, <1>4, <1>5, <1>6 DEF Sound

\* An undispatched mutation leaves no file of a lease being acquired.
LEMMA SoundRolledBack ==
    ASSUME NEW f \in Footprints, NEW r \in Record, Sound(f, r),
           f = r.prevfp \/ Present(f) = {}
    PROVE  Sound(f, RolledBack(r))
<1> DEFINE kept == {p \in Leased(r) : ~(r.lease[p].uncertain /\ r.lease[p].new)}
           L == [p \in Properties |->
                   IF p \notin kept THEN NoLease
                   ELSE IF ~r.lease[p].uncertain THEN r.lease[p]
                   ELSE [r.lease[p] EXCEPT !.last = r.lease[p].prev,
                                           !.uncertain = FALSE, !.new = FALSE]]
<1>1. r # NoRecord /\ RolledBack(r) \in Record \cup {NoRecord}
  BY RolledBackType, JournalAssumption, Zenon
<1>2. \A p \in Properties : r.lease[p] # NoLease => r.lease[p] \in Lease
  BY Zenon DEF Record
<1>3. \A p \in Properties : OwnFile(f, p) => f = r.prevfp
  BY Zenon DEF Present, OwnFile, Paths
<1>4. \A p \in Properties : OwnFile(f, p) => p \in kept
  BY <1>1, <1>3, Zenon DEF Sound, Leased
<1>5. CASE kept = {}
  <2>1. RolledBack(r) = NoRecord
    BY <1>5, Zenon DEF RolledBack
  <2>2. QED
    BY <1>4, <1>5, <2>1, Zenon DEF Sound
<1>6. CASE kept # {}
  <2>1. RolledBack(r) = [r EXCEPT !.phase = "applied", !.managed = Present(r.prevfp),
                                  !.fp = r.prevfp, !.prevfp = EmptyFootprint, !.lease = L]
    BY <1>6, Zenon DEF RolledBack
  <2>2. \A p \in Properties :
          /\ p \in kept => L[p] # NoLease /\ (L[p].new => L[p] = r.lease[p] /\ ~r.lease[p].uncertain)
          /\ p \notin kept => L[p] = NoLease
    <3>1. \A l \in Lease :
            /\ [l EXCEPT !.last = l.prev, !.uncertain = FALSE, !.new = FALSE] \in Lease
            /\ ~[l EXCEPT !.last = l.prev, !.uncertain = FALSE, !.new = FALSE].new
      BY Zenon DEF Lease
    <3>2. QED
      BY Zenon, <1>2, <3>1, JournalAssumption DEF Leased
  <2> HIDE DEF L
  <2>3. RolledBack(r).fp = r.prevfp /\ RolledBack(r).prevfp = EmptyFootprint /\ RolledBack(r).lease = L
    BY <2>1, Zenon DEF Record
  <2>4. \A p \in Properties : ~OwnFile(EmptyFootprint, p)
    BY EmptyFootprintType, Zenon DEF OwnFile, Paths
  <2>5. \A p \in Properties :
          /\ OwnFile(f, p) => L[p] # NoLease
          /\ L[p] # NoLease /\ L[p].new => ~OwnFile(f, p)
          /\ L[p] = NoLease \/ L[p].new => ~OwnFile(r.prevfp, p)
    BY <1>1, <1>4, <2>2, Zenon DEF Sound, Leased
  <2>6. RolledBack(r) # NoRecord
    <3>1. RolledBack(r).lease = L
      BY <2>3, Zenon
    <3>2. L \in [Properties -> Lease \cup {NoLease}] /\ Present(r.prevfp) \in SUBSET Paths
      <4>1. \A l \in Lease : [l EXCEPT !.last = l.prev, !.uncertain = FALSE, !.new = FALSE] \in Lease
        BY Zenon DEF Lease
      <4>2. QED
        BY Zenon, <1>2, <4>1 DEF L, Leased, Present
    <3>3. RolledBack(r) \in Record
      BY Zenon, <2>1, <3>2, EmptyFootprintType DEF Record, Phases
    <3>4. QED
      BY <3>3, JournalAssumption, Zenon
  <2>7. QED
    BY <2>3, <2>4, <2>5, <2>6, Zenon DEF Sound
<1>7. QED
  BY <1>5, <1>6, Zenon

\* A record derived from a sound one that keeps its leases, acquires nothing
\* more and takes its digests from the old ones or from the files is sound.
LEMMA SoundDerived ==
    ASSUME NEW f, NEW r \in Record, Sound(f, r), NEW r2 \in Record,
           \A p \in Properties :
             /\ r2.lease[p] = NoLease <=> r.lease[p] = NoLease
             /\ r2.lease[p] # NoLease /\ r2.lease[p].new =>
                  /\ r.lease[p].new
                  /\ OwnFile(f, p) => r2.lease[p].uncertain /\ f[p] = r2.lease[p].last
             /\ OwnFile(r2.fp, p) \/ OwnFile(r2.prevfp, p) =>
                  \/ OwnFile(r.fp, p) \/ OwnFile(r.prevfp, p)
                  \/ OwnFile(f, p) /\ ~r2.lease[p].new
    PROVE  Sound(f, r2)
<1>1. r # NoRecord /\ r2 # NoRecord
  BY JournalAssumption, Zenon
<1>2. QED
  BY <1>1, Zenon DEF Sound

\* An intent to restore that the journal accepts acquires nothing.
LEMMA SoundRestoreIntent ==
    ASSUME NEW f, NEW r \in Record, Sound(f, r), ValidRecord(RestoreIntent(r))
    PROVE  Sound(f, RestoreIntent(r))
<1> DEFINE r2 == RestoreIntent(r)
<1>1. r2 \in Record
  BY RestoreIntentType, Zenon
<1>2. r2.phase = "restoring" /\ r2.fp = r.fp /\ r2.prevfp = r.prevfp
      /\ \A p \in Properties : r2.lease[p] =
            IF r.lease[p] = NoLease THEN NoLease ELSE Staged(r.lease[p], r.lease[p].baseline)
  BY Zenon DEF RestoreIntent, Record
<1>3. \A l \in Lease : Staged(l, l.baseline) \in Lease
  BY Zenon DEF Lease, Staged
<1>4. \A p \in Properties : r2.lease[p] = NoLease <=> r.lease[p] = NoLease
  BY <1>2, <1>3, JournalAssumption DEF Record
<1>5. \A p \in Properties : r2.lease[p] # NoLease => ~r2.lease[p].new
  BY <1>2, Zenon DEF ValidRecord, Leased
<1> HIDE DEF r2
<1>6. QED
  BY <1>1, <1>2, <1>4, <1>5, SoundDerived DEF r2

\* The intent of recovery clears the new flags.
LEMMA SoundStageUnitRestore ==
    ASSUME NEW f, NEW r \in Record, Sound(f, r)
    PROVE  Sound(f, StageUnitRestore(r))
<1> DEFINE r2 == StageUnitRestore(r)
<1>1. r2 \in Record
  BY RestoreIntentType, Zenon
<1>2. r2.fp = r.fp /\ r2.prevfp = r.prevfp
      /\ \A p \in Properties : r2.lease[p] =
            IF r.lease[p] = NoLease THEN NoLease
            ELSE [Staged(r.lease[p], r.lease[p].baseline) EXCEPT !.new = FALSE]
  <2>1. /\ RestoreIntent(r) \in Record
        /\ RestoreIntent(r).fp = r.fp /\ RestoreIntent(r).prevfp = r.prevfp
    BY Zenon, RestoreIntentType DEF RestoreIntent, Record
  <2>2. QED
    BY <2>1, Zenon DEF StageUnitRestore, Record
<1>3. ASSUME NEW p \in Properties, r.lease[p] # NoLease
      PROVE  r2.lease[p] # NoLease /\ ~r2.lease[p].new
  <2>1. r.lease[p] \in Lease
    BY <1>3, Zenon DEF Record
  <2>2. r2.lease[p] = [Staged(r.lease[p], r.lease[p].baseline) EXCEPT !.new = FALSE]
    BY <1>2, <1>3, Zenon
  <2>3. r2.lease[p] \in Lease /\ ~r2.lease[p].new
    BY Zenon, <2>1, <2>2 DEF Staged, Lease
  <2>4. QED
    BY <2>3, JournalAssumption, Zenon
<1>4. \A p \in Properties : r2.lease[p] = NoLease <=> r.lease[p] = NoLease
  BY Zenon, <1>2, <1>3
<1> HIDE DEF r2
<1>5. QED
  BY <1>1, <1>2, <1>3, <1>4, SoundDerived DEF r2

\* On an active unit settling a lease ends the acquisition of a property whose
\* drop-in is on disk, because the live value is that of the drop-in.
LEMMA SettledNew ==
    ASSUME NEW f, NEW r \in Record, Sound(f, r), NEW v \in [Properties -> Values],
           \A p \in Properties : f[p] # NoFile => v[p] = f[p],
           NEW p \in Properties, r.lease[p] # NoLease, OwnFile(f, p)
    PROVE  /\ ~Resolved(r.lease[p], v[p]).new
           /\ r.lease[p].new => Owned(r.lease[p], v[p])
<1>1. r # NoRecord /\ r.lease[p] \in Lease /\ v[p] = f[p]
  BY JournalAssumption, Zenon DEF Record, OwnFile
<1>2. r.lease[p].new => r.lease[p].uncertain /\ v[p] = r.lease[p].last
  BY <1>1, Zenon DEF Sound
<1>3. QED
  BY <1>1, <1>2, Zenon DEF Resolved, Owned, Lease

\* On a unit with files f and live values v the leases S of the sound record r
\* are settled, and its digests are kept or, when every owned lease is settled,
\* refreshed from the files.
Settles(f, r, S, v, g) ==
    /\ f \in Footprints /\ r \in Record /\ v \in [Properties -> Values] /\ g \in Footprints
    /\ Sound(f, r)
    /\ \A p \in Properties : f[p] # NoFile => v[p] = f[p]
    /\ S \in SUBSET Leased(r)
    /\ g = r.fp \/ (g = f /\ \A p \in Leased(r) : Owned(r.lease[p], v[p]) => p \in S)

\* The record s, r with its leases S settled, is sound: a lease that was settled
\* and is still new has no drop-in.
SettledSoundly(f, r, S, s) ==
    /\ s \in Record
    /\ Sound(f, s)
    /\ \A p \in S : s.lease[p].new => ~OwnFile(f, p)
    /\ \A p \in Properties : s.lease[p] = NoLease <=> r.lease[p] = NoLease

\* Settling the owned leases of an active unit keeps the record sound.
LEMMA SoundSettled ==
    ASSUME NEW f, NEW r, NEW S, NEW v, NEW g, Settles(f, r, S, v, g)
    PROVE  SettledSoundly(f, r, S, SettledRecord(r, S, v, g))
<1>0. /\ f \in Footprints /\ r \in Record /\ v \in [Properties -> Values] /\ g \in Footprints
      /\ Sound(f, r)
      /\ \A p \in Properties : f[p] # NoFile => v[p] = f[p]
      /\ S \in SUBSET Leased(r)
      /\ g = r.fp \/ (g = f /\ \A p \in Leased(r) : Owned(r.lease[p], v[p]) => p \in S)
  BY Zenon DEF Settles
<1> USE <1>0
<1> DEFINE L == SettledLeases(r, S, v)
           r2 == SettledRecord(r, S, v, g)
<1>1. /\ L \in [Properties -> Lease \cup {NoLease}]
      /\ \A p \in Properties : L[p] = NoLease <=> r.lease[p] = NoLease
      /\ \A p \in Properties : L[p] = IF p \in S THEN Resolved(r.lease[p], v[p]) ELSE r.lease[p]
  BY SettledType DEF SettledLeases
<1>2. S \subseteq Properties /\ \A p \in S : r.lease[p] # NoLease
  BY Zenon DEF Leased
<1> HIDE DEF L
<1>3. r2 \in Record /\ r2.lease = L /\ r2.fp = g /\ r2.prevfp = r.prevfp
  <2>1. r2 = [r EXCEPT !.fp = g, !.lease = L]
    BY Zenon DEF SettledRecord, L
  <2> HIDE DEF r2
  <2>2. QED
    BY Zenon, <1>1, <2>1 DEF Record
<1>4. \A p \in S : L[p].new => ~OwnFile(f, p) /\ r.lease[p].new
  <2> SUFFICES ASSUME NEW p \in S, L[p].new PROVE ~OwnFile(f, p) /\ r.lease[p].new
    BY Zenon
  <2>1. p \in Properties /\ r.lease[p] # NoLease /\ r.lease[p] \in Lease
    BY <1>2, Zenon DEF Record
  <2>2. L[p] = Resolved(r.lease[p], v[p])
    BY <1>1, <2>1, Zenon
  <2>3. ~OwnFile(f, p)
    BY <2>1, <2>2, SettledNew, Zenon
  <2>4. r.lease[p].new
    BY <2>1, <2>2, Zenon DEF Resolved, Lease
  <2>5. QED
    BY <2>3, <2>4, Zenon
<1>5. \A p \in Properties : r.lease[p] # NoLease /\ r.lease[p].new /\ OwnFile(f, p) =>
         r.lease[p].uncertain /\ f[p] = r.lease[p].last
  BY JournalAssumption, Zenon DEF Sound
<1>6. \A p \in Properties : OwnFile(f, p) => r.lease[p] # NoLease
  BY JournalAssumption, Zenon DEF Sound
<1>7. ASSUME NEW p \in Properties, g # r.fp, OwnFile(g, p) PROVE ~L[p].new
  <2>1. OwnFile(f, p) /\ r.lease[p] # NoLease
    BY <1>6, <1>7, Zenon
  <2>2. CASE p \in S
    BY <1>4, <2>1, <2>2, Zenon
  <2>3. CASE p \notin S
    <3>1. ~Owned(r.lease[p], v[p])
      BY <1>7, <2>1, <2>3, Zenon DEF Leased
    <3>2. QED
      BY <1>1, <2>1, <2>3, <3>1, SettledNew, Zenon
  <2>4. QED
    BY <2>2, <2>3, Zenon
<1> HIDE DEF r2
<1>8. Sound(f, r2)
  <2>1. ASSUME NEW p \in Properties
        PROVE  /\ r2.lease[p] = NoLease <=> r.lease[p] = NoLease
               /\ r2.lease[p] # NoLease /\ r2.lease[p].new =>
                    /\ r.lease[p].new
                    /\ OwnFile(f, p) => r2.lease[p].uncertain /\ f[p] = r2.lease[p].last
               /\ OwnFile(r2.fp, p) \/ OwnFile(r2.prevfp, p) =>
                    \/ OwnFile(r.fp, p) \/ OwnFile(r.prevfp, p)
                    \/ OwnFile(f, p) /\ ~r2.lease[p].new
    BY <1>1, <1>3, <1>4, <1>5, <1>7, Zenon
  <2>2. QED
    BY <1>3, <2>1, SoundDerived, Zenon
<1>9. SettledSoundly(f, r, S, r2)
  BY <1>1, <1>3, <1>4, <1>8, Zenon DEF SettledSoundly
<1>10. QED
  BY Zenon, <1>9 DEF r2

\* The assignment a can be staged in r: a lease of it that is new has no drop-in.
Stageable(f, r, a) ==
    /\ r \in Record /\ Sound(f, r) /\ a \in Assignments
    /\ \A p \in DOMAIN a : r.lease[p] # NoLease /\ (r.lease[p].new => ~OwnFile(f, p))

\* The assignment a is staged in the sound record s.
StagedSoundly(f, s, a) ==
    /\ s \in Record /\ Sound(f, s)
    /\ \A p \in DOMAIN a : s.lease[p] # NoLease /\ s.lease[p].uncertain /\ s.lease[p].last = a[p]

\* Staging a mutation of leases that have no drop-in while they are new.
LEMMA SoundStaged ==
    ASSUME NEW f, NEW r, NEW a, Stageable(f, r, a)
    PROVE  StagedSoundly(f, StageLeases(r, a), a)
<1> DEFINE r2 == StageLeases(r, a)
<1>0. /\ r \in Record /\ Sound(f, r) /\ a \in Assignments
      /\ \A p \in DOMAIN a : r.lease[p] # NoLease /\ (r.lease[p].new => ~OwnFile(f, p))
  BY Zenon DEF Stageable
<1>1. DOMAIN a \subseteq Properties /\ \A p \in DOMAIN a : a[p] \in Values
  BY <1>0, Zenon DEF Assignments
<1>2. r2 \in Record
  BY <1>0, StageLeasesType, Zenon
<1>3. r2.fp = r.fp /\ r2.prevfp = r.prevfp
      /\ \A p \in Properties : r2.lease[p] =
            IF p \in DOMAIN a THEN Staged(r.lease[p], a[p]) ELSE r.lease[p]
  BY <1>0, Zenon DEF StageLeases, Record
<1>4. \A p \in DOMAIN a : LET l == Staged(r.lease[p], a[p])
                          IN  l # NoLease /\ l.uncertain /\ l.last = a[p] /\ l.new = r.lease[p].new
  <2>1. \A l \in Lease, w \in Values : /\ Staged(l, w) \in Lease /\ Staged(l, w).uncertain
                                       /\ Staged(l, w).last = w /\ Staged(l, w).new = l.new
    BY Zenon DEF Lease, Staged
  <2>2. \A p \in DOMAIN a : r.lease[p] \in Lease
    BY <1>0, <1>1, Zenon DEF Record
  <2>3. QED
    BY <1>1, <2>1, <2>2, JournalAssumption, Zenon
<1>5. \A p \in Properties : r.lease[p] # NoLease /\ r.lease[p].new /\ OwnFile(f, p) =>
         r.lease[p].uncertain /\ f[p] = r.lease[p].last
  BY <1>0, JournalAssumption, Zenon DEF Sound
<1>6. \A p \in DOMAIN a : /\ r2.lease[p] # NoLease /\ r2.lease[p].uncertain
                          /\ r2.lease[p].last = a[p] /\ r2.lease[p].new = r.lease[p].new
  BY <1>1, <1>3, <1>4, Zenon
<1> HIDE DEF r2
<1>7. Sound(f, r2)
  BY <1>0, <1>1, <1>2, <1>3, <1>5, <1>6, SoundDerived
<1>8. StagedSoundly(f, r2, a)
  BY <1>2, <1>6, <1>7, Zenon DEF StagedSoundly
<1>9. QED
  BY Zenon, <1>8 DEF r2

\* The pending digests of a mutation.
LEMMA SoundMutation ==
    ASSUME NEW f, NEW r \in Record, Sound(f, r), NEW S \in SUBSET Properties
    PROVE  Sound(f, StageMutation(r, S)) /\ StageMutation(r, S).lease = r.lease
<1> DEFINE r2 == StageMutation(r, S)
<1>1. r2 \in Record
  BY StageMutationType, Zenon
<1>2. r2.lease = r.lease /\ r2.prevfp = r.fp /\ \A p \in Properties : r2.fp[p] \in {NoFile, r.fp[p]}
  BY Zenon DEF StageMutation, Record, Paths
<1> HIDE DEF r2
<1>3. \A p \in Properties : OwnFile(r2.fp, p) => OwnFile(r.fp, p)
  BY <1>2, Zenon DEF OwnFile
<1>4. \A p \in Properties : r.lease[p] # NoLease /\ r.lease[p].new /\ OwnFile(f, p) =>
         r.lease[p].uncertain /\ f[p] = r.lease[p].last
  BY JournalAssumption, Zenon DEF Sound
<1>5. QED
  BY <1>1, <1>2, <1>3, <1>4, SoundDerived DEF r2

\* ... of staged leases.
LEMMA SoundStagedMutation ==
    ASSUME NEW f, NEW s, NEW a, StagedSoundly(f, s, a), NEW S \in SUBSET Properties
    PROVE  StagedSoundly(f, StageMutation(s, S), a)
BY SoundMutation, StageMutationType, Zenon DEF StagedSoundly

-----------------------------------------------------------------------------
(* What every operation holds at each of its steps. *)

\* The units an operation has still to examine, has found inactive or is
\* restoring are recorded ones, and each is in one of these sets only.
Bookkeeping ==
    /\ todo \cup departed \cup pending \subseteq Recorded(mem)
    /\ todo \cap departed = {}
    /\ todo \cap pending = {}
    /\ departed \cap pending = {}
    /\ left \subseteq pending
    /\ pc \in {"revert", "inactive"} => reverted \subseteq pending \ left

\* Where an operation can be, and what it holds there.
Control ==
    /\ pc \in {"down", "idle"} => task = "none" /\ pending = {} /\ left = {} /\ reverted = {}
    /\ pc \in {"recover", "finishReset"} => task \in {"startup", "reconcile"} /\ left = {} /\ reverted = {}
    /\ pc = "recover" => pending = {}
    /\ pc = "finishReset" => \A u, v \in pending : u = v
    /\ pc = "inactive" => task = "inactive"
    /\ pc \in {"prepare", "recheck"} => task = "release"
    /\ pc \in {"set", "confirm"} =>
         IF tx.kind \in {"conflict", "baseline"} THEN task = "release"
                                                 ELSE task = "none" /\ pending = {} /\ todo = {}
    /\ pc \in {"set", "confirm", "recheck"} =>
         /\ tx \in Transactions
         /\ mem[tx.unit] # NoRecord
         /\ tx.unit \notin todo \cup pending
    /\ pc \in {"set", "confirm", "recheck", "prepare"} => left = {} /\ reverted = {}
    /\ pc \in {"reload", "verify"} => left = {}
    /\ departed # {} => task \in {"startup", "reconcile"} \/ pc = "inactive"
    /\ todo # {} => \/ task \in {"startup", "reconcile"}
                    \/ pc \in {"prepare", "set", "confirm", "recheck"}
    /\ task = "none" => pc \in {"down", "idle", "set", "confirm"}

\* Types and control: what every operation may rely on.
TInv == TypeOK /\ Bookkeeping /\ Control
-----------------------------------------------------------------------------
(* Steps of systemd and of the journal keep the types.                     *)

\* Every call of the manager and every event of the environment.
LEMMA SystemdTypes ==
    ASSUME SystemdTypeOK, NEW u \in Units
    PROVE  /\ \A a \in Assignments : SetUnitProperties(u, a) => SystemdTypeOK'
           /\ RevertUnitFiles(u) => SystemdTypeOK'
           /\ Reload => SystemdTypeOK'
           /\ Depart(u) => SystemdTypeOK'
           /\ Return(u) => SystemdTypeOK'
           /\ OperatorDropIn(u) => SystemdTypeOK'
           /\ OperatorRevert(u) => SystemdTypeOK'
<1> USE DEF SystemdTypeOK
<1>1. \A f \in Footprints : Configured(f) \in [Properties -> Values] /\ Present(f) \in SUBSET Paths
  BY Zenon DEF Configured, Present, Footprints, Paths, Values
<1>2. [p \in Properties |-> Vendor] \in [Properties -> Values]
  BY Zenon DEF Values
<1>3. ASSUME NEW a \in Assignments, SetUnitProperties(u, a) PROVE SystemdTypeOK'
  <2>1. DOMAIN a \subseteq Properties /\ \A p \in DOMAIN a : a[p] \in Values
    BY DEF Assignments
  <2>2. [x \in Paths |-> IF x \in DOMAIN a THEN a[x] ELSE disk[u][x]] \in Footprints
    BY <2>1 DEF Footprints
  <2>3. [p \in Properties |-> IF p \in DOMAIN a THEN a[p] ELSE prop[u][p]] \in [Properties -> Values]
    BY <2>1
  <2>4. loaded[u] \cup DOMAIN a \in SUBSET Paths
    BY <2>1, Zenon DEF Paths
  <2>5. QED
    BY Zenon, <1>3, <2>2, <2>3, <2>4 DEF SetUnitProperties
<1>4. RevertUnitFiles(u) => SystemdTypeOK'
  BY EmptyFootprintType, Zenon DEF RevertUnitFiles
<1>5. Reload => SystemdTypeOK'
  BY <1>1 DEF Reload
<1>6. Depart(u) => SystemdTypeOK'
  BY <1>2 DEF Depart
<1>7. Return(u) => SystemdTypeOK'
  BY <1>1, SystemdAssumption DEF Return
<1>8. OperatorDropIn(u) => SystemdTypeOK'
  <2>1. [disk[u] EXCEPT ![OperatorFile] = Foreign] \in Footprints
    BY Zenon DEF Footprints, Values
  <2>2. QED
    BY <2>1, Zenon DEF OperatorDropIn
<1>9. OperatorRevert(u) => SystemdTypeOK'
  BY Zenon, <1>2, EmptyFootprintType DEF OperatorRevert
<1>10. QED
  BY <1>3, <1>4, <1>5, <1>6, <1>7, <1>8, <1>9, Zenon

\* A journal write, failed or not, leaves typed journals and one of the two
\* memories it was asked to choose from.
LEMMA SaveTypes ==
    ASSUME TypeOK, NEW m \in Journals, NEW before \in Journals,
           Saved(m) \/ NotSaved(m, before)
    PROVE  /\ mem' \in Journals
           /\ journal' \in Journals
           /\ budget' \in 0..MaxDisturbances
BY ExportedType, LeasesAssumption DEF Saved, NotSaved, TypeOK, Disturb

\* A disturbance spends one unit of the budget.
LEMMA DisturbType ==
    ASSUME TypeOK, NEW k, Disturb(k)
    PROVE  budget' \in 0..MaxDisturbances
BY LeasesAssumption DEF TypeOK, Disturb

\* Replacing the record of one unit.
LEMMA UpdateType ==
    ASSUME NEW m \in Journals, NEW u \in Units, NEW r \in Record \cup {NoRecord}
    PROVE  /\ [m EXCEPT ![u] = r] \in Journals
           /\ r # NoRecord => Recorded([m EXCEPT ![u] = r]) = Recorded(m) \cup {u}
           /\ Recorded(m) \ {u} \subseteq Recorded([m EXCEPT ![u] = r])
BY Zenon DEF Journals, Recorded

\* The start of a property transaction.
LEMMA BeginTypes ==
    ASSUME TypeOK, NEW kind \in {"apply", "properties", "conflict", "baseline"},
           NEW u \in Units, NEW a \in Assignments, NEW staged \in Record,
           NEW before \in Journals, Recorded(mem) \subseteq Recorded(before),
           Begin(kind, u, a, staged, before)
    PROVE  /\ mem' \in Journals
           /\ journal' \in Journals
           /\ budget' \in 0..MaxDisturbances
           /\ Recorded(mem) \subseteq Recorded(mem')
           /\ \/ /\ pc' = "set"
                 /\ tx' = [kind |-> kind, unit |-> u, id |-> life[u], assign |-> a]
                 /\ tx' \in Transactions
                 /\ mem'[u] # NoRecord
              \/ pc' = AfterTransaction(kind) /\ tx' = tx
<1> DEFINE m == [before EXCEPT ![u] = staged]
<1>1. m \in Journals /\ Recorded(before) \subseteq Recorded(m) /\ m[u] = staged
  BY JournalAssumption, Zenon DEF Journals, Recorded
<1>2. Saved(m) \/ NotSaved(m, before)
  BY Zenon DEF Begin
<1> HIDE DEF m
<1>3. mem' \in Journals /\ journal' \in Journals /\ budget' \in 0..MaxDisturbances
  BY <1>1, <1>2, SaveTypes, Zenon
<1>4. mem' = m \/ mem' = before
  BY <1>2, Zenon DEF Saved, NotSaved
<1>5. life[u] \in 1..MaxLife
  BY Zenon DEF TypeOK, SystemdTypeOK
<1>6. [kind |-> kind, unit |-> u, id |-> life[u], assign |-> a] \in Transactions
  BY <1>5, Zenon DEF Transactions
<1>7. CASE Saved(m) /\ pc' = "set"
           /\ tx' = [kind |-> kind, unit |-> u, id |-> life[u], assign |-> a]
  BY <1>1, <1>3, <1>4, <1>6, <1>7, JournalAssumption, Zenon DEF Saved
<1>8. CASE NotSaved(m, before) /\ pc' = AfterTransaction(kind) /\ UNCHANGED tx
  BY <1>1, <1>3, <1>4, <1>8, Zenon
<1>9. QED
  BY <1>7, <1>8, Zenon DEF Begin, m

\* Init establishes types and control.
LEMMA InitTInv == Init => TInv
<1> SUFFICES ASSUME Init PROVE TInv
  BY Zenon
<1>1. SystemdTypeOK
  BY EmptyFootprintType, SystemdAssumption DEF Init, SystemdInit, SystemdTypeOK, Values
<1>2. NoRecords \in Journals
  BY Zenon DEF NoRecords, Journals
<1>3. TypeOK
  BY <1>1, <1>2, LeasesAssumption DEF Init, TypeOK, PCs, Tasks
<1>4. QED
  BY <1>3, Zenon DEF Init, TInv, Bookkeeping, Control

\* The start of a property transaction keeps types and control.
LEMMA BeginTInv ==
    ASSUME TInv, NEW kind \in {"apply", "properties", "conflict", "baseline"},
           NEW u \in Units, NEW a \in Assignments, NEW staged \in Record,
           NEW before \in Journals, Recorded(mem) \subseteq Recorded(before),
           Begin(kind, u, a, staged, before),
           \/ pc = "idle" /\ kind \in {"apply", "properties"} /\ UNCHANGED todo
           \/ pc = "prepare" /\ kind \in {"conflict", "baseline"} /\ u \in todo /\ todo' = todo \ {u},
           UNCHANGED <<systemdVars, blocked, task, departed, pending, left, reverted>>
    PROVE  TInv'
<1>1. /\ mem' \in Journals /\ journal' \in Journals /\ budget' \in 0..MaxDisturbances
      /\ Recorded(mem) \subseteq Recorded(mem')
      /\ \/ /\ pc' = "set"
            /\ tx' = [kind |-> kind, unit |-> u, id |-> life[u], assign |-> a]
            /\ tx' \in Transactions
            /\ mem'[u] # NoRecord
         \/ pc' = AfterTransaction(kind) /\ tx' = tx
  BY BeginTypes, Zenon DEF TInv
<1>2. TypeOK'
  BY <1>1, Zenon DEF TInv, TypeOK, SystemdTypeOK, systemdVars, PCs, AfterTransaction
<1>3. Bookkeeping'
  BY <1>1, Zenon DEF TInv, Bookkeeping, Control, Recorded, AfterTransaction
<1>4. Control'
  <2>1. left = {} /\ reverted = {} /\ departed = {}
    BY Zenon DEF TInv, Control
  <2>2. CASE pc' = "set"
    <3>1. tx'.kind = kind /\ tx'.unit = u /\ tx' \in Transactions /\ mem'[u] # NoRecord
      BY <1>1, <2>2 DEF AfterTransaction
    <3>2. CASE pc = "idle"
      <4>1. todo = {} /\ pending = {} /\ task = "none"
        BY <3>2, Zenon DEF TInv, Control
      <4>2. QED
        BY <2>1, <2>2, <3>1, <3>2, <4>1, Zenon DEF Control
    <3>3. CASE pc = "prepare"
      <4>1. task = "release" /\ u \notin todo' /\ u \notin pending
        BY <3>3, Zenon DEF TInv, Control, Bookkeeping
      <4>2. QED
        BY <2>1, <2>2, <3>1, <3>3, <4>1, Zenon DEF Control
    <3>4. QED
      BY <3>2, <3>3, Zenon
  <2>3. CASE pc' = AfterTransaction(kind)
    BY <2>1, <2>3, Zenon DEF TInv, Control, AfterTransaction
  <2>4. QED
    BY <1>1, <2>2, <2>3, Zenon
<1>5. QED
  BY <1>2, <1>3, <1>4, Zenon DEF TInv

\* Apply keeps types and control.
LEMMA ApplyTInv ==
    ASSUME TInv, NEW u \in Units, NEW a \in Requests, Apply(u, a)
    PROVE  TInv'
<1> DEFINE tracked == mem[u] # NoRecord
           r == IF tracked THEN mem[u] ELSE BlankRecord(life[u])
           L == [p \in Properties |->
                   IF p \notin DOMAIN a THEN r.lease[p]
                   ELSE IF r.lease[p] = NoLease THEN NewLease(prop[u][p])
                   ELSE Resolved(r.lease[p], prop[u][p])]
           acquired == [r EXCEPT !.lease = L]
           staged == StageMutation(StageLeases(acquired, a), DOMAIN a)
<1>1. a \in Assignments /\ DOMAIN a \subseteq Properties
  BY DEF Requests, Assignments, Values
<1>2. /\ mem[u] \in Record \cup {NoRecord} /\ life[u] \in 1..MaxLife
      /\ \A p \in Properties : prop[u][p] \in Values
  BY Zenon DEF TInv, TypeOK, SystemdTypeOK, Journals
<1>3. r \in Record
  BY <1>2, BlankRecordType, Zenon
<1> HIDE DEF r
<1>4. \A p \in Properties : r.lease[p] \in Lease \cup {NoLease}
  BY <1>3, Zenon DEF Record
<1>5. /\ L \in [Properties -> Lease \cup {NoLease}]
      /\ \A p \in DOMAIN a : L[p] # NoLease
  <2>1. \A p \in Properties : NewLease(prop[u][p]) \in Lease
    BY <1>2, NewLeaseType, Zenon
  <2>2. \A p \in Properties : r.lease[p] # NoLease => Resolved(r.lease[p], prop[u][p]) \in Lease
    BY Zenon, <1>2, <1>4, LeaseTypes
  <2>3. QED
    BY <1>1, <1>4, <2>1, <2>2, JournalAssumption, Zenon
<1> HIDE DEF L
<1>6. acquired \in Record /\ acquired.lease = L
  BY <1>3, <1>5, Zenon DEF Record
<1> HIDE DEF acquired
<1>7. staged \in Record
  BY <1>1, <1>5, <1>6, StageLeasesType, StageMutationType, Zenon
<1>8. /\ Begin("apply", u, a, staged, mem) /\ pc = "idle"
      /\ UNCHANGED <<systemdVars, blocked, task, todo, departed, pending, left, reverted>>
  BY Zenon DEF Apply, staged, acquired, L, r
<1> HIDE DEF staged
<1>9. QED
  BY <1>1, <1>7, <1>8, BeginTInv, Zenon DEF TInv, TypeOK

\* RestoreProperties keeps types and control.
LEMMA RestorePropertiesTInv ==
    ASSUME TInv, NEW u \in Units, NEW S \in SUBSET Properties, RestoreProperties(u, S)
    PROVE  TInv'
<1> DEFINE r == mem[u]
           owned == {p \in S \cap Leased(r) : Owned(r.lease[p], prop[u][p])}
           L == SettledLeases(r, owned, prop[u])
           resolved == [r EXCEPT !.lease = L]
           needed == {p \in owned : prop[u][p] # r.lease[p].baseline}
           a == [p \in needed |-> r.lease[p].baseline]
           staged == StageMutation(StageLeases(resolved, a), needed)
           before == [mem EXCEPT ![u] = resolved]
<1>1. r \in Record /\ prop[u] \in [Properties -> Values] /\ mem \in Journals
  BY Zenon DEF TInv, TypeOK, SystemdTypeOK, Journals, RestoreProperties
<1>2. owned \in SUBSET Leased(r)
  BY Zenon
<1>3. /\ L \in [Properties -> Lease \cup {NoLease}]
      /\ \A p \in Properties : L[p] = NoLease <=> r.lease[p] = NoLease
  BY Zenon, <1>1, <1>2, SettledType
<1> HIDE DEF L
<1>4. resolved \in Record /\ resolved.lease = L
  BY <1>1, <1>3, Zenon DEF Record
<1>5. a \in Assignments /\ needed \in SUBSET Properties
  <2>1. needed \subseteq Properties /\ \A p \in needed : r.lease[p] \in Lease
    BY <1>1, Zenon DEF Leased, Record
  <2>2. \A p \in needed : r.lease[p].baseline \in Values
    BY <2>1, Zenon DEF Lease
  <2>3. needed \in SUBSET Properties /\ a \in [needed -> Values]
    BY <2>1, <2>2, Zenon
  <2>4. QED
    BY <2>3, AssignmentsType, Zenon
<1>6. \A p \in needed : p \in Properties /\ r.lease[p] # NoLease
  BY Zenon DEF Leased
<1>7. before \in Journals /\ Recorded(mem) \subseteq Recorded(before)
  BY <1>1, <1>4, JournalAssumption, Zenon DEF Journals, Recorded
<1>8. /\ pc = "idle"
      /\ IF needed = {}
         THEN mem' = before /\ UNCHANGED <<journal, pc, tx, budget>>
         ELSE Begin("properties", u, a, staged, before)
      /\ UNCHANGED <<systemdVars, blocked, task, todo, departed, pending, left, reverted>>
  BY Zenon DEF RestoreProperties, L, SettledLeases
<1> HIDE DEF resolved, before
<1>9. CASE needed = {}
  <2>1. TypeOK'
    BY <1>7, <1>8, <1>9, Zenon DEF TInv, TypeOK, SystemdTypeOK, systemdVars
  <2>2. Bookkeeping' /\ Control'
    BY <1>7, <1>8, <1>9, Zenon DEF TInv, Bookkeeping, Control, Recorded
  <2>3. QED
    BY <2>1, <2>2, Zenon DEF TInv
<1>10. CASE needed # {}
  <2>1. DOMAIN a = needed
    BY Zenon
  <2> HIDE DEF a, needed
  <2>2. \A p \in DOMAIN a : resolved.lease[p] # NoLease
    BY <1>3, <1>4, <1>6, <2>1, Zenon
  <2>3. StageLeases(resolved, a) \in Record
    BY <1>4, <1>5, <2>2, StageLeasesType, Zenon
  <2>4. staged \in Record
    BY <1>5, <2>3, StageMutationType, Zenon
  <2> HIDE DEF staged
  <2>5. QED
    BY <1>5, <1>7, <1>8, <1>10, <2>4, BeginTInv, Zenon
<1>11. QED
  BY <1>9, <1>10, Zenon

\* SetProperties keeps types and control.
LEMMA SetPropertiesTInv ==
    ASSUME TInv, SetProperties
    PROVE  TInv'
<1>1. pc = "set" /\ tx \in Transactions /\ mem[tx.unit] # NoRecord
  BY Zenon DEF SetProperties, TInv, Control
<1>2. tx.unit \in Units /\ tx.assign \in Assignments
  BY <1>1, Zenon DEF Transactions
<1>3. SetUnitProperties(tx.unit, tx.assign) => SystemdTypeOK'
  BY <1>2, SystemdTypes, Zenon DEF TInv, TypeOK
<1>4. UNCHANGED systemdVars => SystemdTypeOK'
  BY Zenon DEF TInv, TypeOK, SystemdTypeOK, systemdVars
<1>5. SystemdTypeOK' /\ budget' \in 0..MaxDisturbances
  BY <1>3, <1>4, DisturbType, Zenon DEF SetProperties, TInv, TypeOK
<1>6. /\ UNCHANGED <<journal, mem, blocked, task, todo, departed, pending, left, reverted>>
      /\ \/ pc' = "confirm" /\ tx' = tx
         \/ pc' = AfterTransaction(tx.kind) /\ tx' = NoTx
  BY Zenon DEF SetProperties
<1>7. TypeOK'
  BY <1>5, <1>6, Zenon DEF TInv, TypeOK, AfterTransaction, PCs
<1>8. Bookkeeping' /\ Control'
  BY <1>1, <1>6, Zenon DEF TInv, Bookkeeping, Control, AfterTransaction, Recorded
<1>9. QED
  BY <1>7, <1>8, Zenon DEF TInv

\* Confirm keeps types and control.
LEMMA ConfirmTInv ==
    ASSUME TInv, Confirm
    PROVE  TInv'
<1> DEFINE u == tx.unit
           m == [mem EXCEPT ![u] = Confirmed(mem[u], disk[u])]
<1>1. pc = "confirm" /\ tx \in Transactions /\ mem[u] # NoRecord
  BY Zenon DEF Confirm, TInv, Control
<1>2. u \in Units
  BY <1>1, Zenon DEF Transactions
<1>3. mem \in Journals /\ mem[u] \in Record /\ disk[u] \in Footprints
  BY <1>1, <1>2, Zenon DEF TInv, TypeOK, SystemdTypeOK, Journals
<1>4. Confirmed(mem[u], disk[u]) \in Record
  BY <1>3, ConfirmedType, Zenon
<1>5. m \in Journals /\ Recorded(mem) = Recorded(m) /\ m[u] # NoRecord
  BY <1>1, <1>2, <1>3, <1>4, JournalAssumption, Zenon DEF Journals, Recorded
<1>6. /\ UNCHANGED <<systemdVars, blocked, task, todo, departed, pending, left, reverted>>
      /\ \/ tx.kind = "baseline" /\ pc' = "recheck" /\ UNCHANGED tx
         \/ pc' = AfterTransaction(tx.kind) /\ tx' = NoTx
      /\ \/ Saved(m)
         \/ NotSaved(m, mem)
         \/ Disturb("verify") /\ UNCHANGED <<mem, journal>>
         \/ UNCHANGED <<mem, journal, budget>>
  BY Zenon DEF Confirm
<1> HIDE DEF m
<1>7. mem' \in Journals /\ journal' \in Journals /\ budget' \in 0..MaxDisturbances
  BY <1>3, <1>5, <1>6, SaveTypes, DisturbType, Zenon DEF TInv, TypeOK
<1>8. Recorded(mem') = Recorded(mem)
  BY <1>5, <1>6, Zenon DEF Saved, NotSaved
<1>9. TypeOK'
  BY <1>6, <1>7, Zenon DEF TInv, TypeOK, SystemdTypeOK, systemdVars, AfterTransaction, PCs
<1>10. mem'[u] # NoRecord
  BY <1>1, <1>2, <1>8, Zenon DEF Recorded
<1>11. Bookkeeping' /\ Control'
  BY <1>1, <1>6, <1>8, <1>10, Zenon DEF TInv, Bookkeeping, Control, AfterTransaction
<1>12. QED
  BY <1>9, <1>11, Zenon DEF TInv

\* Release keeps types and control.
LEMMA ReleaseTInv ==
    ASSUME TInv, NEW S \in SUBSET Units, Release(S)
    PROVE  TInv'
<1>1. TypeOK'
  BY Zenon DEF Release, TInv, TypeOK, SystemdTypeOK, systemdVars, PCs, Tasks
<1>2. Bookkeeping' /\ Control'
  BY Zenon DEF Release, TInv, Bookkeeping, Control
<1>3. QED
  BY <1>1, <1>2, Zenon DEF TInv

\* The end of a batch keeps types and control.
LEMMA EndBatchTInv ==
    ASSUME TInv, NEW F \in SUBSET Units, EndBatch(F),
           pc \in {"prepare", "revert", "reload", "verify"},
           pc = "prepare" => todo = {},
           UNCHANGED <<tx, todo, departed>>,
           SystemdTypeOK', mem' \in Journals, journal' \in Journals,
           budget' \in 0..MaxDisturbances,
           Recorded(mem) \ pending \subseteq Recorded(mem')
    PROVE  TInv'
<1>1. TypeOK'
  BY Zenon DEF EndBatch, TInv, TypeOK, PCs, Tasks
<1>2. Bookkeeping'
  BY Zenon DEF EndBatch, TInv, Bookkeeping
<1>3. task # "none"
  BY Zenon DEF TInv, Control
<1>4. task \notin {"startup", "reconcile"} => todo = {} /\ departed = {}
  BY Zenon DEF TInv, Control
<1>5. Control'
  BY <1>3, <1>4, Zenon DEF EndBatch, Control
<1>6. QED
  BY <1>1, <1>2, <1>5, Zenon DEF TInv

\* A batch that ends without a write to systemd.
LEMMA SystemdUnchanged ==
    ASSUME TInv, UNCHANGED systemdVars
    PROVE  SystemdTypeOK'
BY Zenon DEF TInv, TypeOK, SystemdTypeOK, systemdVars

\* Recheck keeps types and control.
LEMMA RecheckTInv ==
    ASSUME TInv, Recheck
    PROVE  TInv'
<1>1. pc = "recheck" /\ tx \in Transactions /\ mem[tx.unit] # NoRecord
      /\ tx.unit \notin todo \cup pending
  BY Zenon DEF Recheck, TInv, Control
<1>2. tx.unit \in Units
  BY <1>1, Zenon DEF Transactions
<1>3. /\ pending' \in {pending, pending \cup {tx.unit}}
      /\ UNCHANGED budget \/ Disturb("transport")
      /\ pc' = "prepare" /\ tx' = NoTx
      /\ UNCHANGED <<systemdVars, journal, mem, blocked, task, todo, departed, left, reverted>>
  BY Zenon DEF Recheck
<1>4. budget' \in 0..MaxDisturbances
  BY <1>3, DisturbType, Zenon DEF TInv, TypeOK
<1>5. TypeOK'
  BY <1>2, <1>3, <1>4, SystemdUnchanged, Zenon DEF TInv, TypeOK, PCs
<1>6. departed = {}
  BY <1>1, Zenon DEF TInv, Control
<1>7. Bookkeeping'
  BY <1>1, <1>2, <1>3, <1>6, Zenon DEF TInv, Bookkeeping, Recorded, Control
<1>8. Control'
  BY <1>1, <1>3, <1>6, Zenon DEF TInv, Control
<1>9. QED
  BY <1>5, <1>7, <1>8, Zenon DEF TInv

\* FinishUnitRestores keeps types and control.
LEMMA FinishUnitRestoresTInv ==
    ASSUME TInv, FinishUnitRestores
    PROVE  TInv'
<1> DEFINE m == [u \in Units |-> IF u \in pending THEN RestoreIntent(mem[u]) ELSE mem[u]]
<1>1. mem \in Journals /\ pending \subseteq Recorded(mem)
  BY Zenon DEF TInv, TypeOK, Bookkeeping
<1>2. \A u \in Units : u \in pending => mem[u] \in Record /\ RestoreIntent(mem[u]) \in Record
  BY <1>1, RestoreIntentType, Zenon DEF Recorded, Journals
<1>3. m \in Journals /\ Recorded(m) = Recorded(mem)
  BY Zenon, <1>1, <1>2, JournalAssumption DEF Journals, Recorded
<1>4. /\ pc = "prepare" /\ todo = {}
      /\ \/ EndBatch({}) /\ UNCHANGED <<mem, journal, budget>>
         \/ /\ Saved(m) /\ pc' = "revert" /\ left' = pending
            /\ UNCHANGED <<blocked, task, pending, reverted>>
         \/ NotSaved(m, mem) /\ EndBatch({})
      /\ UNCHANGED <<systemdVars, tx, todo, departed>>
  BY Zenon DEF FinishUnitRestores
<1> HIDE DEF m
<1>5. mem' \in Journals /\ journal' \in Journals /\ budget' \in 0..MaxDisturbances
  BY <1>1, <1>3, <1>4, SaveTypes, Zenon DEF TInv, TypeOK
<1>6. Recorded(mem') = Recorded(mem)
  BY <1>3, <1>4, Zenon DEF Saved, NotSaved
<1>7. CASE EndBatch({})
  BY <1>4, <1>5, <1>6, <1>7, EndBatchTInv, SystemdUnchanged, Zenon
<1>8. CASE Saved(m) /\ pc' = "revert" /\ left' = pending /\ UNCHANGED <<blocked, task, pending, reverted>>
  <2>1. TypeOK'
    BY <1>4, <1>5, <1>8, SystemdUnchanged, Zenon DEF TInv, TypeOK, PCs
  <2>2. Bookkeeping' /\ Control'
    BY <1>4, <1>6, <1>8, Zenon DEF TInv, Bookkeeping, Control
  <2>3. QED
    BY <2>1, <2>2, Zenon DEF TInv
<1>9. QED
  BY <1>4, <1>7, <1>8, Zenon

\* PrepareUnitRestore keeps types and control.
LEMMA PrepareUnitRestoreTInv ==
    ASSUME TInv, NEW u \in Units, PrepareUnitRestore(u)
    PROVE  TInv'
<1> DEFINE r == mem[u]
           paths == CombinedPaths(u)
           f == IF paths # {} THEN disk[u] ELSE r.fp
           owned == {p \in Leased(r) : Owned(r.lease[p], prop[u][p])}
           needed == {p \in owned : prop[u][p] # r.lease[p].baseline}
           resolved == [r EXCEPT !.fp = f, !.lease = SettledLeases(r, owned, prop[u])]
           raw == [p \in needed |-> r.lease[p].baseline]
           effective == [p \in needed |-> EffectiveBaseline(p, r.lease[p].baseline)]
           before == [mem EXCEPT ![u] = resolved]
           removed == [mem EXCEPT ![u] = NoRecord]
<1>1. /\ pc = "prepare" /\ u \in todo /\ todo' = todo \ {u}
      /\ \/ UNCHANGED <<mem, journal, pc, tx, pending, budget>>
         \/ mem' = before /\ UNCHANGED <<journal, pc, tx, pending, budget>>
         \/ Begin("conflict", u, raw, StageLeases(resolved, raw), before) /\ UNCHANGED pending
         \/ /\ \/ Saved(removed) \/ NotSaved(removed, before)
               \/ Disturb("verify") /\ mem' = before /\ UNCHANGED journal
            /\ UNCHANGED <<pc, tx, pending>>
         \/ Begin("baseline", u, effective, StageLeases(resolved, effective), before) /\ UNCHANGED pending
         \/ mem' = before /\ pending' = pending \cup {u} /\ UNCHANGED <<journal, pc, tx, budget>>
      /\ UNCHANGED <<systemdVars, blocked, task, departed, left, reverted>>
  BY Zenon DEF PrepareUnitRestore, SettledLeases
<1>2. /\ mem \in Journals /\ r \in Record /\ f \in Footprints
      /\ prop[u] \in [Properties -> Values] /\ u \notin pending
  BY <1>1, Zenon DEF TInv, TypeOK, SystemdTypeOK, Journals, Bookkeeping, Recorded, Record
<1>3. owned \in SUBSET Leased(r) /\ needed \in SUBSET owned
  BY Zenon
<1>4. raw \in [needed -> Values] /\ effective \in [needed -> Values]
  <2>1. \A p \in needed : r.lease[p] \in Lease
    BY Zenon, <1>2 DEF Leased, Record
  <2>2. \A p \in needed : r.lease[p].baseline \in Values
    BY Zenon, <2>1 DEF Lease
  <2>3. QED
    BY <2>2, Zenon DEF EffectiveBaseline, Values
<1> HIDE DEF owned, needed, raw, effective, f
<1>5. /\ resolved \in Record /\ raw \in Assignments /\ effective \in Assignments
      /\ StageLeases(resolved, raw) \in Record /\ StageLeases(resolved, effective) \in Record
  BY Zenon, <1>2, <1>3, <1>4, PrepareTypes
<1> HIDE DEF r, resolved
<1>6. /\ before \in Journals /\ Recorded(mem) \subseteq Recorded(before)
      /\ removed \in Journals /\ Recorded(mem) \ {u} \subseteq Recorded(removed)
  BY <1>2, <1>5, JournalAssumption, Zenon DEF Journals, Recorded
<1> HIDE DEF before, removed
<1>7. CASE Begin("conflict", u, raw, StageLeases(resolved, raw), before) /\ UNCHANGED pending
  BY <1>1, <1>5, <1>6, <1>7, BeginTInv, Zenon
<1>8. CASE Begin("baseline", u, effective, StageLeases(resolved, effective), before) /\ UNCHANGED pending
  BY <1>1, <1>5, <1>6, <1>8, BeginTInv, Zenon
<1>9. ASSUME /\ mem' \in Journals /\ journal' \in Journals /\ budget' \in 0..MaxDisturbances
             /\ Recorded(mem) \ {u} \subseteq Recorded(mem') /\ UNCHANGED <<pc, tx>>
             /\ pending' = pending \/ (u \in Recorded(mem') /\ pending' = pending \cup {u})
      PROVE  TInv'
  <2>1. TypeOK'
    BY <1>1, <1>9, SystemdUnchanged, Zenon DEF TInv, TypeOK
  <2>2. departed = {}
    BY <1>1, Zenon DEF TInv, Control
  <2>3. Bookkeeping'
    BY Zenon, <1>1, <1>2, <1>9, <2>2 DEF TInv, Bookkeeping, Control
  <2>4. Control'
    BY Zenon, <1>1, <1>9, <2>2 DEF TInv, Control
  <2>5. QED
    BY <2>1, <2>3, <2>4, Zenon DEF TInv
<1>10. CASE UNCHANGED <<mem, journal, pc, tx, pending, budget>>
  BY <1>9, <1>10, Zenon DEF TInv, TypeOK
<1>11. CASE mem' = before /\ UNCHANGED <<journal, pc, tx, pending, budget>>
  BY <1>6, <1>9, <1>11, Zenon DEF TInv, TypeOK
<1>12. CASE mem' = before /\ pending' = pending \cup {u} /\ UNCHANGED <<journal, pc, tx, budget>>
  <2>1. u \in Recorded(mem')
    BY <1>1, <1>6, <1>12, Zenon DEF TInv, Bookkeeping
  <2>2. QED
    BY <1>6, <1>9, <1>12, <2>1, Zenon DEF TInv, TypeOK
<1>13. CASE /\ \/ Saved(removed) \/ NotSaved(removed, before)
               \/ Disturb("verify") /\ mem' = before /\ UNCHANGED journal
            /\ UNCHANGED <<pc, tx, pending>>
  <2>1. mem' \in Journals /\ journal' \in Journals /\ budget' \in 0..MaxDisturbances
    BY <1>6, <1>13, SaveTypes, DisturbType, Zenon DEF TInv, TypeOK
  <2>2. Recorded(mem) \ {u} \subseteq Recorded(mem')
    BY <1>6, <1>13, Zenon DEF Saved, NotSaved
  <2>3. QED
    BY <1>9, <1>13, <2>1, <2>2, Zenon
<1>14. QED
  BY <1>1, <1>7, <1>8, <1>10, <1>11, <1>12, <1>13, Zenon

-----------------------------------------------------------------------------
(* Types and control of reverts, crash recovery and the environment. *)

\* Revert keeps types and control.
LEMMA RevertTInv ==
    ASSUME TInv, NEW u \in Units, Revert(u)
    PROVE  TInv'
<1>1. SystemdTypeOK' /\ budget' \in 0..MaxDisturbances
  BY SystemdTypes, SystemdUnchanged, DisturbType, Zenon DEF Revert, TInv, TypeOK
<1>2. /\ pc = "revert" /\ u \in left /\ left' = left \ {u}
      /\ \/ reverted' = reverted \cup {u} /\ UNCHANGED <<pending, blocked>>
         \/ pending' = pending \ {u} /\ blocked' \in {blocked, blocked \cup {u}} /\ UNCHANGED reverted
      /\ UNCHANGED <<journal, mem, pc, tx, task, todo, departed>>
  BY Zenon DEF Revert
<1>3. TypeOK'
  BY <1>1, <1>2, Zenon DEF TInv, TypeOK
<1>4. u \in pending
  BY <1>2, Zenon DEF TInv, Bookkeeping
<1>5. Control'
  BY <1>2, Zenon DEF TInv, Control
<1>6. (todo \cup departed \cup pending \subseteq Recorded(mem))'
  BY <1>2, Zenon DEF TInv, Bookkeeping, Recorded
<1>7. (todo \cap departed = {} /\ todo \cap pending = {} /\ departed \cap pending = {})'
  BY <1>2, Zenon DEF TInv, Bookkeeping
<1>8. QED
  BY <1>2, <1>3, <1>4, <1>5, <1>6, <1>7, Zenon DEF TInv, Bookkeeping

\* RevertsDone keeps types and control.
LEMMA RevertsDoneTInv ==
    ASSUME TInv, RevertsDone
    PROVE  TInv'
<1> DEFINE m == [u \in Units |->
                   IF u \in reverted THEN [mem[u] EXCEPT !.phase = "reloading"] ELSE mem[u]]
<1>1. /\ pc = "revert" /\ left = {}
      /\ \/ EndBatch({}) /\ UNCHANGED <<mem, journal, budget>>
         \/ /\ pc' = "reload" /\ UNCHANGED <<blocked, task, pending, left, reverted>>
            /\ UNCHANGED <<mem, journal, budget>> \/ Saved(m)
         \/ NotSaved(m, mem) /\ EndBatch(reverted)
         \/ /\ NotSaved(m, mem) /\ pc' = "reload"
            /\ pending' = pending \ reverted /\ blocked' = blocked \cup reverted
            /\ UNCHANGED <<task, left, reverted>>
      /\ UNCHANGED <<systemdVars, tx, todo, departed>>
  BY Zenon DEF RevertsDone
<1>2. mem \in Journals /\ reverted \subseteq Recorded(mem) /\ reverted \in SUBSET Units
  BY <1>1, Zenon DEF TInv, TypeOK, Bookkeeping
<1>3. \A u \in Units : u \in reverted => [mem[u] EXCEPT !.phase = "reloading"] \in Record
  BY <1>2, Zenon DEF Recorded, Journals, Record, Phases
<1>4. m \in Journals /\ Recorded(m) = Recorded(mem)
  BY Zenon, <1>2, <1>3, JournalAssumption DEF Journals, Recorded
<1> HIDE DEF m
<1>5. mem' \in Journals /\ journal' \in Journals /\ budget' \in 0..MaxDisturbances
  BY <1>1, <1>2, <1>4, SaveTypes, Zenon DEF TInv, TypeOK
<1>6. Recorded(mem') = Recorded(mem)
  BY <1>1, <1>4, Zenon DEF Saved, NotSaved
<1>7. CASE EndBatch({}) \/ EndBatch(reverted)
  BY <1>1, <1>2, <1>5, <1>6, <1>7, EndBatchTInv, SystemdUnchanged, Zenon
<1>8. CASE /\ pc' = "reload" /\ UNCHANGED <<task, left, reverted>>
           /\ pending' \in {pending, pending \ reverted}
           /\ blocked' \in {blocked, blocked \cup reverted}
  <2>1. TypeOK'
    BY <1>1, <1>2, <1>5, <1>8, SystemdUnchanged, Zenon DEF TInv, TypeOK, PCs
  <2>2. Bookkeeping'
    BY <1>1, <1>6, <1>8, Zenon DEF TInv, Bookkeeping
  <2>3. Control'
    BY <1>1, <1>8, Zenon DEF TInv, Control
  <2>4. QED
    BY <2>1, <2>2, <2>3, Zenon DEF TInv
<1>9. QED
  BY <1>1, <1>7, <1>8, Zenon

\* ReloadManager keeps types and control.
LEMMA ReloadManagerTInv ==
    ASSUME TInv, ReloadManager
    PROVE  TInv'
<1>1. budget' \in 0..MaxDisturbances
  BY DisturbType, Zenon DEF ReloadManager, TInv, TypeOK
<1>2. Reload => SystemdTypeOK'
  <2>1. CASE Units = {}
    BY <2>1, Zenon DEF Reload, TInv, TypeOK, SystemdTypeOK
  <2>2. CASE Units # {}
    BY <2>2, SystemdTypes, Zenon DEF TInv, TypeOK
  <2>3. QED
    BY <2>1, <2>2, Zenon
<1>3. SystemdTypeOK'
  BY <1>2, SystemdUnchanged, Zenon DEF ReloadManager
<1>4. /\ pc = "reload"
      /\ \/ pc' = "verify" /\ UNCHANGED <<blocked, task, pending, left, reverted>>
         \/ EndBatch(pending)
      /\ UNCHANGED <<journal, mem, tx, todo, departed>>
  BY Zenon DEF ReloadManager
<1>5. CASE EndBatch(pending)
  BY <1>1, <1>3, <1>4, <1>5, EndBatchTInv, Zenon DEF TInv, TypeOK, Recorded
<1>6. CASE pc' = "verify" /\ UNCHANGED <<blocked, task, pending, left, reverted>>
  <2>1. TypeOK'
    BY <1>1, <1>3, <1>4, <1>6, Zenon DEF TInv, TypeOK, PCs
  <2>2. Bookkeeping' /\ Control'
    BY <1>4, <1>6, Zenon DEF TInv, Bookkeeping, Control, Recorded
  <2>3. QED
    BY <2>1, <2>2, Zenon DEF TInv
<1>7. QED
  BY <1>4, <1>5, <1>6, Zenon

\* KernelMismatch keeps types and control.
LEMMA KernelMismatchTInv ==
    ASSUME TInv, NEW u \in Units, KernelMismatch(u)
    PROVE  TInv'
<1>1. TypeOK'
  BY DisturbType, SystemdUnchanged, Zenon DEF KernelMismatch, TInv, TypeOK
<1>2. Bookkeeping' /\ Control'
  BY Zenon DEF KernelMismatch, TInv, Bookkeeping, Control, Recorded
<1>3. QED
  BY <1>1, <1>2, Zenon DEF TInv

\* VerifyAndRemove keeps types and control.
LEMMA VerifyAndRemoveTInv ==
    ASSUME TInv, VerifyAndRemove
    PROVE  TInv'
<1> DEFINE good == {u \in pending : Verified(u)}
           m == [u \in Units |-> IF u \in good THEN NoRecord ELSE mem[u]]
<1>1. /\ pc = "verify"
      /\ \/ UNCHANGED <<mem, journal, budget>> /\ EndBatch(pending)
         \/ Saved(m) /\ EndBatch(pending \ good)
         \/ NotSaved(m, mem) /\ EndBatch(pending)
      /\ UNCHANGED <<systemdVars, tx, todo, departed>>
  BY Zenon DEF VerifyAndRemove
<1>2. good \subseteq pending
  BY Zenon
<1> HIDE DEF good
<1>3. mem \in Journals /\ m \in Journals /\ pending \in SUBSET Units
  BY Zenon DEF TInv, TypeOK, Journals
<1>4. Recorded(mem) \ pending \subseteq Recorded(m)
  BY <1>2, <1>3, Zenon DEF Recorded
<1> HIDE DEF m
<1>5. mem' \in Journals /\ journal' \in Journals /\ budget' \in 0..MaxDisturbances
  BY <1>1, <1>3, SaveTypes, Zenon DEF TInv, TypeOK
<1>6. Recorded(mem) \ pending \subseteq Recorded(mem')
  BY <1>1, <1>4, Zenon DEF Saved, NotSaved
<1>7. pending \ good \in SUBSET Units
  BY <1>3, Zenon
<1>8. QED
  BY <1>1, <1>3, <1>5, <1>6, <1>7, EndBatchTInv, SystemdUnchanged, Zenon

\* The start of recovery keeps types and control.
LEMMA StartTInv ==
    ASSUME TInv, Start \/ ReconcileOwned
    PROVE  TInv'
<1>1. /\ pc \in {"down", "idle"} /\ pc' = "recover" /\ task' \in {"startup", "reconcile"}
      /\ mem' \in Journals
      /\ todo' = {u \in Recorded(mem') : active[u]}
      /\ departed' = {u \in Recorded(mem') : ~active[u]}
      /\ UNCHANGED <<systemdVars, journal, blocked, tx, pending, left, reverted, budget>>
  BY Zenon DEF Start, ReconcileOwned, StartRecovery, TInv, TypeOK
<1>2. TypeOK'
  BY <1>1, SystemdUnchanged, Zenon DEF TInv, TypeOK, PCs, Tasks, Recorded
<1>3. Bookkeeping'
  BY <1>1, Zenon DEF TInv, Bookkeeping, Control
<1>4. Control'
  BY <1>1, Zenon DEF TInv, Control
<1>5. QED
  BY <1>2, <1>3, <1>4, Zenon DEF TInv

\* A journal write of recovery keeps the records of the other units.
LEMMA RecoverySaveTypes ==
    ASSUME TInv, NEW u \in Units, NEW r \in Record \cup {NoRecord}, NEW next,
           RecoverySave(u, [mem EXCEPT ![u] = r], mem, next)
    PROVE  /\ mem' \in Journals /\ journal' \in Journals /\ budget' \in 0..MaxDisturbances
           /\ blocked' \in SUBSET Units
           /\ Recorded(mem) \ {u} \subseteq Recorded(mem')
           /\ \/ pc' = next /\ (r # NoRecord => u \in Recorded(mem'))
              \/ pc' = pc /\ mem' = mem
<1> DEFINE m == [mem EXCEPT ![u] = r]
<1>1. mem \in Journals /\ blocked \in SUBSET Units
  BY Zenon DEF TInv, TypeOK
<1>2. m \in Journals /\ Recorded(mem) \ {u} \subseteq Recorded(m) /\ (r # NoRecord => u \in Recorded(m))
  BY <1>1, Zenon DEF Journals, Recorded
<1>3. \/ Saved(m) /\ Resolve(u) /\ pc' = next
      \/ NotSaved(m, mem) /\ Conflict(u) /\ UNCHANGED pc
  BY Zenon DEF RecoverySave
<1> HIDE DEF m
<1>4. mem' \in Journals /\ journal' \in Journals /\ budget' \in 0..MaxDisturbances
  BY <1>1, <1>2, <1>3, SaveTypes, Zenon DEF TInv
<1>5. blocked' \in SUBSET Units
  BY <1>1, <1>3, Zenon DEF Resolve, Conflict
<1>6. QED
  BY <1>2, <1>3, <1>4, <1>5, Zenon DEF Saved, NotSaved

\* RecoverUnit keeps types and control.
LEMMA RecoverUnitTInv ==
    ASSUME TInv, NEW u \in Units, RecoverUnit(u)
    PROVE  TInv'
<1>1. /\ pc = "recover" /\ u \in todo /\ todo' = todo \ {u}
      /\ UNCHANGED <<systemdVars, tx, task, reverted>>
  BY Zenon DEF RecoverUnit
<1>2. /\ pending = {} /\ left = {} /\ reverted = {} /\ task \in {"startup", "reconcile"}
      /\ u \notin departed /\ mem[u] \in Record /\ mem \in Journals
      /\ disk[u] \in Footprints /\ life[u] \in 1..MaxLife
  BY <1>1, Zenon DEF TInv, TypeOK, SystemdTypeOK, Bookkeeping, Control, Recorded, Journals
<1>3. ASSUME /\ mem' \in Journals /\ journal' \in Journals /\ budget' \in 0..MaxDisturbances
             /\ blocked' \in SUBSET Units
             /\ Recorded(mem) \ {u} \subseteq Recorded(mem')
             /\ departed' \in {departed, departed \cup {u}}
             /\ departed' # departed => pending' = {} /\ u \in Recorded(mem')
             /\ pending' # {} => pending' = {u} /\ u \in Recorded(mem')
             /\ left' \subseteq pending'
             /\ \/ pc' = "recover" /\ pending' = {}
                \/ pc' = "finishReset" /\ left' = {}
                \/ pc' = "reload" /\ left' = {}
                \/ pc' = "revert"
      PROVE  TInv'
  <2>1. TypeOK'
    <3>1. pending' \in SUBSET Units /\ left' \in SUBSET Units
      BY <1>3, Zenon
    <3>2. QED
      BY <1>1, <1>2, <1>3, <3>1, SystemdUnchanged, Zenon DEF TInv, TypeOK, PCs
  <2>2. Bookkeeping'
    BY <1>1, <1>2, <1>3, Zenon DEF TInv, Bookkeeping
  <2>3. Control'
    BY <1>1, <1>2, <1>3, Zenon DEF Control
  <2>4. QED
    BY <2>1, <2>2, <2>3, Zenon DEF TInv
<1>4. blocked \in SUBSET Units /\ journal \in Journals /\ budget \in 0..MaxDisturbances
      /\ u \in Recorded(mem)
  BY <1>1, Zenon DEF TInv, TypeOK, Bookkeeping
<1>5. CASE RecoverRestore(u)
  BY <1>1, <1>2, <1>3, <1>4, <1>5, Zenon DEF RecoverRestore, Resolve, Conflict, Recorded
<1>6. CASE RecoverApplied(u)
  <2> DEFINE rebound == [mem[u] EXCEPT !.id = life[u]]
  <2>1. rebound \in Record /\ [mem EXCEPT ![u].id = life[u]] = [mem EXCEPT ![u] = rebound]
    BY <1>2, Zenon DEF Record
  <2>2. /\ [mem EXCEPT ![u] = rebound] \in Journals
        /\ Recorded(mem) \subseteq Recorded([mem EXCEPT ![u] = rebound])
    BY <1>2, <2>1, JournalAssumption, Zenon DEF Journals, Recorded
  <2> HIDE DEF rebound
  <2>3. /\ UNCHANGED <<departed, left>>
        /\ \/ UNCHANGED <<journal, mem, pc, pending, budget>> /\ (Conflict(u) \/ Resolve(u))
           \/ /\ mem' = [mem EXCEPT ![u] = rebound] /\ pc' = "finishReset" /\ pending' = {u}
              /\ Resolve(u) /\ UNCHANGED <<journal, budget>>
           \/ /\ mem' = [mem EXCEPT ![u] = rebound] /\ Conflict(u)
              /\ UNCHANGED <<journal, pc, pending, budget>>
           \/ RecoverySave(u, [mem EXCEPT ![u] = rebound], mem, "recover") /\ UNCHANGED pending
    BY <1>6, <2>1, Zenon DEF RecoverApplied
  <2>4. CASE UNCHANGED <<journal, mem, pc, pending, budget>> /\ (Conflict(u) \/ Resolve(u))
    BY <1>1, <1>2, <1>3, <1>4, <2>3, <2>4, Zenon DEF Conflict, Resolve, Recorded
  <2>5. CASE /\ mem' = [mem EXCEPT ![u] = rebound] /\ pc' = "finishReset" /\ pending' = {u}
             /\ Resolve(u) /\ UNCHANGED <<journal, budget>>
    BY Zenon, <1>1, <1>2, <1>3, <1>4, <2>2, <2>3, <2>5 DEF Resolve
  <2>6. CASE /\ mem' = [mem EXCEPT ![u] = rebound] /\ Conflict(u)
             /\ UNCHANGED <<journal, pc, pending, budget>>
    BY Zenon, <1>1, <1>2, <1>3, <1>4, <2>2, <2>3, <2>6 DEF Conflict
  <2>7. CASE RecoverySave(u, [mem EXCEPT ![u] = rebound], mem, "recover") /\ UNCHANGED pending
    BY <1>1, <1>2, <1>3, <2>1, <2>3, <2>7, RecoverySaveTypes, Zenon
  <2>8. QED
    BY <2>3, <2>4, <2>5, <2>6, <2>7, Zenon
<1>7. CASE RecoverApplying(u)
  <2> DEFINE next == IF AtBaseline(mem[u], u) THEN "finishReset" ELSE "recover"
             confirmed == Confirmed([mem[u] EXCEPT !.id = life[u]], disk[u])
  <2>1. confirmed \in Record /\ confirmed # NoRecord
    <3>1. [mem[u] EXCEPT !.id = life[u]] \in Record
      BY <1>2, Zenon DEF Record
    <3>2. QED
      BY <1>2, <3>1, ConfirmedType, JournalAssumption, Zenon
  <2>2. RolledBack(mem[u]) \in Record \cup {NoRecord}
    BY <1>2, RolledBackType, Zenon
  <2>3. /\ UNCHANGED <<departed, left>>
        /\ \/ /\ RecoverySave(u, [mem EXCEPT ![u] = confirmed], mem, next)
              /\ pending' = IF pc' = "finishReset" THEN {u} ELSE {}
           \/ RecoverySave(u, [mem EXCEPT ![u] = RolledBack(mem[u])], mem, "recover") /\ UNCHANGED pending
           \/ Conflict(u) /\ UNCHANGED <<journal, mem, pc, pending, budget>>
    BY <1>7, Zenon DEF RecoverApplying
  <2>4. next \in {"finishReset", "recover"}
    BY Zenon
  <2> HIDE DEF next, confirmed
  <2>5. CASE /\ RecoverySave(u, [mem EXCEPT ![u] = confirmed], mem, next)
             /\ pending' = IF pc' = "finishReset" THEN {u} ELSE {}
    <3>1. /\ mem' \in Journals /\ journal' \in Journals /\ budget' \in 0..MaxDisturbances
          /\ blocked' \in SUBSET Units
          /\ Recorded(mem) \ {u} \subseteq Recorded(mem')
          /\ \/ pc' = next /\ u \in Recorded(mem')
             \/ pc' = pc /\ mem' = mem
      BY <2>1, <2>5, RecoverySaveTypes, Zenon
    <3>2. QED
      BY <1>1, <1>2, <1>3, <2>3, <2>4, <2>5, <3>1, Zenon
  <2>6. CASE RecoverySave(u, [mem EXCEPT ![u] = RolledBack(mem[u])], mem, "recover") /\ UNCHANGED pending
    BY <1>1, <1>2, <1>3, <2>2, <2>3, <2>6, RecoverySaveTypes, Zenon
  <2>7. CASE Conflict(u) /\ UNCHANGED <<journal, mem, pc, pending, budget>>
    BY <1>1, <1>2, <1>3, <1>4, <2>3, <2>7, Zenon DEF Conflict, Recorded
  <2>8. QED
    BY <2>3, <2>5, <2>6, <2>7, Zenon
<1>8. CASE RecoverMissing(u)
  BY <1>1, <1>2, <1>3, <1>4, <1>8, Zenon DEF RecoverMissing, Resolve, Recorded
<1>9. CASE RecoverUnreadable(u)
  BY <1>1, <1>2, <1>3, <1>4, <1>9, DisturbType, Zenon DEF RecoverUnreadable, Conflict, Recorded, TInv
<1>10. QED
  BY <1>5, <1>6, <1>7, <1>8, <1>9, Zenon DEF RecoverUnit

\* FinishResetUnit keeps types and control.
LEMMA FinishResetUnitTInv ==
    ASSUME TInv, NEW u \in Units, FinishResetUnit(u)
    PROVE  TInv'
<1> DEFINE staged == StageUnitRestore(mem[u])
           m == [mem EXCEPT ![u] = staged]
<1>1. /\ pc = "finishReset" /\ u \in pending
      /\ \/ Saved(m) /\ pc' = "revert" /\ left' = {u} /\ UNCHANGED <<blocked, pending>>
         \/ /\ NotSaved(m, mem) \/ UNCHANGED <<mem, journal, budget>>
            /\ Conflict(u) /\ pc' = "recover" /\ pending' = {} /\ left' = {}
      /\ UNCHANGED <<systemdVars, tx, task, todo, departed, reverted>>
  BY Zenon DEF FinishResetUnit
<1>2. mem \in Journals /\ mem[u] \in Record
  BY <1>1, Zenon DEF TInv, TypeOK, Bookkeeping, Journals, Recorded
<1>3. staged \in Record
  BY <1>2, RestoreIntentType, Zenon
<1> HIDE DEF staged
<1>4. m \in Journals /\ Recorded(m) = Recorded(mem)
  BY <1>2, <1>3, JournalAssumption, Zenon DEF Journals, Recorded
<1> HIDE DEF m
<1>5. mem' \in Journals /\ journal' \in Journals /\ budget' \in 0..MaxDisturbances
  BY <1>1, <1>2, <1>4, SaveTypes, Zenon DEF TInv, TypeOK
<1>6. Recorded(mem') = Recorded(mem)
  BY <1>1, <1>4, Zenon DEF Saved, NotSaved
<1>7. TypeOK'
  BY <1>1, <1>5, SystemdUnchanged, Zenon DEF TInv, TypeOK, PCs, Conflict
<1>8. Bookkeeping'
  BY <1>1, <1>6, Zenon DEF TInv, Bookkeeping, Control
<1>9. Control'
  BY <1>1, Zenon DEF TInv, Control
<1>10. QED
  BY <1>7, <1>8, <1>9, Zenon DEF TInv

\* EndRecovery keeps types and control.
LEMMA EndRecoveryTInv ==
    ASSUME TInv, EndRecovery
    PROVE  TInv'
<1>1. TypeOK'
  BY SystemdUnchanged, Zenon DEF EndRecovery, TInv, TypeOK, PCs, Tasks
<1>2. Bookkeeping'
  BY Zenon DEF EndRecovery, TInv, Bookkeeping, Control, Recorded
<1>3. Control'
  BY Zenon DEF EndRecovery, TInv, Control
<1>4. QED
  BY <1>1, <1>2, <1>3, Zenon DEF TInv

\* PrepareInactiveRecovery keeps types and control.
LEMMA PrepareInactiveRecoveryTInv ==
    ASSUME TInv, NEW u \in Units, PrepareInactiveRecovery(u)
    PROVE  TInv'
<1>1. /\ pc = "inactive" /\ u \in departed /\ departed' = departed \ {u}
      /\ \/ /\ RecoverySave(u, [mem EXCEPT ![u] = RolledBack(mem[u])], mem, "inactive")
            /\ UNCHANGED <<pending, left>>
         \/ /\ pending' \in {pending, pending \cup {u}}
            /\ left' \in {left, left \cup {u}}
            /\ left' # left => pending' = pending \cup {u}
            /\ Resolve(u) \/ Conflict(u)
            /\ UNCHANGED <<journal, mem, pc, budget>>
      /\ UNCHANGED <<systemdVars, tx, task, todo, reverted>>
  BY Zenon DEF PrepareInactiveRecovery
<1>2. /\ task = "inactive" /\ u \in Recorded(mem) /\ u \notin pending /\ u \notin todo
      /\ mem \in Journals /\ mem[u] \in Record
  BY <1>1, Zenon DEF TInv, TypeOK, Bookkeeping, Control, Journals, Recorded
<1>3. RolledBack(mem[u]) \in Record \cup {NoRecord}
  BY <1>2, RolledBackType, Zenon
<1>4. CASE /\ RecoverySave(u, [mem EXCEPT ![u] = RolledBack(mem[u])], mem, "inactive")
           /\ UNCHANGED <<pending, left>>
  <2>1. /\ mem' \in Journals /\ journal' \in Journals /\ budget' \in 0..MaxDisturbances
        /\ blocked' \in SUBSET Units /\ pc' = "inactive"
        /\ Recorded(mem) \ {u} \subseteq Recorded(mem')
    BY <1>1, <1>3, <1>4, RecoverySaveTypes, Zenon
  <2>2. TypeOK'
    BY <1>1, <1>4, <2>1, SystemdUnchanged, Zenon DEF TInv, TypeOK, PCs
  <2>3. Bookkeeping' /\ Control'
    BY <1>1, <1>2, <1>4, <2>1, Zenon DEF TInv, Bookkeeping, Control
  <2>4. QED
    BY <2>2, <2>3, Zenon DEF TInv
<1>5. CASE /\ pending' \in {pending, pending \cup {u}}
           /\ left' \in {left, left \cup {u}}
           /\ left' # left => pending' = pending \cup {u}
           /\ Resolve(u) \/ Conflict(u)
           /\ UNCHANGED <<journal, mem, pc, budget>>
  <2>1. TypeOK'
    BY <1>1, <1>5, SystemdUnchanged, Zenon DEF TInv, TypeOK, PCs, Resolve, Conflict
  <2>2. Bookkeeping'
    BY <1>1, <1>2, <1>5, Zenon DEF TInv, Bookkeeping, Recorded
  <2>3. Control'
    BY <1>1, <1>2, <1>5, Zenon DEF TInv, Control
  <2>4. QED
    BY <2>1, <2>2, <2>3, Zenon DEF TInv
<1>6. QED
  BY <1>1, <1>4, <1>5, Zenon

\* InactiveIntent keeps types and control.
LEMMA InactiveIntentTInv ==
    ASSUME TInv, InactiveIntent
    PROVE  TInv'
<1> DEFINE staged == {u \in left : mem[u].phase \in {"applying", "applied"}}
           m == [u \in Units |-> IF u \in staged THEN StageUnitRestore(mem[u]) ELSE mem[u]]
<1>1. /\ pc = "inactive" /\ departed = {} /\ pc' = "revert"
      /\ \/ UNCHANGED <<mem, journal, blocked, pending, left, budget>>
         \/ Saved(m) /\ UNCHANGED <<blocked, pending, left>>
         \/ /\ NotSaved(m, mem) /\ pending' = pending \ staged /\ left' = left \ staged
            /\ blocked' = blocked \cup staged
      /\ UNCHANGED <<systemdVars, tx, task, todo, departed, reverted>>
  BY Zenon DEF InactiveIntent
<1>2. staged \subseteq left
  BY Zenon
<1> HIDE DEF staged
<1>3. mem \in Journals /\ left \subseteq Recorded(mem) /\ staged \in SUBSET Units
  BY <1>2, Zenon DEF TInv, TypeOK, Bookkeeping
<1>4. \A u \in Units : u \in staged => mem[u] \in Record /\ StageUnitRestore(mem[u]) \in Record
  BY <1>2, <1>3, RestoreIntentType, Zenon DEF Journals, Recorded
<1>5. m \in Journals /\ Recorded(m) = Recorded(mem)
  BY Zenon, <1>3, <1>4, JournalAssumption DEF Journals, Recorded
<1> HIDE DEF m
<1>6. mem' \in Journals /\ journal' \in Journals /\ budget' \in 0..MaxDisturbances
  BY <1>1, <1>3, <1>5, SaveTypes, Zenon DEF TInv, TypeOK
<1>7. Recorded(mem') = Recorded(mem)
  BY <1>1, <1>5, Zenon DEF Saved, NotSaved
<1>8. TypeOK'
  BY <1>1, <1>3, <1>6, SystemdUnchanged, Zenon DEF TInv, TypeOK, PCs
<1>9. Bookkeeping'
  BY <1>1, <1>2, <1>7, Zenon DEF TInv, Bookkeeping
<1>10. Control'
  BY <1>1, Zenon DEF TInv, Control
<1>11. QED
  BY <1>8, <1>9, <1>10, Zenon DEF TInv

\* The end of the process keeps types and control.
LEMMA DownTInv ==
    ASSUME TInv, Close \/ Crash
    PROVE  TInv'
<1>1. Down /\ budget' \in 0..MaxDisturbances
  BY DisturbType, Zenon DEF Close, Crash, TInv, TypeOK
<1>2. NoRecords \in Journals
  BY Zenon DEF NoRecords, Journals
<1>3. TypeOK'
  BY <1>1, <1>2, SystemdUnchanged, Zenon DEF Down, TInv, TypeOK, PCs, Tasks
<1>4. Bookkeeping' /\ Control'
  BY <1>1, Zenon DEF Down, Bookkeeping, Control
<1>5. QED
  BY <1>3, <1>4, Zenon DEF TInv

\* The environment keeps types and control.
LEMMA EnvironmentTInv ==
    ASSUME TInv, Environment
    PROVE  TInv'
<1>1. PICK u \in Units :
        \/ Disturb("depart") /\ Depart(u)
        \/ Return(u) /\ UNCHANGED budget
        \/ Disturb("operator") /\ \E p \in Properties : OperatorSet(u, p)
        \/ Disturb("operator") /\ OperatorDropIn(u)
        \/ Disturb("operator") /\ OperatorRevert(u)
  BY Zenon DEF Environment
<1>2. \A p \in Properties : OperatorSet(u, p) => SystemdTypeOK'
  <2> TAKE p \in Properties
  <2>1. {p} \in SUBSET Properties /\ [x \in {p} |-> Foreign] \in [{p} -> Values]
    BY Zenon DEF Values
  <2>2. [x \in {p} |-> Foreign] \in Assignments
    BY <2>1, AssignmentsType, Zenon
  <2>3. QED
    BY <2>2, SystemdTypes, Zenon DEF OperatorSet, TInv, TypeOK
<1>3. SystemdTypeOK' /\ budget' \in 0..MaxDisturbances
  BY <1>1, <1>2, SystemdTypes, DisturbType, Zenon DEF TInv, TypeOK
<1>4. UNCHANGED adapterVars
  BY Zenon DEF Environment
<1>5. TypeOK'
  BY <1>3, <1>4, Zenon DEF TInv, TypeOK, adapterVars
<1>6. Bookkeeping' /\ Control'
  BY Zenon, <1>4 DEF TInv, Bookkeeping, Control, adapterVars, Recorded
<1>7. QED
  BY <1>5, <1>6, Zenon DEF TInv

\* Every step keeps types and control.
LEMMA NextTInv == TInv /\ [Next]_vars => TInv'
<1> SUFFICES ASSUME TInv, [Next]_vars PROVE TInv'
  BY Zenon
<1>1. CASE Client
  BY <1>1, ApplyTInv, RestorePropertiesTInv, ReleaseTInv, StartTInv, DownTInv, Zenon DEF Client
<1>2. CASE Progress
  BY <1>2, SetPropertiesTInv, ConfirmTInv, RecheckTInv, PrepareUnitRestoreTInv, RevertTInv,
     KernelMismatchTInv, FinishUnitRestoresTInv, RevertsDoneTInv, ReloadManagerTInv,
     VerifyAndRemoveTInv, RecoverUnitTInv, FinishResetUnitTInv, PrepareInactiveRecoveryTInv,
     EndRecoveryTInv, InactiveIntentTInv, Zenon DEF Progress
<1>3. CASE Crash \/ Environment
  BY <1>3, DownTInv, EnvironmentTInv, Zenon
<1>4. CASE UNCHANGED vars
  <2>1. TypeOK'
    BY <1>4, SystemdUnchanged, Zenon DEF TInv, TypeOK, vars, adapterVars
  <2>2. Bookkeeping' /\ Control'
    BY Zenon, <1>4 DEF TInv, Bookkeeping, Control, Recorded, vars, adapterVars
  <2>3. QED
    BY <2>1, <2>2, Zenon DEF TInv
<1>5. QED
  BY <1>1, <1>2, <1>3, <1>4, Zenon DEF Next

\* Types and control hold throughout, whatever fails or crashes.
THEOREM LeaseControl == Spec => []TInv
<1>1. QED
  BY InitTInv, NextTInv, PTL DEF Spec

\* The adapter, its journal and systemd keep their types: in particular every
\* batch works on recorded units only.
THEOREM LeaseTypeCorrect == Spec => []TypeOK
<1>1. TInv => TypeOK
  BY Zenon DEF TInv
<1>2. QED
  BY <1>1, LeaseControl, PTL

-----------------------------------------------------------------------------
(* The journal stays sound. *)

SoundJournal(m) == \A u \in Units : Sound(disk[u], m[u])

\* The live properties of an active unit are those of its files.
Live == \A u \in Units, p \in Properties :
            active[u] /\ disk[u][p] # NoFile => prop[u][p] = disk[u][p]

\* The mutation about to be dispatched is staged in memory and in the journal.
StagedTx ==
    pc = "set" => \A m \in {mem, journal} :
        /\ m[tx.unit] # NoRecord
        /\ \A p \in DOMAIN tx.assign :
             /\ m[tx.unit].lease[p] # NoLease
             /\ m[tx.unit].lease[p].uncertain
             /\ m[tx.unit].lease[p].last = tx.assign[p]

\* A unit about to be forgotten whose files were not reverted has none left.
Cleared ==
    pc \in {"inactive", "revert", "reload", "verify"} =>
        \A u \in pending \ (left \cup reverted), p \in Properties : ~OwnFile(disk[u], p)

SInv ==
    /\ SoundJournal(journal)
    /\ pc # "down" => SoundJournal(mem)
    /\ Live
    /\ StagedTx
    /\ Cleared
-----------------------------------------------------------------------------
(* Every step keeps the journal sound.                                     *)

\* Exporting keeps a journal sound, and its leases.
LEMMA ExportedSound ==
    ASSUME NEW m \in Journals, SoundJournal(m)
    PROVE  /\ SoundJournal(Exported(m))
           /\ \A u \in Units : m[u] # NoRecord =>
                Exported(m)[u] # NoRecord /\ Exported(m)[u].lease = m[u].lease
<1>1. ASSUME NEW u \in Units
      PROVE  /\ Sound(disk[u], Exported(m)[u])
             /\ m[u] # NoRecord => Exported(m)[u] # NoRecord /\ Exported(m)[u].lease = m[u].lease
  <2>1. CASE m[u] = NoRecord
    BY <2>1, Zenon DEF Exported, SoundJournal
  <2>2. CASE m[u] # NoRecord
    <3>1. m[u] \in Record /\ Exported(m)[u] = Durable(m[u]) /\ Sound(disk[u], m[u])
      BY <2>2, Zenon DEF Journals, Exported, SoundJournal
    <3>2. QED
      BY <3>1, SoundExported, Zenon
  <2>3. QED
    BY <2>1, <2>2, Zenon
<1>2. QED
  BY <1>1, Zenon DEF SoundJournal

\* A journal write keeps journal and memory sound.
LEMMA SaveSound ==
    ASSUME SoundJournal(journal), NEW m \in Journals, ValidJournal(m) => SoundJournal(m),
           NEW before, SoundJournal(before), UNCHANGED disk,
           Saved(m) \/ NotSaved(m, before)
    PROVE  SoundJournal(journal)' /\ SoundJournal(mem)'
<1>1. ValidJournal(m) => SoundJournal(Exported(m))
  BY ExportedSound, Zenon
<1>2. \/ ValidJournal(m) /\ mem' = m /\ journal' = Exported(m)
      \/ mem' = before /\ journal' = journal
      \/ ValidJournal(m) /\ mem' = before /\ journal' = Exported(m)
  BY Zenon DEF Saved, NotSaved
<1>3. QED
  BY <1>1, <1>2, Zenon DEF SoundJournal

\* A record replaced by a sound one.
LEMMA UpdateSound ==
    ASSUME NEW m \in Journals, SoundJournal(m), NEW u \in Units, NEW r, Sound(disk[u], r)
    PROVE  SoundJournal([m EXCEPT ![u] = r])
BY Zenon DEF SoundJournal, Journals

\* A step that leaves systemd alone and dispatches nothing.
LEMMA QuietSInv ==
    ASSUME SInv, UNCHANGED systemdVars, pc' # "set",
           SoundJournal(journal)', pc' # "down" => SoundJournal(mem)', Cleared'
    PROVE  SInv'
<1>1. Live'
  BY Zenon DEF SInv, Live, systemdVars
<1>2. QED
  BY <1>1, Zenon DEF SInv, StagedTx

\* The start of a property transaction keeps the journal sound.
LEMMA BeginSInv ==
    ASSUME TInv, SInv, NEW kind \in {"apply", "properties", "conflict", "baseline"},
           NEW u \in Units, NEW a, NEW staged, NEW before \in Journals,
           SoundJournal(before), StagedSoundly(disk[u], staged, a),
           Begin(kind, u, a, staged, before), UNCHANGED systemdVars
    PROVE  SInv'
<1> DEFINE m == [before EXCEPT ![u] = staged]
<1>0. /\ staged \in Record /\ Sound(disk[u], staged)
      /\ \A p \in DOMAIN a : /\ staged.lease[p] # NoLease /\ staged.lease[p].uncertain
                             /\ staged.lease[p].last = a[p]
  BY Zenon DEF StagedSoundly
<1>1. m \in Journals /\ SoundJournal(m) /\ m[u] = staged /\ m[u] # NoRecord
  BY Zenon, <1>0, UpdateSound, JournalAssumption DEF Journals
<1>2. \/ /\ Saved(m) /\ pc' = "set"
         /\ tx' = [kind |-> kind, unit |-> u, id |-> life[u], assign |-> a]
      \/ NotSaved(m, before) /\ pc' = AfterTransaction(kind)
  BY Zenon DEF Begin
<1> HIDE DEF m
<1>3. SoundJournal(journal)' /\ SoundJournal(mem)'
  BY <1>1, <1>2, SaveSound, Zenon DEF SInv, systemdVars
<1>4. CASE NotSaved(m, before) /\ pc' = AfterTransaction(kind)
  <2>1. Cleared' /\ pc' # "set"
    BY <1>4, Zenon DEF Cleared, AfterTransaction
  <2>2. QED
    BY <1>3, <2>1, QuietSInv, Zenon
<1>5. CASE /\ Saved(m) /\ pc' = "set"
           /\ tx' = [kind |-> kind, unit |-> u, id |-> life[u], assign |-> a]
  <2>1. Live' /\ Cleared'
    BY <1>5, Zenon DEF SInv, Live, systemdVars, Cleared
  <2>2. tx'.unit = u /\ tx'.assign = a /\ mem' = m /\ journal' = Exported(m)
    BY <1>5, Zenon DEF Saved
  <2>3. Exported(m)[u] # NoRecord /\ Exported(m)[u].lease = m[u].lease
    BY <1>1, ExportedSound, Zenon
  <2>4. StagedTx'
    BY <1>0, <1>1, <2>2, <2>3 DEF StagedTx
  <2>5. QED
    BY <1>3, <2>1, <2>4, Zenon DEF SInv
<1>6. QED
  BY <1>2, <1>4, <1>5, Zenon

\* Init establishes soundness.
LEMMA InitSInv == Init => SInv
<1> SUFFICES ASSUME Init PROVE SInv
  BY Zenon
<1>1. \A u \in Units, p \in Properties : disk[u][p] = NoFile
  BY EmptyFootprintType, Zenon DEF Init, SystemdInit, Paths
<1>2. SoundJournal(journal)
  BY Zenon, <1>1 DEF Init, NoRecords, SoundJournal, Sound, OwnFile
<1>3. QED
  BY <1>1, <1>2, Zenon DEF Init, SInv, Live, StagedTx, Cleared

\* Apply keeps the journal sound: a property without a lease has no drop-in
\* of ResMan's, neither on disk nor among the digests.
LEMMA ApplySInv ==
    ASSUME TInv, SInv, NEW u \in Units, NEW a \in Requests, Apply(u, a)
    PROVE  SInv'
<1> DEFINE tracked == mem[u] # NoRecord
           r == IF tracked THEN mem[u] ELSE BlankRecord(life[u])
           L == [p \in Properties |->
                   IF p \notin DOMAIN a THEN r.lease[p]
                   ELSE IF r.lease[p] = NoLease THEN NewLease(prop[u][p])
                   ELSE Resolved(r.lease[p], prop[u][p])]
           acquired == [r EXCEPT !.lease = L]
           staged == StageMutation(StageLeases(acquired, a), DOMAIN a)
           f == disk[u]
           v == prop[u]
<1>1. a \in Assignments /\ DOMAIN a \in SUBSET Properties
  BY DEF Requests, Assignments, Values
<1>2. /\ mem[u] \in Record \cup {NoRecord} /\ life[u] \in 1..MaxLife /\ mem \in Journals
      /\ v \in [Properties -> Values] /\ f \in Footprints
  BY Zenon DEF TInv, TypeOK, SystemdTypeOK, Journals
<1>3. /\ pc = "idle" /\ active[u]
      /\ Begin("apply", u, a, staged, mem) /\ UNCHANGED systemdVars
  BY Zenon DEF Apply
<1>4. SoundJournal(mem) /\ Sound(f, mem[u]) /\ \A p \in Properties : f[p] # NoFile => v[p] = f[p]
  BY <1>3, Zenon DEF SInv, SoundJournal, Live
<1>5. r \in Record /\ r # NoRecord
  BY <1>2, BlankRecordType, JournalAssumption, Zenon
<1>6. Sound(f, r)
  <2>1. CASE tracked
    BY <1>4, <2>1, Zenon
  <2>2. CASE ~tracked
    <3>1. \A p \in Properties : ~OwnFile(f, p)
      BY <1>4, <2>2, Zenon DEF Sound
    <3>2. r = BlankRecord(life[u])
      BY <2>2, Zenon
    <3>3. /\ \A p \in Properties : r.lease[p] = NoLease
          /\ r.fp = EmptyFootprint /\ r.prevfp = EmptyFootprint
      BY <3>2 DEF BlankRecord
    <3>4. \A p \in Properties : ~OwnFile(EmptyFootprint, p)
      BY EmptyFootprintType, Zenon DEF OwnFile, Paths
    <3>5. QED
      BY <1>5, <3>1, <3>3, <3>4, Zenon DEF Sound
  <2>3. QED
    BY <2>1, <2>2, Zenon
<1> HIDE DEF r, f, v
<1>7. \A p \in Properties : r.lease[p] \in Lease \cup {NoLease}
  BY <1>5, Zenon DEF Record
<1>8. ASSUME NEW p \in DOMAIN a
      PROVE  /\ L[p] \in Lease /\ L[p] # NoLease
             /\ OwnFile(f, p) => r.lease[p] # NoLease
             /\ L[p].new => ~OwnFile(f, p) /\ (r.lease[p] = NoLease \/ r.lease[p].new)
  <2>1. p \in Properties /\ v[p] \in Values
    BY <1>1, <1>2, Zenon
  <2>2. OwnFile(f, p) => r.lease[p] # NoLease
    BY <1>5, <1>6, <2>1, Zenon DEF Sound
  <2>3. CASE r.lease[p] = NoLease
    <3>1. L[p] = NewLease(v[p])
      BY <2>1, <2>3, Zenon DEF v
    <3>2. QED
      BY <2>1, <2>2, <2>3, <3>1, NewLeaseType, JournalAssumption, Zenon
  <2>4. CASE r.lease[p] # NoLease
    <3>1. L[p] = Resolved(r.lease[p], v[p]) /\ r.lease[p] \in Lease
      BY <1>7, <2>1, <2>4, Zenon DEF v
    <3>2. L[p] \in Lease
      BY Zenon, <2>1, <3>1, LeaseTypes
    <3>3. L[p].new => r.lease[p].new
      BY <3>1, ResolvedNew
    <3>4. OwnFile(f, p) => ~L[p].new
      BY <1>2, <1>4, <1>5, <1>6, <2>1, <2>4, <3>1, SettledNew, Zenon
    <3>5. QED
      BY <2>2, <3>2, <3>3, <3>4, JournalAssumption, Zenon
  <2>5. QED
    BY <2>3, <2>4, Zenon
<1>9. \A p \in Properties : p \notin DOMAIN a => L[p] = r.lease[p]
  BY Zenon
<1>10. L \in [Properties -> Lease \cup {NoLease}]
  <2>1. \A p \in Properties : L[p] \in Lease \cup {NoLease}
    BY Zenon, <1>7, <1>8, <1>9
  <2>2. QED
    BY <2>1, Zenon
<1> HIDE DEF L
<1>11. /\ acquired \in Record /\ acquired.lease = L
       /\ acquired.fp = r.fp /\ acquired.prevfp = r.prevfp
  BY <1>5, <1>10, Zenon DEF Record
<1> HIDE DEF acquired
<1>12. Sound(f, acquired)
  <2>1. acquired # NoRecord
    BY <1>11, JournalAssumption, Zenon
  <2>2. ASSUME NEW p \in Properties
        PROVE  /\ OwnFile(f, p) => L[p] # NoLease
               /\ L[p] # NoLease /\ L[p].new /\ OwnFile(f, p) => L[p].uncertain /\ f[p] = L[p].last
               /\ L[p] = NoLease \/ L[p].new => ~OwnFile(r.fp, p) /\ ~OwnFile(r.prevfp, p)
    <3>1. CASE p \in DOMAIN a
      <4>1. r.lease[p] = NoLease \/ r.lease[p].new => ~OwnFile(r.fp, p) /\ ~OwnFile(r.prevfp, p)
        BY <1>5, <1>6, Zenon DEF Sound
      <4>2. L[p] # NoLease /\ (L[p].new => ~OwnFile(f, p) /\ (r.lease[p] = NoLease \/ r.lease[p].new))
        BY <1>8, <3>1, Zenon
      <4>3. QED
        BY <4>1, <4>2, Zenon
    <3>2. CASE p \notin DOMAIN a
      BY <1>5, <1>6, <1>9, <3>2, Zenon DEF Sound
    <3>3. QED
      BY <3>1, <3>2, Zenon
  <2>3. QED
    BY <1>11, <2>1, <2>2, Zenon DEF Sound
<1>13. \A p \in DOMAIN a : acquired.lease[p] # NoLease /\ (acquired.lease[p].new => ~OwnFile(f, p))
  BY <1>8, <1>11, Zenon
<1>14. StagedSoundly(f, StageLeases(acquired, a), a)
  <2>1. Stageable(f, acquired, a)
    BY <1>1, <1>11, <1>12, <1>13, Zenon DEF Stageable
  <2>2. QED
    BY Zenon, <2>1, SoundStaged
<1>15. StagedSoundly(disk[u], staged, a)
  BY Zenon, <1>1, <1>14, SoundStagedMutation DEF f
<1> HIDE DEF staged
<1>16. QED
  BY Zenon, <1>2, <1>3, <1>4, <1>15, BeginSInv

\* RestoreProperties keeps the journal sound.
LEMMA RestorePropertiesSInv ==
    ASSUME TInv, SInv, NEW u \in Units, NEW S \in SUBSET Properties, RestoreProperties(u, S)
    PROVE  SInv'
<1> DEFINE r == mem[u]
           f == disk[u]
           owned == {p \in S \cap Leased(r) : Owned(r.lease[p], prop[u][p])}
           L == SettledLeases(r, owned, prop[u])
           resolved == [r EXCEPT !.lease = L]
           needed == {p \in owned : prop[u][p] # r.lease[p].baseline}
           a == [p \in needed |-> r.lease[p].baseline]
           staged == StageMutation(StageLeases(resolved, a), needed)
           before == [mem EXCEPT ![u] = resolved]
<1>1. /\ r \in Record /\ prop[u] \in [Properties -> Values] /\ mem \in Journals
      /\ f \in Footprints /\ r.fp \in Footprints
  BY Zenon DEF TInv, TypeOK, SystemdTypeOK, Journals, RestoreProperties, Record
<1>2. /\ pc = "idle" /\ active[u] /\ UNCHANGED systemdVars
      /\ IF needed = {}
         THEN mem' = before /\ UNCHANGED <<journal, pc, tx, budget>>
         ELSE Begin("properties", u, a, staged, before)
  BY Zenon DEF RestoreProperties, SettledLeases
<1>3. /\ SoundJournal(mem) /\ Sound(f, r)
      /\ \A p \in Properties : f[p] # NoFile => prop[u][p] = f[p]
  BY <1>2, Zenon DEF SInv, SoundJournal, Live
<1>4. owned \in SUBSET Leased(r) /\ needed \in SUBSET owned
  BY Zenon
<1>5. a \in Assignments /\ needed \in SUBSET Properties /\ DOMAIN a = needed
  <2>1. needed \subseteq Properties /\ \A p \in needed : r.lease[p] \in Lease
    BY <1>1, Zenon DEF Leased, Record
  <2>2. \A p \in needed : r.lease[p].baseline \in Values
    BY <2>1, Zenon DEF Lease
  <2>3. needed \in SUBSET Properties /\ a \in [needed -> Values]
    BY <2>1, <2>2, Zenon
  <2>4. QED
    BY <2>3, AssignmentsType, Zenon
<1>6. L \in [Properties -> Lease \cup {NoLease}]
  BY <1>1, <1>4, SettledType, Zenon
<1>7. SettledRecord(r, owned, prop[u], r.fp) = resolved
  <2>1. [r EXCEPT !.fp = r.fp, !.lease = L] = resolved
    BY Zenon, <1>1, <1>6 DEF Record
  <2>2. QED
    BY <2>1, Zenon DEF SettledRecord
<1> HIDE DEF f, owned, needed, a, resolved
<1>8. /\ resolved \in Record /\ Sound(f, resolved)
      /\ \A p \in owned : resolved.lease[p].new => ~OwnFile(f, p)
      /\ \A p \in Properties : resolved.lease[p] = NoLease <=> r.lease[p] = NoLease
  <2>1. Settles(f, r, owned, prop[u], r.fp)
    BY <1>1, <1>3, <1>4, Zenon DEF Settles
  <2> HIDE DEF r
  <2>2. SettledSoundly(f, r, owned, resolved)
    BY Zenon, <1>7, <2>1, SoundSettled
  <2>3. QED
    BY Zenon, <2>2 DEF SettledSoundly
<1>9. before \in Journals /\ SoundJournal(before)
  BY Zenon, <1>1, <1>3, <1>8, UpdateSound DEF f, Journals
<1> HIDE DEF before
<1>10. CASE needed = {}
  <2>1. SoundJournal(mem)' /\ SoundJournal(journal)' /\ pc' = "idle"
    BY <1>2, <1>9, <1>10, Zenon DEF SInv, SoundJournal, systemdVars
  <2>2. Cleared'
    BY <2>1, Zenon DEF Cleared
  <2>3. QED
    BY <1>2, <2>1, <2>2, QuietSInv, Zenon
<1>11. CASE needed # {}
  <2>1. \A p \in DOMAIN a : resolved.lease[p] # NoLease /\ (resolved.lease[p].new => ~OwnFile(f, p))
    BY <1>4, <1>5, <1>8, Zenon DEF Leased
  <2>2. StagedSoundly(f, StageLeases(resolved, a), a)
    <3>1. Stageable(f, resolved, a)
      BY <1>5, <1>8, <2>1, Zenon DEF Stageable
    <3>2. QED
      BY Zenon, <3>1, SoundStaged
  <2>3. StagedSoundly(disk[u], staged, a)
    BY Zenon, <1>5, <2>2, SoundStagedMutation DEF f
  <2> HIDE DEF staged
  <2>4. Begin("properties", u, a, staged, before) /\ UNCHANGED systemdVars
    BY <1>2, <1>11, Zenon
  <2>5. QED
    BY Zenon, <1>9, <2>3, <2>4, BeginSInv
<1>12. QED
  BY <1>10, <1>11, Zenon

\* SetProperties writes staged values only.
LEMMA SetPropertiesSInv ==
    ASSUME TInv, SInv, SetProperties
    PROVE  SInv'
<1> DEFINE u == tx.unit
           a == tx.assign
<1>1. /\ pc = "set" /\ pc' # "set" /\ pc' \in {"confirm", "prepare", "idle"}
      /\ UNCHANGED <<journal, mem>>
      /\ SetUnitProperties(u, a) \/ UNCHANGED systemdVars
  BY Zenon DEF SetProperties, AfterTransaction
<1>2. u \in Units /\ a \in Assignments
  BY <1>1, Zenon DEF TInv, Control, Transactions
<1>3. DOMAIN a \subseteq Properties
  BY <1>2, Zenon DEF Assignments
<1>4. Cleared' /\ StagedTx'
  BY <1>1, Zenon DEF Cleared, StagedTx
<1>5. CASE UNCHANGED systemdVars
  BY Zenon, <1>1, <1>4, <1>5, QuietSInv DEF SInv, SoundJournal, systemdVars
<1>6. CASE SetUnitProperties(u, a)
  <2>1. disk \in [Units -> Footprints] /\ prop \in [Units -> [Properties -> Values]]
    BY Zenon DEF TInv, TypeOK, SystemdTypeOK
  <2>2. /\ \A w \in Units : w # u => disk'[w] = disk[w]
        /\ \A p \in Properties : disk'[u][p] = IF p \in DOMAIN a THEN a[p] ELSE disk[u][p]
    BY <1>2, <1>6, <2>1, Zenon DEF SetUnitProperties, Paths
  <2>3. ASSUME NEW m \in {mem, journal} PROVE \A w \in Units : Sound(disk'[w], m[w])
    <3>1. \A w \in Units : Sound(disk[w], m[w])
      BY <1>1, Zenon DEF SInv, SoundJournal
    <3>2. /\ m[u] # NoRecord
          /\ \A p \in DOMAIN a : /\ m[u].lease[p] # NoLease /\ m[u].lease[p].uncertain
                                 /\ m[u].lease[p].last = a[p]
      BY <1>1, Zenon DEF SInv, StagedTx
    <3>3. Sound(disk'[u], m[u])
      <4>1. \A p \in Properties : disk'[u][p] = IF p \in DOMAIN a THEN a[p] ELSE disk[u][p]
        BY <2>2, Zenon
      <4>2. Sound(disk[u], m[u])
        BY <1>2, <3>1, Zenon
      <4>3. QED
        BY Zenon, <1>3, <3>2, <4>1, <4>2 DEF Sound, OwnFile
    <3>4. QED
      BY <2>2, <3>1, <3>3, Zenon
  <2>4. SoundJournal(journal)' /\ SoundJournal(mem)'
    BY <1>1, <2>3, Zenon DEF SoundJournal
  <2>5. Live'
    <3>1. \A w \in Units : w # u => prop'[w] = prop[w] /\ active'[w] = active[w]
      BY <1>6, <2>1, Zenon DEF SetUnitProperties
    <3>2. active'[u] => \A p \in Properties : prop'[u][p] = IF p \in DOMAIN a THEN a[p] ELSE prop[u][p]
      BY <1>2, <1>6, <2>1 DEF SetUnitProperties
    <3>3. active' = active
      BY <1>6, Zenon DEF SetUnitProperties
    <3>4. QED
      BY <1>2, <2>2, <3>1, <3>2, <3>3 DEF SInv, Live
  <2>6. QED
    BY <1>4, <2>4, <2>5, Zenon DEF SInv
<1>7. QED
  BY <1>1, <1>5, <1>6, Zenon

\* Confirm keeps the journal sound.
LEMMA ConfirmSInv ==
    ASSUME TInv, SInv, Confirm
    PROVE  SInv'
<1> DEFINE u == tx.unit
           m == [mem EXCEPT ![u] = Confirmed(mem[u], disk[u])]
<1>1. /\ pc = "confirm" /\ pc' \in {"recheck", "prepare", "idle"} /\ UNCHANGED systemdVars
      /\ Saved(m) \/ NotSaved(m, mem) \/ UNCHANGED <<mem, journal>>
  BY Zenon DEF Confirm, AfterTransaction
<1>2. tx \in Transactions /\ mem[u] # NoRecord
  BY <1>1, Zenon DEF TInv, Control
<1>3. u \in Units
  BY <1>2, Zenon DEF Transactions
<1>4. mem \in Journals /\ mem[u] \in Record /\ disk[u] \in Footprints
      /\ SoundJournal(mem) /\ Sound(disk[u], mem[u])
  BY <1>1, <1>2, <1>3, Zenon DEF TInv, TypeOK, SystemdTypeOK, Journals, SInv, SoundJournal
<1>5. Confirmed(mem[u], disk[u]) \in Record /\ Sound(disk[u], Confirmed(mem[u], disk[u]))
  BY <1>4, ConfirmedType, SoundConfirmed, Zenon
<1>6. m \in Journals /\ SoundJournal(m)
  BY Zenon, <1>3, <1>4, <1>5, UpdateSound DEF Journals
<1> HIDE DEF m
<1>7. SoundJournal(journal)' /\ SoundJournal(mem)'
  <2>1. CASE Saved(m) \/ NotSaved(m, mem)
    BY <1>1, <1>4, <1>6, <2>1, SaveSound, Zenon DEF SInv, systemdVars
  <2>2. CASE UNCHANGED <<mem, journal>>
    BY <1>1, <1>4, <2>2, Zenon DEF SInv, SoundJournal, systemdVars
  <2>3. QED
    BY <1>1, <2>1, <2>2, Zenon
<1>8. Cleared'
  BY <1>1, Zenon DEF Cleared
<1>9. QED
  BY <1>1, <1>7, <1>8, QuietSInv, Zenon

\* PrepareUnitRestore keeps the journal sound: it forgets a record only when
\* the unit has no mutable file left.
LEMMA PrepareUnitRestoreSInv ==
    ASSUME TInv, SInv, NEW u \in Units, PrepareUnitRestore(u)
    PROVE  SInv'
<1> DEFINE r == mem[u]
           paths == CombinedPaths(u)
           f == disk[u]
           g == IF paths # {} THEN disk[u] ELSE r.fp
           owned == {p \in Leased(r) : Owned(r.lease[p], prop[u][p])}
           needed == {p \in owned : prop[u][p] # r.lease[p].baseline}
           resolved == [r EXCEPT !.fp = g, !.lease = SettledLeases(r, owned, prop[u])]
           raw == [p \in needed |-> r.lease[p].baseline]
           effective == [p \in needed |-> EffectiveBaseline(p, r.lease[p].baseline)]
           before == [mem EXCEPT ![u] = resolved]
           removed == [mem EXCEPT ![u] = NoRecord]
<1>1. /\ pc = "prepare" /\ u \in todo /\ UNCHANGED systemdVars
      /\ \/ UNCHANGED <<mem, journal, pc>>
         \/ /\ active[u]
            /\ \/ mem' = before /\ UNCHANGED <<journal, pc>>
               \/ Begin("conflict", u, raw, StageLeases(resolved, raw), before)
               \/ paths = {} /\ UNCHANGED pc /\ (Saved(removed) \/ NotSaved(removed, before))
               \/ Begin("baseline", u, effective, StageLeases(resolved, effective), before)
  BY Zenon DEF PrepareUnitRestore, SettledLeases, Restorable
<1>2. /\ mem \in Journals /\ r \in Record /\ f \in Footprints /\ g \in Footprints
      /\ prop[u] \in [Properties -> Values]
      /\ SoundJournal(mem) /\ Sound(f, r)
  BY <1>1, Zenon DEF TInv, TypeOK, SystemdTypeOK, Journals, Bookkeeping, Recorded, Record, SInv, SoundJournal
<1>3. SoundJournal(journal)' \/ ~UNCHANGED journal
  BY <1>1, Zenon DEF SInv, SoundJournal, systemdVars
<1>4. CASE UNCHANGED <<mem, journal, pc>>
  <2>1. SoundJournal(mem)' /\ Cleared'
    BY <1>1, <1>2, <1>4, Zenon DEF SoundJournal, systemdVars, Cleared
  <2>2. QED
    BY <1>1, <1>3, <1>4, <2>1, QuietSInv, Zenon
<1>5. CASE active[u]
  <2>1. \A p \in Properties : f[p] # NoFile => prop[u][p] = f[p]
    BY <1>5, Zenon DEF SInv, Live
  <2>2. owned \in SUBSET Leased(r) /\ needed \in SUBSET owned
    BY Zenon
  <2>3. raw \in [needed -> Values] /\ effective \in [needed -> Values]
    <3>1. \A p \in needed : r.lease[p] \in Lease
      BY <1>2, Zenon DEF Leased, Record
    <3>2. \A p \in needed : r.lease[p].baseline \in Values
      BY <3>1, Zenon DEF Lease
    <3>3. QED
      BY <3>2, Zenon DEF EffectiveBaseline, Values
  <2>4. Settles(f, r, owned, prop[u], g)
    BY Zenon, <1>2, <2>1, <2>2 DEF Settles
  <2>5. resolved = SettledRecord(r, owned, prop[u], g)
    BY Zenon DEF SettledRecord
  <2> HIDE DEF r, resolved, raw, effective, needed, owned, f, g, paths
  <2>6. /\ resolved \in Record /\ Sound(f, resolved)
        /\ \A p \in owned : resolved.lease[p].new => ~OwnFile(f, p)
        /\ \A p \in Properties : resolved.lease[p] = NoLease <=> r.lease[p] = NoLease
    <3>1. SettledSoundly(f, r, owned, resolved)
      BY Zenon, <2>4, <2>5, SoundSettled
    <3>2. QED
      BY Zenon, <3>1 DEF SettledSoundly
  <2>7. before \in Journals /\ SoundJournal(before) /\ removed \in Journals
    BY Zenon, <1>2, <2>6, UpdateSound DEF Journals, f
  <2>8. needed \in SUBSET Properties /\ \A p \in needed :
          resolved.lease[p] # NoLease /\ (resolved.lease[p].new => ~OwnFile(f, p))
    BY <2>2, <2>6, Zenon DEF Leased
  <2>9. /\ raw \in Assignments /\ DOMAIN raw = needed
        /\ effective \in Assignments /\ DOMAIN effective = needed
    BY <2>3, <2>8, AssignmentsType, Zenon
  <2> HIDE DEF before, removed
  <2>10. ASSUME NEW kind \in {"conflict", "baseline"}, NEW a \in Assignments, DOMAIN a = needed,
                Begin(kind, u, a, StageLeases(resolved, a), before)
         PROVE  SInv'
    <3>1. Stageable(f, resolved, a)
      BY <2>6, <2>8, <2>10, Zenon DEF Stageable
    <3>2. StagedSoundly(disk[u], StageLeases(resolved, a), a)
      BY Zenon, <3>1, SoundStaged DEF f
    <3>3. UNCHANGED systemdVars
      BY Zenon, <1>1
    <3>4. QED
      BY Zenon, <2>7, <2>10, <3>2, <3>3, BeginSInv
  <2>11. CASE Begin("conflict", u, raw, StageLeases(resolved, raw), before)
    BY <2>9, <2>10, <2>11, Zenon
  <2>12. CASE Begin("baseline", u, effective, StageLeases(resolved, effective), before)
    BY <2>9, <2>10, <2>12, Zenon
  <2>13. CASE mem' = before /\ UNCHANGED <<journal, pc>>
    <3>1. SoundJournal(mem)' /\ Cleared'
      BY <1>1, <2>7, <2>13, Zenon DEF SoundJournal, systemdVars, Cleared
    <3>2. QED
      BY <1>1, <1>3, <2>13, <3>1, QuietSInv, Zenon
  <2>14. CASE paths = {} /\ UNCHANGED pc /\ (Saved(removed) \/ NotSaved(removed, before))
    <3>1. \A p \in Properties : ~OwnFile(f, p)
      BY <2>14, Zenon DEF paths, CombinedPaths, Present, OwnFile, f, Paths
    <3>2. Sound(f, NoRecord)
      BY <3>1, Zenon DEF Sound
    <3>3. SoundJournal(removed)
      BY <1>2, <3>2, UpdateSound, Zenon DEF f, removed
    <3>4. SoundJournal(journal)' /\ SoundJournal(mem)'
      BY <1>1, <2>7, <2>14, <3>3, SaveSound, Zenon DEF SInv, systemdVars
    <3>5. Cleared'
      BY <1>1, <2>14, Zenon DEF Cleared
    <3>6. QED
      BY <1>1, <2>14, <3>4, <3>5, QuietSInv, Zenon
  <2>15. QED
    BY <1>1, <1>4, <2>11, <2>12, <2>13, <2>14, Zenon
<1>6. QED
  BY <1>1, <1>4, <1>5, Zenon

\* Steps that change neither journal nor memory nor systemd.
LEMMA IdleSInv ==
    ASSUME TInv, SInv, UNCHANGED <<systemdVars, journal, mem>>, pc # "down", pc' # "set",
           pc' \notin {"inactive", "revert", "reload", "verify"}
    PROVE  SInv'
<1>1. SoundJournal(journal)' /\ SoundJournal(mem)' /\ Cleared'
  BY Zenon DEF SInv, SoundJournal, systemdVars, Cleared
<1>2. QED
  BY <1>1, QuietSInv, Zenon DEF systemdVars

\* The end of a batch has nothing left to clear.
LEMMA EndBatchSInv ==
    ASSUME SInv, NEW F, EndBatch(F), UNCHANGED systemdVars,
           SoundJournal(journal)', SoundJournal(mem)'
    PROVE  SInv'
<1>1. pc' \in {"recover", "idle"}
  BY Zenon DEF EndBatch
<1>2. Cleared'
  BY <1>1, Zenon DEF Cleared
<1>3. QED
  BY <1>1, <1>2, QuietSInv, Zenon

\* FinishUnitRestores keeps the journal sound.
LEMMA FinishUnitRestoresSInv ==
    ASSUME TInv, SInv, FinishUnitRestores
    PROVE  SInv'
<1> DEFINE m == [u \in Units |-> IF u \in pending THEN RestoreIntent(mem[u]) ELSE mem[u]]
<1>1. mem \in Journals /\ pending \subseteq Recorded(mem)
  BY Zenon DEF TInv, TypeOK, Bookkeeping
<1>2. /\ pc = "prepare" /\ UNCHANGED systemdVars
      /\ \/ EndBatch({}) /\ UNCHANGED <<mem, journal>>
         \/ Saved(m) /\ pc' = "revert" /\ left' = pending /\ UNCHANGED <<pending, reverted>>
         \/ NotSaved(m, mem) /\ EndBatch({})
  BY Zenon DEF FinishUnitRestores
<1>3. SoundJournal(mem) /\ SoundJournal(journal)
  BY <1>2, Zenon DEF SInv
<1>4. \A u \in Units : u \in pending => mem[u] \in Record /\ RestoreIntent(mem[u]) \in Record
  BY <1>1, RestoreIntentType, Zenon DEF Recorded, Journals
<1>5. m \in Journals /\ \A u \in Units : m[u] = IF u \in pending THEN RestoreIntent(mem[u]) ELSE mem[u]
  BY <1>1, <1>4, Zenon DEF Journals
<1> HIDE DEF m
<1>6. ASSUME ValidJournal(m) PROVE SoundJournal(m)
  <2>1. ASSUME NEW u \in Units PROVE Sound(disk[u], m[u])
    <3>1. CASE u \in pending
      <4>1. m[u] = RestoreIntent(mem[u]) /\ mem[u] \in Record /\ m[u] # NoRecord
        BY <1>4, <1>5, <3>1, JournalAssumption, Zenon
      <4>2. ValidRecord(RestoreIntent(mem[u]))
        BY <1>6, <4>1, Zenon DEF ValidJournal, Recorded
      <4>3. QED
        BY <1>3, <4>1, <4>2, SoundRestoreIntent, Zenon DEF SoundJournal
    <3>2. CASE u \notin pending
      BY <1>3, <1>5, <3>2, Zenon DEF SoundJournal
    <3>3. QED
      BY <3>1, <3>2, Zenon
  <2>2. QED
    BY Zenon, <2>1 DEF SoundJournal
<1>7. CASE EndBatch({}) /\ UNCHANGED <<mem, journal>>
  BY <1>2, <1>3, <1>7, EndBatchSInv, Zenon DEF SoundJournal, systemdVars
<1>8. CASE Saved(m) \/ NotSaved(m, mem)
  <2>1. SoundJournal(journal)' /\ SoundJournal(mem)'
    BY <1>2, <1>3, <1>5, <1>6, <1>8, SaveSound, Zenon DEF systemdVars
  <2>2. CASE EndBatch({})
    BY <1>2, <2>1, <2>2, EndBatchSInv, Zenon
  <2>3. CASE pc' = "revert" /\ left' = pending /\ UNCHANGED <<pending, reverted>>
    <3>1. Cleared'
      BY <2>3, Zenon DEF Cleared
    <3>2. QED
      BY <1>2, <2>1, <2>3, <3>1, QuietSInv, Zenon
  <2>4. QED
    BY <1>2, <1>7, <2>2, <2>3, Zenon
<1>9. QED
  BY <1>2, <1>7, <1>8, Zenon

\* A step of the environment, or of systemd, that only removes files of
\* ResMan's keeps the journal sound.
LEMMA ShrinkSInv ==
    ASSUME TInv, SInv, UNCHANGED <<journal, mem>>, pc' = "down" <=> pc = "down",
           pc' # "set" \/ (pc = "set" /\ UNCHANGED tx),
           Live',
           \A u \in Units, p \in Properties : OwnFile(disk'[u], p) => disk'[u][p] = disk[u][p],
           Cleared'
    PROVE  SInv'
<1>1. SoundJournal(journal)'
  BY SoundShrink DEF SInv, SoundJournal
<1>2. pc' # "down" => SoundJournal(mem)'
  BY SoundShrink DEF SInv, SoundJournal
<1>3. StagedTx'
  BY DEF SInv, StagedTx
<1>4. QED
  BY <1>1, <1>2, <1>3, Zenon DEF SInv

\* What RevertUnitFiles does to the files.
LEMMA RevertFiles ==
    ASSUME TInv, SInv, NEW u \in Units, RevertUnitFiles(u)
    PROVE  /\ \A w \in Units, p \in Properties : OwnFile(disk'[w], p) => disk'[w][p] = disk[w][p]
           /\ \A p \in Properties : ~OwnFile(disk'[u], p)
           /\ Live'
<1>1. disk \in [Units -> Footprints]
  BY Zenon DEF TInv, TypeOK, SystemdTypeOK
<1>2. /\ \A w \in Units : w # u => disk'[w] = disk[w]
      /\ \A p \in Properties : disk'[u][p] = NoFile
      /\ UNCHANGED <<active, prop>>
  BY <1>1, EmptyFootprintType, Zenon DEF RevertUnitFiles, Paths
<1>3. QED
  BY <1>2 DEF SInv, Live, OwnFile

\* Revert keeps the journal sound.
LEMMA RevertSInv ==
    ASSUME TInv, SInv, NEW u \in Units, Revert(u)
    PROVE  SInv'
<1>1. /\ pc = "revert" /\ u \in left /\ left' = left \ {u} /\ UNCHANGED <<journal, mem, pc>>
      /\ \/ RevertUnitFiles(u) /\ reverted' = reverted \cup {u} /\ UNCHANGED pending
         \/ /\ RevertUnitFiles(u) \/ UNCHANGED systemdVars
            /\ pending' = pending \ {u} /\ UNCHANGED reverted
  BY Zenon DEF Revert
<1>2. pending' \ (left' \cup reverted') \subseteq pending \ (left \cup reverted)
  BY <1>1, Zenon
<1>3. CASE RevertUnitFiles(u)
  <2>1. /\ \A w \in Units, p \in Properties : OwnFile(disk'[w], p) => disk'[w][p] = disk[w][p]
        /\ Live'
    BY <1>3, RevertFiles, Zenon
  <2>2. Cleared'
    BY <1>1, <1>2, <2>1 DEF SInv, Cleared, OwnFile, TInv, TypeOK
  <2>3. QED
    BY <1>1, <2>1, <2>2, ShrinkSInv, Zenon
<1>4. CASE UNCHANGED systemdVars
  <2>1. Cleared'
    BY <1>1, <1>2, <1>4, Zenon DEF SInv, Cleared, systemdVars
  <2>2. SoundJournal(journal)' /\ SoundJournal(mem)'
    BY <1>1, <1>4, Zenon DEF SInv, SoundJournal, systemdVars
  <2>3. QED
    BY <1>1, <1>4, <2>1, <2>2, QuietSInv, Zenon
<1>5. QED
  BY <1>1, <1>3, <1>4, Zenon

\* RevertsDone keeps the journal sound.
LEMMA RevertsDoneSInv ==
    ASSUME TInv, SInv, RevertsDone
    PROVE  SInv'
<1> DEFINE m == [u \in Units |->
                   IF u \in reverted THEN [mem[u] EXCEPT !.phase = "reloading"] ELSE mem[u]]
<1>1. /\ pc = "revert" /\ UNCHANGED systemdVars
      /\ UNCHANGED <<mem, journal>> \/ Saved(m) \/ NotSaved(m, mem)
      /\ \/ EndBatch({}) \/ EndBatch(reverted)
         \/ pc' = "reload" /\ pending' \in {pending, pending \ reverted} /\ UNCHANGED <<left, reverted>>
  BY Zenon DEF RevertsDone
<1>2. mem \in Journals /\ reverted \subseteq Recorded(mem) /\ SoundJournal(mem) /\ SoundJournal(journal)
  BY <1>1, Zenon DEF TInv, TypeOK, Bookkeeping, SInv
<1>3. \A u \in Units : u \in reverted =>
        mem[u] \in Record /\ [mem[u] EXCEPT !.phase = "reloading"] \in Record
  BY <1>2, Zenon DEF Recorded, Journals, Record, Phases
<1>4. m \in Journals
      /\ \A u \in Units : m[u] = IF u \in reverted THEN [mem[u] EXCEPT !.phase = "reloading"] ELSE mem[u]
  BY <1>2, <1>3, Zenon DEF Journals
<1> HIDE DEF m
<1>5. SoundJournal(m)
  <2>1. ASSUME NEW u \in Units PROVE Sound(disk[u], m[u])
    <3>1. CASE u \in reverted
      <4>1. mem[u] \in Record /\ Sound(disk[u], mem[u]) /\ mem[u].id \in 1..MaxLife /\ "reloading" \in Phases
        BY Zenon, <1>2, <1>3, <3>1 DEF SoundJournal, Record, Phases
      <4>2. Sound(disk[u], [mem[u] EXCEPT !.phase = "reloading"])
        BY Zenon, <4>1, SoundRelabelled
      <4>3. QED
        BY <1>4, <3>1, <4>2, Zenon
    <3>2. CASE u \notin reverted
      BY Zenon, <1>2, <1>4, <3>2 DEF SoundJournal
    <3>3. QED
      BY <3>1, <3>2, Zenon
  <2>2. QED
    BY Zenon, <2>1 DEF SoundJournal
<1>6. SoundJournal(journal)' /\ SoundJournal(mem)'
  <2>1. CASE UNCHANGED <<mem, journal>>
    BY <1>1, <1>2, <2>1, Zenon DEF SoundJournal, systemdVars
  <2>2. CASE Saved(m) \/ NotSaved(m, mem)
    BY <1>1, <1>2, <1>4, <1>5, <2>2, SaveSound, Zenon DEF systemdVars
  <2>3. QED
    BY <1>1, <2>1, <2>2, Zenon
<1>7. CASE EndBatch({}) \/ EndBatch(reverted)
  BY <1>1, <1>6, <1>7, EndBatchSInv, Zenon
<1>8. CASE pc' = "reload" /\ pending' \in {pending, pending \ reverted} /\ UNCHANGED <<left, reverted>>
  <2>1. Cleared'
    BY <1>1, <1>8, Zenon DEF SInv, Cleared, systemdVars
  <2>2. QED
    BY <1>1, <1>6, <1>8, <2>1, QuietSInv, Zenon
<1>9. QED
  BY <1>1, <1>7, <1>8, Zenon

\* ReloadManager keeps the journal sound: it changes no file.
LEMMA ReloadManagerSInv ==
    ASSUME TInv, SInv, ReloadManager
    PROVE  SInv'
<1>1. /\ pc = "reload" /\ UNCHANGED <<journal, mem>> /\ (Reload \/ UNCHANGED systemdVars)
      /\ \/ pc' = "verify" /\ UNCHANGED <<pending, left, reverted>>
         \/ EndBatch(pending)
  BY Zenon DEF ReloadManager
<1>2. UNCHANGED <<active, disk>> /\ pc' \in {"verify", "recover", "idle"}
  BY <1>1, Zenon DEF Reload, systemdVars, EndBatch
<1>3. Live'
  <2>1. CASE Reload
    <3>1. \A u \in Units, p \in Properties : active[u] /\ disk[u][p] # NoFile => prop'[u][p] = disk[u][p]
      BY <2>1, Zenon DEF Reload, Configured
    <3>2. QED
      BY <1>2, <3>1, Zenon DEF Live
  <2>2. CASE UNCHANGED systemdVars
    BY <2>2, Zenon DEF SInv, Live, systemdVars
  <2>3. QED
    BY <1>1, <2>1, <2>2, Zenon
<1>4. Cleared'
  BY <1>1, <1>2, Zenon DEF SInv, Cleared, EndBatch
<1>5. QED
  BY <1>1, <1>2, <1>3, <1>4, ShrinkSInv, Zenon

\* KernelMismatch keeps the journal sound.
LEMMA KernelMismatchSInv ==
    ASSUME TInv, SInv, NEW u \in Units, KernelMismatch(u)
    PROVE  SInv'
<1>1. SoundJournal(journal)' /\ SoundJournal(mem)' /\ Cleared'
  BY Zenon DEF KernelMismatch, SInv, SoundJournal, systemdVars, Cleared
<1>2. QED
  BY <1>1, QuietSInv, Zenon DEF KernelMismatch

\* VerifyAndRemove forgets a unit only when no file of ResMan's is left.
LEMMA VerifyAndRemoveSInv ==
    ASSUME TInv, SInv, VerifyAndRemove
    PROVE  SInv'
<1> DEFINE good == {u \in pending : Verified(u)}
           m == [u \in Units |-> IF u \in good THEN NoRecord ELSE mem[u]]
<1>1. /\ pc = "verify" /\ UNCHANGED systemdVars
      /\ UNCHANGED <<mem, journal>> \/ Saved(m) \/ NotSaved(m, mem)
      /\ EndBatch(pending) \/ EndBatch(pending \ good)
  BY Zenon DEF VerifyAndRemove
<1>2. /\ mem \in Journals /\ m \in Journals /\ pending \in SUBSET Units /\ left = {}
      /\ SoundJournal(mem) /\ SoundJournal(journal)
  BY <1>1, Zenon DEF TInv, TypeOK, Journals, Control, SInv
<1>3. ASSUME NEW u \in good PROVE \A p \in Properties : ~OwnFile(disk[u], p)
  <2>1. CASE task = "inactive" /\ u \notin reverted
    BY <1>1, <1>2, <2>1, Zenon DEF SInv, Cleared
  <2>2. CASE task # "inactive" \/ u \in reverted
    <3>1. Present(disk[u]) = {}
      BY <1>3, <2>2, Zenon DEF Verified, Restored, CombinedPaths
    <3>2. QED
      BY <3>1, Zenon DEF Present, OwnFile, Paths
  <2>3. QED
    BY <2>1, <2>2, Zenon
<1>4. SoundJournal(m)
  <2>1. ASSUME NEW u \in Units PROVE Sound(disk[u], m[u])
    <3>1. CASE u \in good
      BY <1>3, <3>1, Zenon DEF Sound
    <3>2. CASE u \notin good
      BY <1>2, <3>2, Zenon DEF SoundJournal
    <3>3. QED
      BY <3>1, <3>2, Zenon
  <2>2. QED
    BY Zenon, <2>1 DEF SoundJournal
<1> HIDE DEF m, good
<1>5. SoundJournal(journal)' /\ SoundJournal(mem)'
  <2>1. CASE UNCHANGED <<mem, journal>>
    BY <1>1, <1>2, <2>1, Zenon DEF SoundJournal, systemdVars
  <2>2. CASE Saved(m) \/ NotSaved(m, mem)
    BY <1>1, <1>2, <1>4, <2>2, SaveSound, Zenon DEF systemdVars
  <2>3. QED
    BY <1>1, <2>1, <2>2, Zenon
<1>6. QED
  BY <1>1, <1>5, EndBatchSInv, Zenon

\* The start of recovery trusts the journal.
LEMMA StartSInv ==
    ASSUME TInv, SInv, Start \/ ReconcileOwned
    PROVE  SInv'
<1>1. /\ pc' = "recover" /\ UNCHANGED <<systemdVars, journal>>
      /\ mem' = journal \/ (pc # "down" /\ mem' = mem)
  BY Zenon DEF Start, ReconcileOwned, StartRecovery
<1>2. SoundJournal(journal)' /\ SoundJournal(mem)' /\ Cleared'
  BY <1>1, Zenon DEF SInv, SoundJournal, systemdVars, Cleared
<1>3. QED
  BY <1>1, <1>2, QuietSInv, Zenon

\* A journal write of recovery keeps the journal sound.
LEMMA RecoverySaveSInv ==
    ASSUME TInv, SInv, pc # "down", NEW u \in Units, NEW r \in Record \cup {NoRecord},
           Sound(disk[u], r), NEW next, UNCHANGED systemdVars,
           RecoverySave(u, [mem EXCEPT ![u] = r], mem, next)
    PROVE  SoundJournal(journal)' /\ SoundJournal(mem)'
<1> DEFINE m == [mem EXCEPT ![u] = r]
<1>1. mem \in Journals /\ SoundJournal(mem) /\ SoundJournal(journal)
  BY Zenon DEF TInv, TypeOK, SInv
<1>2. m \in Journals /\ SoundJournal(m)
  BY Zenon, <1>1, UpdateSound DEF Journals
<1>3. Saved(m) \/ NotSaved(m, mem)
  BY Zenon DEF RecoverySave
<1> HIDE DEF m
<1>4. QED
  BY <1>1, <1>2, <1>3, SaveSound, Zenon DEF systemdVars

\* RecoverUnit keeps the journal sound: it rolls a mutation back only when the
\* files are those from before it.
LEMMA RecoverUnitSInv ==
    ASSUME TInv, SInv, NEW u \in Units, RecoverUnit(u)
    PROVE  SInv'
<1>1. pc = "recover" /\ u \in todo /\ UNCHANGED systemdVars /\ UNCHANGED reverted
  BY Zenon DEF RecoverUnit
<1>2. /\ mem[u] \in Record /\ mem \in Journals /\ disk[u] \in Footprints /\ life[u] \in 1..MaxLife
      /\ SoundJournal(mem) /\ SoundJournal(journal) /\ Sound(disk[u], mem[u])
  BY <1>1, Zenon DEF TInv, TypeOK, SystemdTypeOK, Bookkeeping, Recorded, Journals, SInv, SoundJournal
<1>3. UNCHANGED <<journal, mem>> => SoundJournal(journal)' /\ SoundJournal(mem)'
  BY <1>1, <1>2, Zenon DEF SoundJournal, systemdVars
<1>4. CASE RecoverRestore(u)
  <2>1. UNCHANGED <<journal, mem>> /\ pc' \in {"reload", "revert", "recover"}
    BY <1>1, <1>4, Zenon DEF RecoverRestore
  <2>2. Cleared'
    <3>1. CASE Present(disk[u]) = {} /\ pc' = "reload" /\ pending' = {u}
      <4>1. \A p \in Properties : ~OwnFile(disk'[u], p)
        BY <1>1, <3>1, Zenon DEF Present, OwnFile, Paths, systemdVars
      <4>2. QED
        BY <3>1, <4>1, Zenon DEF Cleared
    <3>2. CASE pc' = "revert" /\ pending' = {u} /\ left' = {u}
      BY <3>2, Zenon DEF Cleared
    <3>3. CASE pc' = "recover"
      BY <3>3, Zenon DEF Cleared
    <3>4. QED
      BY <1>1, <1>4, <3>1, <3>2, <3>3, Zenon DEF RecoverRestore
  <2>3. QED
    BY <1>1, <1>3, <2>1, <2>2, QuietSInv, Zenon
<1>5. ASSUME SoundJournal(journal)', SoundJournal(mem)', pc' \in {"recover", "finishReset"}
      PROVE  SInv'
  BY <1>1, <1>5, QuietSInv, Zenon DEF Cleared
<1>6. CASE RecoverApplied(u)
  <2> DEFINE rebound == [mem[u] EXCEPT !.id = life[u]]
  <2>1. rebound \in Record /\ [mem EXCEPT ![u].id = life[u]] = [mem EXCEPT ![u] = rebound]
    BY <1>2, Zenon DEF Record
  <2>2. Sound(disk[u], rebound)
    <3>1. mem[u].phase \in Phases
      BY <1>2, Zenon DEF Record
    <3>2. QED
      BY Zenon, <1>2, <3>1, SoundRelabelled
  <2> HIDE DEF rebound
  <2>3. \/ UNCHANGED <<journal, mem, pc>>
        \/ mem' = [mem EXCEPT ![u] = rebound] /\ pc' \in {pc, "finishReset"} /\ UNCHANGED journal
        \/ RecoverySave(u, [mem EXCEPT ![u] = rebound], mem, "recover")
    BY <1>6, <2>1, Zenon DEF RecoverApplied
  <2>4. CASE UNCHANGED <<journal, mem, pc>>
    BY <1>1, <1>3, <1>5, <2>4, Zenon
  <2>5. CASE mem' = [mem EXCEPT ![u] = rebound] /\ pc' \in {pc, "finishReset"} /\ UNCHANGED journal
    <3>1. SoundJournal([mem EXCEPT ![u] = rebound])
      BY <1>2, <2>2, UpdateSound, Zenon
    <3>2. QED
      BY <1>1, <1>2, <1>5, <2>5, <3>1, Zenon DEF SoundJournal, systemdVars
  <2>6. CASE RecoverySave(u, [mem EXCEPT ![u] = rebound], mem, "recover")
    <3>1. SoundJournal(journal)' /\ SoundJournal(mem)'
      BY <1>1, <2>1, <2>2, <2>6, RecoverySaveSInv, Zenon
    <3>2. QED
      BY <1>1, <1>5, <2>6, <3>1, Zenon DEF RecoverySave
  <2>7. QED
    BY <2>3, <2>4, <2>5, <2>6, Zenon
<1>7. CASE RecoverApplying(u)
  <2> DEFINE r0 == [mem[u] EXCEPT !.id = life[u]]
             confirmed == Confirmed(r0, disk[u])
             next == IF AtBaseline(mem[u], u) THEN "finishReset" ELSE "recover"
  <2>1. confirmed \in Record /\ Sound(disk[u], confirmed)
    <3>1. r0 \in Record /\ mem[u].phase \in Phases
      BY <1>2, Zenon DEF Record
    <3>2. Sound(disk[u], r0)
      BY Zenon, <1>2, <3>1, SoundRelabelled
    <3> HIDE DEF r0
    <3>3. QED
      BY <1>2, <3>1, <3>2, ConfirmedType, SoundConfirmed, Zenon
  <2>2. next \in {"recover", "finishReset"}
    BY Zenon
  <2>3. \/ RecoverySave(u, [mem EXCEPT ![u] = confirmed], mem, next)
        \/ /\ disk[u] = mem[u].prevfp
           /\ RecoverySave(u, [mem EXCEPT ![u] = RolledBack(mem[u])], mem, "recover")
        \/ UNCHANGED <<journal, mem, pc>>
    BY <1>7, Zenon DEF RecoverApplying
  <2> HIDE DEF confirmed, next
  <2>4. CASE RecoverySave(u, [mem EXCEPT ![u] = confirmed], mem, next)
    <3>1. SoundJournal(journal)' /\ SoundJournal(mem)'
      BY <1>1, <2>1, <2>4, RecoverySaveSInv, Zenon
    <3>2. QED
      BY <1>1, <1>5, <2>2, <2>4, <3>1, Zenon DEF RecoverySave
  <2>5. CASE /\ disk[u] = mem[u].prevfp
             /\ RecoverySave(u, [mem EXCEPT ![u] = RolledBack(mem[u])], mem, "recover")
    <3>1. RolledBack(mem[u]) \in Record \cup {NoRecord} /\ Sound(disk[u], RolledBack(mem[u]))
      BY <1>2, <2>5, RolledBackType, SoundRolledBack, Zenon
    <3>2. SoundJournal(journal)' /\ SoundJournal(mem)'
      BY <1>1, <2>5, <3>1, RecoverySaveSInv, Zenon
    <3>3. QED
      BY <1>1, <1>5, <2>5, <3>2, Zenon DEF RecoverySave
  <2>6. CASE UNCHANGED <<journal, mem, pc>>
    BY <1>1, <1>3, <1>5, <2>6, Zenon
  <2>7. QED
    BY <2>3, <2>4, <2>5, <2>6, Zenon
<1>8. CASE RecoverMissing(u) \/ RecoverUnreadable(u)
  BY <1>1, <1>3, <1>5, <1>8, Zenon DEF RecoverMissing, RecoverUnreadable
<1>9. QED
  BY <1>4, <1>6, <1>7, <1>8, Zenon DEF RecoverUnit

\* FinishResetUnit keeps the journal sound.
LEMMA FinishResetUnitSInv ==
    ASSUME TInv, SInv, NEW u \in Units, FinishResetUnit(u)
    PROVE  SInv'
<1> DEFINE staged == StageUnitRestore(mem[u])
           m == [mem EXCEPT ![u] = staged]
<1>1. /\ pc = "finishReset" /\ u \in pending /\ UNCHANGED systemdVars
      /\ \/ Saved(m) /\ pc' = "revert" /\ left' = {u} /\ UNCHANGED pending
         \/ (NotSaved(m, mem) \/ UNCHANGED <<mem, journal>>) /\ pc' = "recover"
  BY Zenon DEF FinishResetUnit
<1>2. /\ mem \in Journals /\ mem[u] \in Record /\ SoundJournal(mem) /\ SoundJournal(journal)
      /\ Sound(disk[u], mem[u]) /\ \A w \in pending : w = u
  BY <1>1, Zenon DEF TInv, TypeOK, Bookkeeping, Control, Journals, Recorded, SInv, SoundJournal
<1>3. staged \in Record /\ Sound(disk[u], staged)
  BY <1>2, RestoreIntentType, SoundStageUnitRestore, Zenon
<1> HIDE DEF staged
<1>4. m \in Journals /\ SoundJournal(m)
  BY Zenon, <1>2, <1>3, UpdateSound DEF Journals
<1> HIDE DEF m
<1>5. SoundJournal(journal)' /\ SoundJournal(mem)'
  <2>1. CASE UNCHANGED <<mem, journal>>
    BY <1>1, <1>2, <2>1, Zenon DEF SoundJournal, systemdVars
  <2>2. CASE Saved(m) \/ NotSaved(m, mem)
    BY <1>1, <1>2, <1>4, <2>2, SaveSound, Zenon DEF systemdVars
  <2>3. QED
    BY <1>1, <2>1, <2>2, Zenon
<1>6. Cleared'
  BY <1>1, <1>2, Zenon DEF Cleared
<1>7. QED
  BY <1>1, <1>5, <1>6, QuietSInv, Zenon

\* EndRecovery keeps the journal sound.
LEMMA EndRecoverySInv ==
    ASSUME TInv, SInv, EndRecovery
    PROVE  SInv'
<1>1. /\ pc = "recover" /\ pc' \in {"idle", "inactive"} /\ pending' = {}
      /\ UNCHANGED <<systemdVars, journal, mem>>
  BY Zenon DEF EndRecovery, TInv, Control
<1>2. SoundJournal(journal)' /\ SoundJournal(mem)' /\ Cleared'
  BY <1>1, Zenon DEF SInv, SoundJournal, systemdVars, Cleared
<1>3. QED
  BY <1>1, <1>2, QuietSInv, Zenon

\* PrepareInactiveRecovery keeps the journal sound: it rolls a mutation back,
\* or leaves a unit out of the revert, only when the unit has no files.
LEMMA PrepareInactiveRecoverySInv ==
    ASSUME TInv, SInv, NEW u \in Units, PrepareInactiveRecovery(u)
    PROVE  SInv'
<1>1. /\ pc = "inactive" /\ u \in departed /\ UNCHANGED <<systemdVars, reverted>>
      /\ \/ /\ Present(disk[u]) = {}
            /\ RecoverySave(u, [mem EXCEPT ![u] = RolledBack(mem[u])], mem, "inactive")
            /\ UNCHANGED <<pending, left>>
         \/ /\ Present(disk[u]) = {}
            /\ pending' = pending \cup {u} /\ UNCHANGED <<journal, mem, pc, left>>
         \/ /\ pending' = pending \cup {u} /\ left' = left \cup {u}
            /\ UNCHANGED <<journal, mem, pc>>
         \/ UNCHANGED <<journal, mem, pc, pending, left>>
  BY Zenon DEF PrepareInactiveRecovery
<1>2. /\ mem[u] \in Record /\ disk[u] \in Footprints /\ Sound(disk[u], mem[u])
      /\ SoundJournal(mem) /\ SoundJournal(journal)
  BY <1>1, Zenon DEF TInv, TypeOK, SystemdTypeOK, Bookkeeping, Journals, Recorded, SInv, SoundJournal
<1>3. Present(disk[u]) = {} => \A p \in Properties : ~OwnFile(disk[u], p)
  BY Zenon DEF Present, OwnFile, Paths
<1>4. pc' = "inactive"
  BY <1>1, Zenon DEF RecoverySave
<1>5. Cleared'
  BY <1>1, <1>3, Zenon DEF SInv, Cleared, systemdVars
<1>6. SoundJournal(journal)' /\ SoundJournal(mem)'
  <2>1. CASE UNCHANGED <<journal, mem>>
    BY <1>1, <1>2, <2>1, Zenon DEF SoundJournal, systemdVars
  <2>2. CASE /\ Present(disk[u]) = {}
             /\ RecoverySave(u, [mem EXCEPT ![u] = RolledBack(mem[u])], mem, "inactive")
    <3>1. RolledBack(mem[u]) \in Record \cup {NoRecord} /\ Sound(disk[u], RolledBack(mem[u]))
      BY <1>2, <2>2, RolledBackType, SoundRolledBack, Zenon
    <3>2. QED
      BY <1>1, <2>2, <3>1, RecoverySaveSInv, Zenon
  <2>3. QED
    BY <1>1, <2>1, <2>2, Zenon
<1>7. QED
  BY <1>1, <1>4, <1>5, <1>6, QuietSInv, Zenon

\* InactiveIntent keeps the journal sound.
LEMMA InactiveIntentSInv ==
    ASSUME TInv, SInv, InactiveIntent
    PROVE  SInv'
<1> DEFINE staged == {u \in left : mem[u].phase \in {"applying", "applied"}}
           m == [u \in Units |-> IF u \in staged THEN StageUnitRestore(mem[u]) ELSE mem[u]]
<1>1. /\ pc = "inactive" /\ pc' = "revert" /\ UNCHANGED <<systemdVars, reverted>>
      /\ \/ UNCHANGED <<mem, journal, pending, left>>
         \/ Saved(m) /\ UNCHANGED <<pending, left>>
         \/ NotSaved(m, mem) /\ pending' = pending \ staged /\ left' = left \ staged
  BY Zenon DEF InactiveIntent
<1>2. /\ mem \in Journals /\ left \subseteq Recorded(mem) /\ staged \subseteq left
      /\ SoundJournal(mem) /\ SoundJournal(journal)
  BY <1>1, Zenon DEF TInv, TypeOK, Bookkeeping, SInv
<1> HIDE DEF staged
<1>3. \A u \in Units : u \in staged => mem[u] \in Record /\ StageUnitRestore(mem[u]) \in Record
  BY <1>2, RestoreIntentType, Zenon DEF Journals, Recorded
<1>4. m \in Journals
      /\ \A u \in Units : m[u] = IF u \in staged THEN StageUnitRestore(mem[u]) ELSE mem[u]
  BY <1>2, <1>3, Zenon DEF Journals
<1> HIDE DEF m
<1>5. SoundJournal(m)
  <2>1. ASSUME NEW u \in Units PROVE Sound(disk[u], m[u])
    BY <1>2, <1>3, <1>4, SoundStageUnitRestore, Zenon DEF SoundJournal
  <2>2. QED
    BY Zenon, <2>1 DEF SoundJournal
<1>6. SoundJournal(journal)' /\ SoundJournal(mem)'
  <2>1. CASE UNCHANGED <<mem, journal>>
    BY <1>1, <1>2, <2>1, Zenon DEF SoundJournal, systemdVars
  <2>2. CASE Saved(m) \/ NotSaved(m, mem)
    BY <1>1, <1>2, <1>4, <1>5, <2>2, SaveSound, Zenon DEF systemdVars
  <2>3. QED
    BY <1>1, <2>1, <2>2, Zenon
<1>7. pending' \ (left' \cup reverted') \subseteq pending \ (left \cup reverted)
  BY <1>1, <1>2, Zenon
<1>8. Cleared'
  BY <1>1, <1>7, Zenon DEF SInv, Cleared, systemdVars
<1>9. QED
  BY <1>1, <1>6, <1>8, QuietSInv, Zenon

\* The end of the process leaves the journal to the next one.
LEMMA DownSInv ==
    ASSUME SInv, Close \/ Crash
    PROVE  SInv'
<1>1. pc' = "down" /\ UNCHANGED <<systemdVars, journal>>
  BY Zenon DEF Close, Crash, Down
<1>2. SoundJournal(journal)' /\ Cleared'
  BY <1>1, Zenon DEF SInv, SoundJournal, systemdVars, Cleared
<1>3. QED
  BY <1>1, <1>2, QuietSInv, Zenon

\* The environment writes no file of ResMan's.
LEMMA EnvironmentSInv ==
    ASSUME TInv, SInv, Environment
    PROVE  SInv'
<1>1. PICK u \in Units :
        \/ Depart(u)
        \/ Return(u)
        \/ \E p \in Properties : OperatorSet(u, p)
        \/ OperatorDropIn(u)
        \/ OperatorRevert(u)
  BY Zenon DEF Environment
<1>2. UNCHANGED <<journal, mem, pc, tx, pending, left, reverted>>
  BY Zenon DEF Environment, adapterVars
<1>3. /\ disk \in [Units -> Footprints] /\ prop \in [Units -> [Properties -> Values]]
      /\ active \in [Units -> BOOLEAN]
  BY Zenon DEF TInv, TypeOK, SystemdTypeOK
<1>4. ASSUME /\ \A w \in Units : w # u => /\ disk'[w] = disk[w] /\ prop'[w] = prop[w]
                                          /\ active'[w] = active[w]
             /\ \A p \in Properties :
                  /\ OwnFile(disk'[u], p) => disk'[u][p] = disk[u][p]
                  /\ active'[u] /\ disk'[u][p] # NoFile => prop'[u][p] = disk'[u][p]
      PROVE  SInv'
  <2>1. \A w \in Units, p \in Properties : OwnFile(disk'[w], p) => disk'[w][p] = disk[w][p]
    BY <1>4, Zenon
  <2>2. Live'
    BY <1>4 DEF SInv, Live
  <2>3. Cleared'
    BY <1>2, <2>1 DEF SInv, Cleared, OwnFile, TInv, TypeOK
  <2>4. QED
    BY <1>2, <2>1, <2>2, <2>3, ShrinkSInv, Zenon
<1>5. \A p \in Properties : active[u] /\ disk[u][p] # NoFile => prop[u][p] = disk[u][p]
  BY Zenon DEF SInv, Live
<1>6. CASE Depart(u)
  BY <1>3, <1>4, <1>6, Zenon DEF Depart
<1>7. CASE Return(u)
  BY <1>3, <1>4, <1>7, Zenon DEF Return, Configured
<1>8. CASE \E p \in Properties : OperatorSet(u, p)
  <2>1. PICK q \in Properties : SetUnitProperties(u, [x \in {q} |-> Foreign])
    BY <1>8, Zenon DEF OperatorSet
  <2>2. /\ \A w \in Units : w # u => disk'[w] = disk[w] /\ prop'[w] = prop[w]
        /\ active' = active
        /\ \A p \in Properties : disk'[u][p] = IF p = q THEN Foreign ELSE disk[u][p]
        /\ active[u] => \A p \in Properties : prop'[u][p] = IF p = q THEN Foreign ELSE prop[u][p]
    BY <1>3, <2>1 DEF SetUnitProperties, Paths
  <2>3. QED
    BY <1>4, <1>5, <2>2, Zenon DEF OwnFile
<1>9. CASE OperatorDropIn(u)
  <2>1. /\ \A w \in Units : w # u => disk'[w] = disk[w]
        /\ \A p \in Properties : disk'[u][p] = disk[u][p]
        /\ UNCHANGED <<active, prop>>
    BY <1>3, <1>9, SystemdAssumption, Zenon DEF OperatorDropIn, Footprints, Paths
  <2>2. QED
    BY <1>4, <1>5, <2>1, Zenon
<1>10. CASE OperatorRevert(u)
  <2>1. /\ \A w \in Units : w # u => disk'[w] = disk[w] /\ prop'[w] = prop[w]
        /\ \A p \in Properties : disk'[u][p] = NoFile
        /\ UNCHANGED active
    BY <1>3, <1>10, EmptyFootprintType, Zenon DEF OperatorRevert, Paths
  <2>2. QED
    BY <1>4, <2>1, Zenon DEF OwnFile
<1>11. QED
  BY <1>1, <1>6, <1>7, <1>8, <1>9, <1>10, Zenon

\* Every step keeps the journal sound.
LEMMA NextSInv == TInv /\ SInv /\ [Next]_vars => SInv'
<1> SUFFICES ASSUME TInv, SInv, [Next]_vars PROVE SInv'
  BY Zenon
<1>1. ASSUME NEW S \in SUBSET Units, Release(S) PROVE SInv'
  BY <1>1, IdleSInv, Zenon DEF Release
<1>2. CASE Recheck
  BY <1>2, IdleSInv, Zenon DEF Recheck
<1>3. CASE Client
  BY <1>1, <1>3, ApplySInv, RestorePropertiesSInv, StartSInv, DownSInv, Zenon DEF Client
<1>4. CASE Progress
  BY <1>2, <1>4, SetPropertiesSInv, ConfirmSInv, PrepareUnitRestoreSInv, RevertSInv,
     KernelMismatchSInv, FinishUnitRestoresSInv, RevertsDoneSInv, ReloadManagerSInv,
     VerifyAndRemoveSInv, RecoverUnitSInv, FinishResetUnitSInv, PrepareInactiveRecoverySInv,
     EndRecoverySInv, InactiveIntentSInv, Zenon DEF Progress
<1>5. CASE Crash \/ Environment
  BY <1>5, DownSInv, EnvironmentSInv, Zenon
<1>6. CASE UNCHANGED vars
  BY Zenon, <1>6 DEF SInv, SoundJournal, Live, StagedTx, Cleared, vars, systemdVars, adapterVars
<1>7. QED
  BY <1>3, <1>4, <1>5, <1>6, Zenon DEF Next

\* The journal stays sound, whatever crashes, fails, departs or interferes.
THEOREM JournalSound == Spec => [](TInv /\ SInv)
<1>1. Init => TInv /\ SInv
  BY InitTInv, InitSInv, Zenon
<1>2. TInv /\ SInv /\ [Next]_vars => (TInv /\ SInv)'
  BY NextTInv, NextSInv, Zenon
<1>3. QED
  BY <1>1, <1>2, PTL DEF Spec

\* Every drop-in ResMan wrote is covered by a durable lease, for any number of
\* units, properties, lifetimes and disturbances.
THEOREM OwnedFilesStayRecorded == Spec => []OwnedFilesRecorded
<1>1. TInv /\ SInv => OwnedFilesRecorded
  BY Zenon DEF SInv, SoundJournal, Sound, OwnFile, OwnedFilesRecorded, Leased
<1>2. QED
  BY <1>1, JournalSound, PTL

-----------------------------------------------------------------------------
(* The baselines.                                                          *)

\* A lease that returns its unit to what it was and holds no operator's value.
Clean(l) == l.baseline = Vendor /\ l.last # Foreign /\ l.prev # Foreign
CleanRecord(r) == r # NoRecord => \A p \in Properties : r.lease[p] # NoLease => Clean(r.lease[p])
CleanJournal(m) == \A u \in Units : CleanRecord(m[u])

\* The managed paths of a record are its leased properties.
Matched(r) == r # NoRecord => r.managed = Leased(r)
MatchedJournal(m) == \A u \in Units : Matched(m[u])

\* A property of an active unit differs from the vendor's only by a drop-in
\* that the manager has loaded.
Known == \A u \in Units, p \in Properties :
             active[u] /\ p \notin loaded[u] => prop[u][p] = Vendor

\* The records of a journal, and the inductive invariant of the baselines.
Kept(m) == CleanJournal(m) /\ MatchedJournal(m)
BInv == Kept(mem) /\ Kept(journal) /\ Known

\* What becomes of one lease.
LEMMA CleanLease ==
    ASSUME NEW l \in Lease, Clean(l)
    PROVE  /\ \A v \in Values : v # Foreign => Clean(Staged(l, v)) /\ Clean([Staged(l, v) EXCEPT !.new = FALSE])
           /\ \A v \in Values : Clean(Resolved(l, v))
           /\ Clean([l EXCEPT !.uncertain = FALSE, !.new = FALSE])
           /\ Clean([l EXCEPT !.last = l.prev, !.uncertain = FALSE, !.new = FALSE])
<1>1. ASSUME NEW v \in Values, v # Foreign PROVE Clean(Staged(l, v))
  BY <1>1, Zenon DEF Clean, Staged, Lease
<1>2. ASSUME NEW v \in Values, v # Foreign PROVE Clean([Staged(l, v) EXCEPT !.new = FALSE])
  BY <1>2, Zenon DEF Clean, Staged, Lease
<1>3. ASSUME NEW v \in Values PROVE Clean(Resolved(l, v))
  BY Zenon DEF Clean, Resolved, Lease
<1>4. Clean([l EXCEPT !.uncertain = FALSE, !.new = FALSE])
  BY Zenon DEF Clean, Lease
<1>5. Clean([l EXCEPT !.last = l.prev, !.uncertain = FALSE, !.new = FALSE])
  BY Zenon DEF Clean, Lease
<1>. QED
  BY <1>1, <1>2, <1>3, <1>4, <1>5, Zenon

\* What a unit has of its own is no value that only an operator writes.
LEMMA VendorIsNotForeign == Vendor \in Values /\ Vendor # Foreign /\ KernelDefault # Foreign
BY SystemdAssumption, Zenon DEF Values

\* Staging the leases of DOMAIN a to values that are no operator's.
LEMMA CleanStaged ==
    ASSUME NEW r \in Record, CleanRecord(r), NEW a \in Assignments,
           \A p \in DOMAIN a : r.lease[p] # NoLease /\ a[p] # Foreign
    PROVE  CleanRecord(StageLeases(r, a)) /\ StageLeases(r, a).managed = r.managed
<1>1. /\ StageLeases(r, a).managed = r.managed
      /\ StageLeases(r, a).lease = [p \in Properties |->
            IF p \in DOMAIN a THEN Staged(r.lease[p], a[p]) ELSE r.lease[p]]
  BY Zenon DEF StageLeases, Record
<1>2. \A p \in DOMAIN a : p \in Properties /\ a[p] \in Values
  BY Zenon DEF Assignments
<1>3. \A p \in Properties : r.lease[p] # NoLease => r.lease[p] \in Lease /\ Clean(r.lease[p])
  BY JournalAssumption, Zenon DEF CleanRecord, Record
<1>4. \A p \in DOMAIN a : Clean(Staged(r.lease[p], a[p]))
  BY Zenon, <1>2, <1>3, CleanLease
<1>. QED
  BY <1>1, <1>3, <1>4, Zenon DEF CleanRecord

\* Settling uncertain leases.
LEMMA CleanSettled ==
    ASSUME NEW r \in Record, CleanRecord(r), Matched(r), NEW S \in SUBSET Leased(r),
           NEW v \in [Properties -> Values], NEW s \in Record,
           s.managed = r.managed, s.lease = SettledLeases(r, S, v)
    PROVE  CleanRecord(s) /\ Matched(s)
<1>1. \A p \in Properties : r.lease[p] # NoLease => r.lease[p] \in Lease /\ Clean(r.lease[p])
  BY JournalAssumption, Zenon DEF CleanRecord, Record
<1>2. \A p \in S : p \in Properties /\ Clean(Resolved(r.lease[p], v[p]))
  BY Zenon, <1>1, CleanLease DEF Leased
<1>3. \A p \in Properties : SettledLeases(r, S, v)[p] = NoLease <=> r.lease[p] = NoLease
  BY SettledType, Zenon
<1>4. Matched(s)
  BY <1>3, JournalAssumption, Zenon DEF Matched, Leased
<1>. QED
  BY <1>1, <1>2, <1>3, <1>4, Zenon DEF CleanRecord, SettledLeases

\* Confirming, rolling back, and both forms of the restoring intent.
LEMMA CleanTransformed ==
    ASSUME NEW r \in Record, CleanRecord(r)
    PROVE  /\ \A f \in Footprints : CleanRecord(Confirmed(r, f))
           /\ CleanRecord(RestoreIntent(r)) /\ CleanRecord(StageUnitRestore(r))
           /\ CleanRecord(RolledBack(r))
<1>1. \A p \in Properties : r.lease[p] # NoLease => r.lease[p] \in Lease /\ Clean(r.lease[p])
  BY JournalAssumption, Zenon DEF CleanRecord, Record
<1>2. \A p \in Properties : r.lease[p] # NoLease =>
        r.lease[p].baseline \in Values /\ r.lease[p].baseline # Foreign
  BY <1>1, VendorIsNotForeign, Zenon DEF Clean
<1>3. ASSUME NEW f \in Footprints PROVE CleanRecord(Confirmed(r, f))
  <2> DEFINE L == [p \in Properties |->
                     IF r.lease[p] = NoLease THEN NoLease
                     ELSE [r.lease[p] EXCEPT !.uncertain = FALSE, !.new = FALSE]]
  <2>1. Confirmed(r, f).lease = L
    BY Zenon DEF Confirmed, Record
  <2>2. \A p \in Properties : L[p] # NoLease => Clean(L[p])
    BY Zenon, <1>1, CleanLease
  <2> HIDE DEF L
  <2>. QED
    BY <2>1, <2>2, Zenon DEF CleanRecord
<1>4. CleanRecord(RestoreIntent(r))
  <2>1. RestoreIntent(r).lease = [p \in Properties |->
            IF r.lease[p] = NoLease THEN NoLease ELSE Staged(r.lease[p], r.lease[p].baseline)]
    BY Zenon DEF RestoreIntent, Record
  <2>2. \A p \in Properties : r.lease[p] # NoLease => Clean(Staged(r.lease[p], r.lease[p].baseline))
    BY Zenon, <1>1, <1>2, CleanLease
  <2>. QED
    BY <2>1, <2>2, Zenon DEF CleanRecord
<1>5. CleanRecord(StageUnitRestore(r))
  <2>1. StageUnitRestore(r).lease = [p \in Properties |->
            IF r.lease[p] = NoLease THEN NoLease
            ELSE [Staged(r.lease[p], r.lease[p].baseline) EXCEPT !.new = FALSE]]
    BY RestoreIntentType, Zenon DEF StageUnitRestore, Record
  <2>2. \A p \in Properties : r.lease[p] # NoLease =>
          Clean([Staged(r.lease[p], r.lease[p].baseline) EXCEPT !.new = FALSE])
    BY Zenon, <1>1, <1>2, CleanLease
  <2>. QED
    BY <2>1, <2>2, Zenon DEF CleanRecord
<1>6. CleanRecord(RolledBack(r))
  <2> DEFINE kept == {p \in Leased(r) : ~(r.lease[p].uncertain /\ r.lease[p].new)}
             L == [p \in Properties |->
                     IF p \notin kept THEN NoLease
                     ELSE IF ~r.lease[p].uncertain THEN r.lease[p]
                     ELSE [r.lease[p] EXCEPT !.last = r.lease[p].prev,
                                             !.uncertain = FALSE, !.new = FALSE]]
             s == [r EXCEPT !.phase = "applied", !.managed = Present(r.prevfp), !.fp = r.prevfp,
                            !.prevfp = EmptyFootprint, !.lease = L]
  <2>1. RolledBack(r) = IF kept = {} THEN NoRecord ELSE s
    BY Zenon DEF RolledBack
  <2>2. \A p \in Properties : L[p] # NoLease => Clean(L[p])
    BY Zenon, <1>1, CleanLease DEF Leased
  <2>3. s.lease = L
    <3> HIDE DEF L
    <3>. QED
      BY Zenon DEF Record
  <2> HIDE DEF s, L, kept
  <2>. QED
    BY <2>1, <2>2, <2>3, Zenon DEF CleanRecord
<1>. QED
  BY <1>3, <1>4, <1>5, <1>6, Zenon

\* A journal write keeps the baselines: only valid records are written.
LEMMA SaveKept ==
    ASSUME NEW m \in Journals, CleanJournal(m), NEW before, Kept(before), Kept(journal),
           Saved(m) \/ NotSaved(m, before)
    PROVE  Kept(mem)' /\ Kept(journal)'
<1>1. ASSUME ValidJournal(m) PROVE MatchedJournal(m)
  BY <1>1, Zenon DEF ValidJournal, Recorded, ValidRecord, MatchedJournal, Matched
<1>2. ASSUME ValidJournal(m) PROVE Kept(m) /\ Kept(Exported(m))
  <2>1. \A u \in Units : m[u] # NoRecord =>
          Durable(m[u]).lease = m[u].lease /\ Durable(m[u]).managed = m[u].managed
    BY Zenon DEF Durable, Journals, Record
  <2>2. CleanJournal(Exported(m))
    BY <2>1, Zenon DEF Exported, CleanJournal, CleanRecord
  <2>3. MatchedJournal(Exported(m))
    BY <2>1, <1>1, <1>2 DEF Exported, MatchedJournal, Matched, Leased
  <2>. QED
    BY <1>1, <1>2, <2>2, <2>3, Zenon DEF Kept
<1>3. mem' \in {m, before} /\ journal' \in {journal, Exported(m)}
  BY Zenon DEF Saved, NotSaved
<1>4. CASE ValidJournal(m)
  <2>1. Kept(mem)'
    BY <1>2, <1>3, <1>4, Zenon DEF Kept, CleanJournal, MatchedJournal
  <2>2. Kept(journal)'
    BY <1>2, <1>3, <1>4, Zenon DEF Kept, CleanJournal, MatchedJournal
  <2>. QED
    BY <2>1, <2>2, Zenon
<1>5. CASE ~ValidJournal(m)
  <2>1. mem' = before /\ journal' = journal
    BY <1>5, Zenon DEF Saved, NotSaved
  <2>. QED
    BY <2>1, Zenon DEF Kept, CleanJournal, MatchedJournal
<1>. QED
  BY <1>4, <1>5, Zenon

\* Replacing the record of one unit.
LEMMA UpdateKept ==
    ASSUME NEW m \in Journals, NEW u \in Units, NEW r
    PROVE  /\ CleanJournal(m) /\ CleanRecord(r) => CleanJournal([m EXCEPT ![u] = r])
           /\ Kept(m) /\ CleanRecord(r) /\ Matched(r) => Kept([m EXCEPT ![u] = r])
BY Zenon DEF Kept, CleanJournal, MatchedJournal, Journals

\* Steps that change neither memory nor journal.
LEMMA SameKept ==
    ASSUME BInv, UNCHANGED <<mem, journal>>
    PROVE  Kept(mem)' /\ Kept(journal)'
BY Zenon DEF BInv, Kept, CleanJournal, MatchedJournal

\* What systemd does keeps the loaded drop-ins and the properties together.
LEMMA KnownStep ==
    ASSUME TypeOK, Known,
           \/ UNCHANGED systemdVars
           \/ Reload
           \/ \E u \in Units :
                \/ RevertUnitFiles(u) \/ Depart(u) \/ Return(u)
                \/ OperatorDropIn(u) \/ OperatorRevert(u)
                \/ \E a \in Assignments : SetUnitProperties(u, a)
    PROVE  Known'
<1> USE DEF TypeOK, SystemdTypeOK, Known
<1>1. CASE UNCHANGED systemdVars
  BY <1>1, Zenon DEF systemdVars
<1>2. CASE Reload
  BY <1>2, Zenon DEF Reload, Configured, Present, Paths
<1>3. ASSUME NEW u \in Units, NEW a \in Assignments, SetUnitProperties(u, a) PROVE Known'
  BY <1>3 DEF SetUnitProperties
<1>4. ASSUME NEW u \in Units, RevertUnitFiles(u) \/ OperatorDropIn(u) PROVE Known'
  BY <1>4 DEF RevertUnitFiles, OperatorDropIn
<1>5. ASSUME NEW u \in Units, Depart(u) PROVE Known'
  BY <1>5, Zenon DEF Depart
<1>6. ASSUME NEW u \in Units, Return(u) PROVE Known'
  BY <1>6, Zenon DEF Return, Configured, Present, Paths
<1>7. ASSUME NEW u \in Units, OperatorRevert(u) PROVE Known'
  BY <1>7 DEF OperatorRevert
<1>. QED
  BY <1>1, <1>2, <1>3, <1>4, <1>5, <1>6, <1>7, Zenon

\* The start of a property transaction.
LEMMA BeginKept ==
    ASSUME NEW before \in Journals, Kept(before), Kept(journal), NEW u \in Units,
           NEW staged \in Record, CleanRecord(staged), NEW kind, NEW a,
           Begin(kind, u, a, staged, before)
    PROVE  Kept(mem)' /\ Kept(journal)'
<1> DEFINE m == [before EXCEPT ![u] = staged]
<1>1. m \in Journals /\ CleanJournal(m)
  BY UpdateType, UpdateKept, Zenon DEF Kept
<1>2. Saved(m) \/ NotSaved(m, before)
  BY Zenon DEF Begin
<1> HIDE DEF m
<1>. QED
  BY <1>1, <1>2, SaveKept, Zenon

\* Staging the rewrite of some files leaves the leases alone.
LEMMA MutationLeases ==
    ASSUME NEW r \in Record, NEW S
    PROVE  StageMutation(r, S).lease = r.lease
BY Zenon DEF StageMutation, Record

\* Apply takes the vendor's value for the baseline of a property it acquires.
LEMMA ApplyBInv ==
    ASSUME TInv, BInv, NEW u \in Units, NEW a \in Requests, Apply(u, a)
    PROVE  BInv'
<1> DEFINE tracked == mem[u] # NoRecord
           r == IF tracked THEN mem[u] ELSE BlankRecord(life[u])
           L == [p \in Properties |->
                   IF p \notin DOMAIN a THEN r.lease[p]
                   ELSE IF r.lease[p] = NoLease THEN NewLease(prop[u][p])
                   ELSE Resolved(r.lease[p], prop[u][p])]
           acquired == [r EXCEPT !.lease = L]
           staged == StageMutation(StageLeases(acquired, a), DOMAIN a)
<1>1. a \in Assignments /\ \A p \in DOMAIN a : p \in Properties /\ a[p] # Foreign
  BY SystemdAssumption DEF Requests, Assignments, Values
<1>2. /\ mem[u] \in Record \cup {NoRecord} /\ life[u] \in 1..MaxLife
      /\ \A p \in Properties : prop[u][p] \in Values
  BY Zenon DEF TInv, TypeOK, SystemdTypeOK, Journals
<1>3. r \in Record
  BY <1>2, BlankRecordType, Zenon
<1>4. CleanRecord(r) /\ Matched(r)
  <2>1. CASE tracked
    BY <2>1, Zenon DEF BInv, Kept, CleanJournal, MatchedJournal
  <2>2. CASE ~tracked
    BY <2>2, Zenon DEF BlankRecord, CleanRecord, Matched, Leased
  <2>. QED
    BY <2>1, <2>2, Zenon
<1>5. active[u] /\ CombinedPaths(u) = r.managed
  BY Zenon DEF Apply
<1> HIDE DEF r
<1>6. \A p \in Properties : r.lease[p] = NoLease => prop[u][p] = Vendor
  BY <1>3, <1>4, <1>5, JournalAssumption, Zenon DEF Matched, Leased, CombinedPaths, BInv, Known
<1>7. \A p \in Properties : r.lease[p] # NoLease => r.lease[p] \in Lease /\ Clean(r.lease[p])
  BY <1>3, <1>4, JournalAssumption, Zenon DEF CleanRecord, Record
<1>8. \A p \in Properties : NewLease(prop[u][p]) \in Lease /\ (prop[u][p] = Vendor => Clean(NewLease(prop[u][p])))
  BY <1>2, NewLeaseType, VendorIsNotForeign, Zenon DEF NewLease, Clean
<1>9. \A p \in Properties : r.lease[p] # NoLease =>
        Resolved(r.lease[p], prop[u][p]) \in Lease /\ Clean(Resolved(r.lease[p], prop[u][p]))
  BY Zenon, <1>2, <1>7, LeaseTypes, CleanLease
<1>10. /\ L \in [Properties -> Lease \cup {NoLease}]
       /\ \A p \in DOMAIN a : L[p] # NoLease
       /\ \A p \in Properties : L[p] # NoLease => Clean(L[p])
  BY <1>1, <1>6, <1>7, <1>8, <1>9, JournalAssumption, Zenon
<1> HIDE DEF L
<1>11. acquired \in Record /\ acquired.lease = L
  BY <1>3, <1>10, Zenon DEF Record
<1> HIDE DEF acquired
<1>12. StageLeases(acquired, a) \in Record /\ CleanRecord(StageLeases(acquired, a))
  BY <1>1, <1>10, <1>11, StageLeasesType, CleanStaged, Zenon DEF CleanRecord
<1>13. staged \in Record /\ staged.lease = StageLeases(acquired, a).lease
  <2>1. DOMAIN a \in SUBSET Properties
    BY <1>1, Zenon
  <2>. QED
    BY <1>12, <2>1, StageMutationType, MutationLeases, Zenon
<1>14. CleanRecord(staged)
  BY <1>12, <1>13, JournalAssumption, Zenon DEF CleanRecord
<1>15. Begin("apply", u, a, staged, mem) /\ UNCHANGED systemdVars
  BY Zenon DEF Apply, staged, acquired, L, r
<1> HIDE DEF staged
<1>16. Kept(mem)' /\ Kept(journal)'
  BY <1>13, <1>14, <1>15, BeginKept, Zenon DEF BInv, TInv, TypeOK
<1>. QED
  BY <1>15, <1>16, KnownStep, Zenon DEF BInv, TInv

\* RestoreProperties stages baselines only.
LEMMA RestorePropertiesBInv ==
    ASSUME TInv, BInv, NEW u \in Units, NEW S \in SUBSET Properties, RestoreProperties(u, S)
    PROVE  BInv'
<1> DEFINE r == mem[u]
           owned == {p \in S \cap Leased(r) : Owned(r.lease[p], prop[u][p])}
           L == SettledLeases(r, owned, prop[u])
           resolved == [r EXCEPT !.lease = L]
           needed == {p \in owned : prop[u][p] # r.lease[p].baseline}
           a == [p \in needed |-> r.lease[p].baseline]
           staged == StageMutation(StageLeases(resolved, a), needed)
           before == [mem EXCEPT ![u] = resolved]
<1>1. r \in Record /\ prop[u] \in [Properties -> Values] /\ mem \in Journals
  BY Zenon DEF TInv, TypeOK, SystemdTypeOK, Journals, RestoreProperties
<1>2. owned \in SUBSET Leased(r) /\ needed \subseteq Leased(r)
  BY Zenon
<1>3. /\ L \in [Properties -> Lease \cup {NoLease}]
      /\ \A p \in Properties : L[p] = NoLease <=> r.lease[p] = NoLease
  BY Zenon, <1>1, <1>2, SettledType
<1>4. CleanRecord(r) /\ Matched(r)
  BY Zenon DEF BInv, Kept, CleanJournal, MatchedJournal
<1>5. \A p \in needed : p \in Properties /\ r.lease[p] # NoLease /\ r.lease[p].baseline = Vendor
  BY <1>1, <1>4, JournalAssumption, Zenon DEF CleanRecord, Clean, Leased
<1>6. resolved \in Record /\ resolved.lease = L /\ resolved.managed = r.managed
  <2> HIDE DEF L
  <2>. QED
    BY <1>1, <1>3, Zenon DEF Record
<1>7. /\ IF needed = {} THEN mem' = before /\ UNCHANGED <<journal, pc, tx, budget>>
                        ELSE Begin("properties", u, a, staged, before)
      /\ UNCHANGED systemdVars
  BY Zenon DEF RestoreProperties, SettledLeases
<1> HIDE DEF resolved
<1>8. CleanRecord(resolved) /\ Matched(resolved)
  <2> HIDE DEF owned, r
  <2>. QED
    BY <1>1, <1>2, <1>4, <1>6, CleanSettled, Zenon DEF L
<1>9. before \in Journals /\ Kept(before)
  BY <1>1, <1>6, <1>8, UpdateType, UpdateKept, Zenon DEF BInv
<1>10. /\ a \in Assignments /\ DOMAIN a = needed
       /\ \A p \in DOMAIN a : resolved.lease[p] # NoLease /\ a[p] # Foreign
  <2>1. \A p \in needed : resolved.lease[p] # NoLease
    BY <1>3, <1>5, <1>6, Zenon
  <2>2. a \in [needed -> Values] /\ needed \in SUBSET Properties
    BY <1>5, VendorIsNotForeign, Zenon
  <2>3. \A p \in needed : a[p] # Foreign
    BY <1>5, VendorIsNotForeign, Zenon
  <2> HIDE DEF a, needed
  <2>. QED
    BY <2>1, <2>2, <2>3, AssignmentsType, Zenon
<1> HIDE DEF L, before, a, needed
<1>11. StageLeases(resolved, a) \in Record /\ CleanRecord(StageLeases(resolved, a))
  BY <1>6, <1>8, <1>10, StageLeasesType, CleanStaged, Zenon
<1>12. staged \in Record /\ staged.lease = StageLeases(resolved, a).lease
  <2>1. needed \in SUBSET Properties
    BY <1>5, Zenon
  <2>. QED
    BY <1>11, <2>1, StageMutationType, MutationLeases, Zenon
<1>13. CleanRecord(staged)
  BY <1>11, <1>12, JournalAssumption, Zenon DEF CleanRecord
<1> HIDE DEF staged
<1>14. Kept(mem)' /\ Kept(journal)'
  <2>1. CASE needed = {}
    BY <1>7, <1>9, <2>1, Zenon DEF BInv, Kept, CleanJournal, MatchedJournal
  <2>2. CASE needed # {}
    BY <1>7, <1>9, <1>12, <1>13, <2>2, BeginKept, Zenon DEF BInv
  <2>. QED
    BY <2>1, <2>2, Zenon
<1>. QED
  BY <1>7, <1>14, KnownStep, Zenon DEF BInv, TInv

\* PrepareUnitRestore stages baselines, or the default that stands for them.
LEMMA PrepareUnitRestoreBInv ==
    ASSUME TInv, BInv, NEW u \in Units, PrepareUnitRestore(u)
    PROVE  BInv'
<1> DEFINE r == mem[u]
           paths == CombinedPaths(u)
           f == IF paths # {} THEN disk[u] ELSE r.fp
           owned == {p \in Leased(r) : Owned(r.lease[p], prop[u][p])}
           needed == {p \in owned : prop[u][p] # r.lease[p].baseline}
           resolved == [r EXCEPT !.fp = f, !.lease = SettledLeases(r, owned, prop[u])]
           raw == [p \in needed |-> r.lease[p].baseline]
           effective == [p \in needed |-> EffectiveBaseline(p, r.lease[p].baseline)]
           before == [mem EXCEPT ![u] = resolved]
           removed == [mem EXCEPT ![u] = NoRecord]
<1>1. /\ pc = "prepare" /\ u \in todo
      /\ \/ UNCHANGED <<mem, journal>>
         \/ mem' = before /\ UNCHANGED journal
         \/ Begin("conflict", u, raw, StageLeases(resolved, raw), before)
         \/ Saved(removed) \/ NotSaved(removed, before)
         \/ Begin("baseline", u, effective, StageLeases(resolved, effective), before)
      /\ UNCHANGED systemdVars
  BY Zenon DEF PrepareUnitRestore, SettledLeases
<1>2. /\ mem \in Journals /\ r \in Record /\ f \in Footprints
      /\ prop[u] \in [Properties -> Values]
  BY <1>1, Zenon DEF TInv, TypeOK, SystemdTypeOK, Journals, Bookkeeping, Recorded, Record
<1>3. owned \in SUBSET Leased(r) /\ needed \in SUBSET owned
  BY Zenon
<1>4. CleanRecord(r) /\ Matched(r)
  BY Zenon DEF BInv, Kept, CleanJournal, MatchedJournal
<1>5. \A p \in needed : p \in Properties /\ r.lease[p] # NoLease /\ r.lease[p].baseline = Vendor
  BY <1>2, <1>4, JournalAssumption, Zenon DEF CleanRecord, Clean, Leased
<1>6. /\ raw \in [needed -> Values] /\ effective \in [needed -> Values]
      /\ \A p \in needed : raw[p] # Foreign /\ effective[p] # Foreign
  BY <1>5, VendorIsNotForeign, Zenon DEF EffectiveBaseline, Values
<1>7. DOMAIN raw = needed /\ DOMAIN effective = needed
  BY Zenon
<1> HIDE DEF owned, needed, raw, effective, f
<1>8. /\ resolved \in Record /\ raw \in Assignments /\ effective \in Assignments
      /\ StageLeases(resolved, raw) \in Record /\ StageLeases(resolved, effective) \in Record
  BY Zenon, <1>2, <1>3, <1>6, PrepareTypes
<1>9. resolved.managed = r.managed /\ resolved.lease = SettledLeases(r, owned, prop[u])
  BY <1>2, Zenon DEF Record
<1>10. \A p \in needed : resolved.lease[p] # NoLease
  BY <1>2, <1>3, <1>5, <1>9, SettledType
<1> HIDE DEF r, resolved
<1>11. CleanRecord(resolved) /\ Matched(resolved)
  BY <1>2, <1>3, <1>4, <1>8, <1>9, CleanSettled, Zenon
<1>12. CleanRecord(StageLeases(resolved, raw)) /\ CleanRecord(StageLeases(resolved, effective))
  BY <1>6, <1>7, <1>8, <1>10, <1>11, CleanStaged, Zenon
<1>13. /\ before \in Journals /\ Kept(before)
       /\ removed \in Journals /\ CleanJournal(removed)
  <2>1. CleanRecord(NoRecord)
    BY Zenon DEF CleanRecord
  <2>2. Kept(mem) /\ CleanJournal(mem)
    BY Zenon DEF BInv, Kept
  <2>3. before \in Journals /\ removed \in Journals
    BY <1>2, <1>8, Zenon DEF Journals
  <2>4. Kept(before)
    BY <1>2, <1>11, <2>2, UpdateKept, Zenon
  <2>5. CleanJournal(removed)
    BY <1>2, <2>1, <2>2, UpdateKept, Zenon
  <2>. QED
    BY <2>3, <2>4, <2>5, Zenon
<1> HIDE DEF before, removed
<1>14. Kept(mem)' /\ Kept(journal)'
  <2>1. CASE UNCHANGED <<mem, journal>>
    BY <2>1, SameKept, Zenon
  <2>2. CASE mem' = before /\ UNCHANGED journal
    BY <2>2, <1>13, Zenon DEF BInv, Kept, CleanJournal, MatchedJournal
  <2>3. CASE Begin("conflict", u, raw, StageLeases(resolved, raw), before)
    BY <2>3, <1>8, <1>12, <1>13, BeginKept, Zenon DEF BInv
  <2>4. CASE Begin("baseline", u, effective, StageLeases(resolved, effective), before)
    BY <2>4, <1>8, <1>12, <1>13, BeginKept, Zenon DEF BInv
  <2>5. CASE Saved(removed) \/ NotSaved(removed, before)
    BY <2>5, <1>13, SaveKept, Zenon DEF BInv
  <2>. QED
    BY <1>1, <2>1, <2>2, <2>3, <2>4, <2>5, Zenon
<1>. QED
  BY <1>1, <1>14, KnownStep, Zenon DEF BInv, TInv

\* A journal write of several records keeps the baselines.
LEMMA RewriteKept ==
    ASSUME TInv, BInv, NEW m \in Journals, Saved(m) \/ NotSaved(m, mem),
           \A u \in Units : m[u] # mem[u] => CleanRecord(m[u])
    PROVE  Kept(mem)' /\ Kept(journal)'
<1>1. \A u \in Units : CleanRecord(mem[u])
  BY Zenon DEF CleanJournal, BInv, Kept
<1>2. ASSUME NEW u \in Units PROVE CleanRecord(m[u])
  <2>1. CASE m[u] = mem[u]
    BY <1>1, <2>1, Zenon
  <2>2. CASE m[u] # mem[u]
    BY <2>2, Zenon
  <2>. QED
    BY <2>1, <2>2, Zenon
<1>3. CleanJournal(m)
  BY Zenon, <1>2 DEF CleanJournal
<1>. QED
  BY <1>3, SaveKept, Zenon DEF BInv

\* The record of a recorded unit.
LEMMA RecordKept ==
    ASSUME TInv, BInv, NEW u \in Units, mem[u] # NoRecord
    PROVE  mem[u] \in Record /\ CleanRecord(mem[u]) /\ Matched(mem[u]) /\ disk[u] \in Footprints
BY Zenon DEF TInv, TypeOK, SystemdTypeOK, Journals, BInv, Kept, CleanJournal, MatchedJournal

\* The second save of a mutation keeps the baselines.
LEMMA ConfirmBInv ==
    ASSUME TInv, BInv, Confirm
    PROVE  BInv'
<1> DEFINE u == tx.unit
           m == [mem EXCEPT ![u] = Confirmed(mem[u], disk[u])]
<1>1. /\ Saved(m) \/ NotSaved(m, mem) \/ UNCHANGED <<mem, journal>>
      /\ pc = "confirm" /\ UNCHANGED systemdVars
  BY Zenon DEF Confirm
<1>2. u \in Units /\ mem[u] # NoRecord /\ mem \in Journals
  BY <1>1, Zenon DEF TInv, TypeOK, Control, Transactions
<1>3. Confirmed(mem[u], disk[u]) \in Record /\ CleanRecord(Confirmed(mem[u], disk[u]))
  BY <1>2, RecordKept, ConfirmedType, CleanTransformed, Zenon
<1>4. m \in Journals /\ \A v \in Units : m[v] # mem[v] => CleanRecord(m[v])
  BY <1>2, <1>3, Zenon DEF Journals
<1> HIDE DEF m
<1>5. Kept(mem)' /\ Kept(journal)'
  BY <1>1, <1>4, RewriteKept, SameKept, Zenon
<1>. QED
  BY <1>1, <1>5, KnownStep, Zenon DEF BInv, TInv

\* The intent to revert keeps the baselines (RestoreUnits).
LEMMA FinishUnitRestoresBInv ==
    ASSUME TInv, BInv, FinishUnitRestores
    PROVE  BInv'
<1> DEFINE m == [u \in Units |-> IF u \in pending THEN RestoreIntent(mem[u]) ELSE mem[u]]
<1>1. /\ Saved(m) \/ NotSaved(m, mem) \/ UNCHANGED <<mem, journal>>
      /\ UNCHANGED systemdVars
  BY Zenon DEF FinishUnitRestores
<1>2. \A u \in pending : u \in Units /\ mem[u] # NoRecord
  BY Zenon DEF TInv, Bookkeeping, Recorded
<1>3. ASSUME NEW u \in pending PROVE RestoreIntent(mem[u]) \in Record /\ CleanRecord(RestoreIntent(mem[u]))
  <2>1. mem[u] \in Record /\ CleanRecord(mem[u])
    BY <1>2, RecordKept, Zenon
  <2>. QED
    BY <2>1, RestoreIntentType, CleanTransformed, Zenon
<1>4. m \in Journals /\ \A v \in Units : m[v] # mem[v] => CleanRecord(m[v])
  BY <1>2, <1>3, Zenon DEF Journals, TInv, TypeOK
<1> HIDE DEF m
<1>5. Kept(mem)' /\ Kept(journal)'
  BY <1>1, <1>4, RewriteKept, SameKept, Zenon
<1>. QED
  BY <1>1, <1>5, KnownStep, Zenon DEF BInv, TInv

\* The phase after the reverts keeps the baselines (RestoreUnits).
LEMMA RevertsDoneBInv ==
    ASSUME TInv, BInv, RevertsDone
    PROVE  BInv'
<1> DEFINE m == [u \in Units |->
                   IF u \in reverted THEN [mem[u] EXCEPT !.phase = "reloading"] ELSE mem[u]]
<1>1. /\ Saved(m) \/ NotSaved(m, mem) \/ UNCHANGED <<mem, journal>>
      /\ pc = "revert" /\ UNCHANGED systemdVars
  BY Zenon DEF RevertsDone
<1>2. \A u \in reverted : u \in Units /\ mem[u] # NoRecord
  BY <1>1, Zenon DEF TInv, Bookkeeping, Recorded
<1>3. ASSUME NEW u \in reverted
      PROVE  /\ [mem[u] EXCEPT !.phase = "reloading"] \in Record
             /\ CleanRecord([mem[u] EXCEPT !.phase = "reloading"])
  <2>1. mem[u] \in Record /\ CleanRecord(mem[u]) /\ mem[u] # NoRecord
    BY <1>2, RecordKept, Zenon
  <2>2. /\ [mem[u] EXCEPT !.phase = "reloading"] \in Record
        /\ [mem[u] EXCEPT !.phase = "reloading"].lease = mem[u].lease
    BY <2>1, Zenon DEF Record, Phases
  <2>. QED
    BY <2>1, <2>2, Zenon DEF CleanRecord
<1>4. m \in Journals /\ \A v \in Units : m[v] # mem[v] => CleanRecord(m[v])
  <2>1. mem \in Journals
    BY Zenon DEF TInv, TypeOK
  <2>2. \A v \in Units : m[v] = IF v \in reverted THEN [mem[v] EXCEPT !.phase = "reloading"] ELSE mem[v]
    BY Zenon
  <2>3. \A v \in Units : m[v] \in Record \cup {NoRecord} /\ (m[v] # mem[v] => CleanRecord(m[v]))
    BY Zenon, <1>3, <2>1, <2>2 DEF Journals
  <2>4. m \in Journals
    BY <2>3, Zenon DEF Journals
  <2>. QED
    BY <2>3, <2>4, Zenon
<1> HIDE DEF m
<1>5. Kept(mem)' /\ Kept(journal)'
  BY <1>1, <1>4, RewriteKept, SameKept, Zenon
<1>. QED
  BY <1>1, <1>5, KnownStep, Zenon DEF BInv, TInv

\* The removal of released records keeps the other baselines (RestoreUnits).
LEMMA VerifyAndRemoveBInv ==
    ASSUME TInv, BInv, VerifyAndRemove
    PROVE  BInv'
<1> DEFINE good == {u \in pending : Verified(u)}
           m == [u \in Units |-> IF u \in good THEN NoRecord ELSE mem[u]]
<1>1. /\ Saved(m) \/ NotSaved(m, mem) \/ UNCHANGED <<mem, journal>>
      /\ UNCHANGED systemdVars
  BY Zenon DEF VerifyAndRemove
<1>2. m \in Journals /\ \A v \in Units : m[v] # mem[v] => CleanRecord(m[v])
  <2> HIDE DEF good
  <2>. QED
    BY Zenon DEF Journals, TInv, TypeOK, CleanRecord
<1> HIDE DEF m
<1>3. Kept(mem)' /\ Kept(journal)'
  BY <1>1, <1>2, RewriteKept, SameKept, Zenon
<1>. QED
  BY <1>1, <1>3, KnownStep, Zenon DEF BInv, TInv

\* A selective restore that has ended keeps the other baselines.
LEMMA FinishResetUnitBInv ==
    ASSUME TInv, BInv, NEW u \in Units, FinishResetUnit(u)
    PROVE  BInv'
<1> DEFINE m == [mem EXCEPT ![u] = StageUnitRestore(mem[u])]
<1>1. /\ Saved(m) \/ NotSaved(m, mem) \/ UNCHANGED <<mem, journal>>
      /\ u \in pending /\ UNCHANGED systemdVars
  BY Zenon DEF FinishResetUnit
<1>2. mem[u] # NoRecord /\ mem \in Journals
  BY <1>1, Zenon DEF TInv, TypeOK, Bookkeeping, Recorded
<1>3. StageUnitRestore(mem[u]) \in Record /\ CleanRecord(StageUnitRestore(mem[u]))
  BY <1>2, RecordKept, RestoreIntentType, CleanTransformed, Zenon
<1>4. m \in Journals /\ \A v \in Units : m[v] # mem[v] => CleanRecord(m[v])
  BY <1>2, <1>3, Zenon DEF Journals
<1> HIDE DEF m
<1>5. Kept(mem)' /\ Kept(journal)'
  BY <1>1, <1>4, RewriteKept, SameKept, Zenon
<1>. QED
  BY <1>1, <1>5, KnownStep, Zenon DEF BInv, TInv

\* The intent to clean up departed units keeps the baselines.
LEMMA InactiveIntentBInv ==
    ASSUME TInv, BInv, InactiveIntent
    PROVE  BInv'
<1> DEFINE staged == {u \in left : mem[u].phase \in {"applying", "applied"}}
           m == [u \in Units |-> IF u \in staged THEN StageUnitRestore(mem[u]) ELSE mem[u]]
<1>1. /\ Saved(m) \/ NotSaved(m, mem) \/ UNCHANGED <<mem, journal>>
      /\ UNCHANGED systemdVars
  BY Zenon DEF InactiveIntent
<1>2. \A u \in staged : u \in Units /\ mem[u] # NoRecord
  BY Zenon DEF TInv, Bookkeeping, Recorded
<1> HIDE DEF staged
<1>3. ASSUME NEW u \in staged PROVE StageUnitRestore(mem[u]) \in Record /\ CleanRecord(StageUnitRestore(mem[u]))
  <2>1. mem[u] \in Record /\ CleanRecord(mem[u])
    BY <1>2, RecordKept, Zenon
  <2>. QED
    BY <2>1, RestoreIntentType, CleanTransformed, Zenon
<1>4. m \in Journals /\ \A v \in Units : m[v] # mem[v] => CleanRecord(m[v])
  BY <1>2, <1>3, Zenon DEF Journals, TInv, TypeOK
<1> HIDE DEF m
<1>5. Kept(mem)' /\ Kept(journal)'
  BY <1>1, <1>4, RewriteKept, SameKept, Zenon
<1>. QED
  BY <1>1, <1>5, KnownStep, Zenon DEF BInv, TInv

\* Clearing departed units keeps the baselines of the others.
LEMMA PrepareInactiveRecoveryBInv ==
    ASSUME TInv, BInv, NEW u \in Units, PrepareInactiveRecovery(u)
    PROVE  BInv'
<1> DEFINE m == [mem EXCEPT ![u] = RolledBack(mem[u])]
<1>1. /\ Saved(m) \/ NotSaved(m, mem) \/ UNCHANGED <<mem, journal>>
      /\ u \in departed /\ UNCHANGED systemdVars
  BY Zenon DEF PrepareInactiveRecovery, RecoverySave
<1>2. mem[u] # NoRecord /\ mem \in Journals
  BY <1>1, Zenon DEF TInv, TypeOK, Bookkeeping, Recorded
<1>3. RolledBack(mem[u]) \in Record \cup {NoRecord} /\ CleanRecord(RolledBack(mem[u]))
  BY <1>2, RecordKept, RolledBackType, CleanTransformed, Zenon
<1>4. m \in Journals /\ \A v \in Units : m[v] # mem[v] => CleanRecord(m[v])
  BY <1>2, <1>3, Zenon DEF Journals
<1> HIDE DEF m
<1>5. Kept(mem)' /\ Kept(journal)'
  BY <1>1, <1>4, RewriteKept, SameKept, Zenon
<1>. QED
  BY <1>1, <1>5, KnownStep, Zenon DEF BInv, TInv

\* Recovery takes a baseline over as it was recorded, or blocks the unit.
LEMMA RecoverUnitBInv ==
    ASSUME TInv, BInv, NEW u \in Units, RecoverUnit(u)
    PROVE  BInv'
<1> DEFINE r == mem[u]
           moved == [r EXCEPT !.id = life[u]]
           rebound == [mem EXCEPT ![u].id = life[u]]
           confirmed == [mem EXCEPT ![u] = Confirmed(moved, disk[u])]
           rolledBack == [mem EXCEPT ![u] = RolledBack(r)]
<1>1. /\ \/ UNCHANGED <<mem, journal>>
         \/ mem' = rebound /\ UNCHANGED journal
         \/ \E m \in {rebound, confirmed, rolledBack} : Saved(m) \/ NotSaved(m, mem)
      /\ pc = "recover" /\ u \in todo /\ UNCHANGED systemdVars
  BY Zenon DEF RecoverUnit, RecoverRestore, RecoverApplied, RecoverApplying, RecoverMissing,
               RecoverUnreadable, RecoverySave
<1>2. r # NoRecord /\ mem \in Journals /\ life[u] \in 1..MaxLife
  BY <1>1, Zenon DEF TInv, TypeOK, SystemdTypeOK, Bookkeeping, Recorded
<1>3. r \in Record /\ CleanRecord(r) /\ Matched(r) /\ disk[u] \in Footprints
  BY <1>2, RecordKept, Zenon
<1>4. rebound = [mem EXCEPT ![u] = moved]
  BY <1>2, Zenon
<1>5. moved \in Record /\ moved.lease = r.lease /\ moved.managed = r.managed
  BY <1>2, <1>3, Zenon DEF Record
<1>6. CleanRecord(moved) /\ Matched(moved)
  BY <1>3, <1>5, <1>2, Zenon DEF CleanRecord, Matched, Leased
<1>7. /\ Confirmed(moved, disk[u]) \in Record /\ CleanRecord(Confirmed(moved, disk[u]))
      /\ RolledBack(r) \in Record \cup {NoRecord} /\ CleanRecord(RolledBack(r))
  <2> HIDE DEF moved, r
  <2>. QED
    BY <1>3, <1>5, <1>6, ConfirmedType, RolledBackType, CleanTransformed, Zenon
<1> HIDE DEF r, moved, rebound
<1>8. \A m \in {rebound, confirmed, rolledBack} :
        m \in Journals /\ \A v \in Units : m[v] # mem[v] => CleanRecord(m[v])
  BY <1>2, <1>4, <1>5, <1>6, <1>7, Zenon DEF Journals
<1>9. Kept(rebound)
  <2>1. Kept([mem EXCEPT ![u] = moved])
    BY <1>2, <1>6, UpdateKept, Zenon DEF BInv
  <2>. QED
    BY <1>4, <2>1, Zenon
<1> HIDE DEF confirmed, rolledBack
<1>10. Kept(mem)' /\ Kept(journal)'
  <2>1. CASE UNCHANGED <<mem, journal>>
    BY <2>1, SameKept, Zenon
  <2>2. CASE mem' = rebound /\ UNCHANGED journal
    BY <2>2, <1>9, Zenon DEF BInv, Kept, CleanJournal, MatchedJournal
  <2>3. CASE \E m \in {rebound, confirmed, rolledBack} : Saved(m) \/ NotSaved(m, mem)
    BY <2>3, <1>8, RewriteKept, Zenon
  <2>. QED
    BY <1>1, <2>1, <2>2, <2>3, Zenon
<1>. QED
  BY <1>1, <1>10, KnownStep, Zenon DEF BInv, TInv

\* The other steps change systemd, or what the operation holds, or nothing.
LEMMA QuietBInv ==
    ASSUME TInv, BInv, UNCHANGED <<mem, journal>>,
           \/ UNCHANGED systemdVars
           \/ Reload
           \/ \E u \in Units :
                \/ RevertUnitFiles(u) \/ Depart(u) \/ Return(u)
                \/ OperatorDropIn(u) \/ OperatorRevert(u)
                \/ \E a \in Assignments : SetUnitProperties(u, a)
    PROVE  BInv'
<1>1. Known'
  BY KnownStep, Zenon DEF TInv, BInv
<1>. QED
  BY <1>1, SameKept, Zenon DEF BInv

\* Departures, returns and operators change no record.
LEMMA EnvironmentBInv ==
    ASSUME TInv, BInv, Environment
    PROVE  BInv'
<1>1. UNCHANGED <<mem, journal>>
  BY Zenon DEF Environment, adapterVars
<1>2. ASSUME NEW u \in Units, NEW p \in Properties, OperatorSet(u, p)
      PROVE  \E a \in Assignments : SetUnitProperties(u, a)
  <2> DEFINE a == [x \in {p} |-> Foreign]
  <2>1. {p} \in SUBSET Properties /\ a \in [{p} -> Values]
    BY Zenon DEF Values
  <2>2. a \in Assignments
    BY <2>1, AssignmentsType, Zenon
  <2>3. SetUnitProperties(u, a)
    BY <1>2, Zenon DEF OperatorSet
  <2> HIDE DEF a
  <2>. QED
    BY <2>2, <2>3, Zenon
<1>3. PICK u \in Units :
        \/ Depart(u) \/ Return(u) \/ OperatorDropIn(u) \/ OperatorRevert(u)
        \/ \E p \in Properties : OperatorSet(u, p)
  BY Zenon DEF Environment
<1>. QED
  BY <1>1, <1>2, <1>3, QuietBInv, Zenon

\* A call of systemd changes no record.
LEMMA SetPropertiesBInv ==
    ASSUME TInv, BInv, SetProperties
    PROVE  BInv'
<1>1. tx.unit \in Units /\ tx.assign \in Assignments
  BY Zenon DEF SetProperties, TInv, Control, Transactions
<1>2. SetUnitProperties(tx.unit, tx.assign) \/ UNCHANGED systemdVars
  BY Zenon DEF SetProperties
<1>3. UNCHANGED <<mem, journal>>
  BY Zenon DEF SetProperties
<1>. QED
  BY <1>1, <1>2, <1>3, QuietBInv, Zenon

\* A crash forgets the memory, a start reads the journal.
LEMMA DownBInv ==
    ASSUME TInv, BInv, Down \/ Start
    PROVE  BInv'
<1>1. UNCHANGED systemdVars /\ journal' = journal
  BY Zenon DEF Down, Start
<1>2. Kept(NoRecords)
  BY Zenon DEF Kept, CleanJournal, CleanRecord, MatchedJournal, Matched, NoRecords
<1>3. mem' = NoRecords \/ mem' = journal
  BY Zenon DEF Down, Start
<1>4. Kept(mem)' /\ Kept(journal)'
  <2>1. Kept(mem)'
    BY <1>2, <1>3, Zenon DEF BInv, Kept, CleanJournal, MatchedJournal
  <2>2. Kept(journal)'
    BY <1>1, Zenon DEF BInv, Kept, CleanJournal, MatchedJournal
  <2>. QED
    BY <2>1, <2>2, Zenon
<1>. QED
  BY <1>1, <1>4, KnownStep, Zenon DEF BInv, TInv

\* Every step keeps the baselines.
LEMMA NextBInv == TInv /\ BInv /\ [Next]_vars => BInv'
<1> SUFFICES ASSUME TInv, BInv, [Next]_vars PROVE BInv'
  BY Zenon
<1>1. ASSUME NEW u \in Units, Revert(u) \/ KernelMismatch(u) PROVE BInv'
  BY <1>1, QuietBInv, Zenon DEF Revert, KernelMismatch
<1>2. CASE ReloadManager
  BY <1>2, QuietBInv, Zenon DEF ReloadManager
<1>3. CASE Recheck \/ EndRecovery \/ ReconcileOwned \/ UNCHANGED vars
  <2>1. UNCHANGED <<mem, journal>> /\ UNCHANGED systemdVars
    BY <1>3, Zenon DEF Recheck, EndRecovery, ReconcileOwned, vars, adapterVars
  <2>. QED
    BY <2>1, QuietBInv, Zenon
<1>4. ASSUME NEW S \in SUBSET Units, Release(S) PROVE BInv'
  BY <1>4, QuietBInv, Zenon DEF Release
<1>5. CASE Client
  BY <1>3, <1>4, <1>5, ApplyBInv, RestorePropertiesBInv, DownBInv, Zenon DEF Client, Close
<1>6. CASE Progress
  BY <1>1, <1>2, <1>3, <1>6, SetPropertiesBInv, ConfirmBInv, PrepareUnitRestoreBInv,
     FinishUnitRestoresBInv, RevertsDoneBInv, VerifyAndRemoveBInv, RecoverUnitBInv,
     FinishResetUnitBInv, PrepareInactiveRecoveryBInv, InactiveIntentBInv, Zenon DEF Progress
<1>7. CASE Crash \/ Environment
  BY <1>7, DownBInv, EnvironmentBInv, Zenon DEF Crash
<1>. QED
  BY <1>3, <1>5, <1>6, <1>7, Zenon DEF Next

\* The baselines, and the paths and values of every lease, are kept by every step.
THEOREM LeasesKept == Spec => [](TInv /\ SInv /\ BInv)
<1>1. Init => BInv
  <2> SUFFICES ASSUME Init PROVE BInv
    BY Zenon
  <2>1. Known
    BY Zenon DEF Init, SystemdInit, Known
  <2>2. Kept(NoRecords)
    BY Zenon DEF Kept, CleanJournal, CleanRecord, MatchedJournal, Matched, NoRecords
  <2>. QED
    BY <2>1, <2>2, Zenon DEF Init, BInv
<1>2. TInv /\ BInv /\ [Next]_vars => BInv'
  BY NextBInv, Zenon
<1>. QED
  BY <1>1, <1>2, JournalSound, PTL DEF Spec

\* adapter.go, newPropertyLeaseState: whatever crashes, fails, departs or
\* interferes, a journaled baseline is the unit's own value, so that releasing
\* it returns the unit to what it was.
THEOREM BaselinesStayPreserved == Spec => []BaselinePreserved
<1>1. BInv => BaselinePreserved
  BY Zenon DEF BInv, Kept, CleanJournal, CleanRecord, Clean, BaselinePreserved, Recorded, Leased
<1>. QED
  BY <1>1, LeasesKept, PTL

\* prepareUnitRestore either leaves the selection alone or selects its unit.
LEMMA PrepareSelects ==
    ASSUME NEW v, PrepareUnitRestore(v)
    PROVE  \/ UNCHANGED pending
           \/ /\ pending' = pending \cup {v}
              /\ Restorable(mem[v], v) /\ CombinedPaths(v) # {}
              /\ Leased(mem[v]) \ {p \in Leased(mem[v]) : Owned(mem[v].lease[p], prop[v][p])} = {}
              /\ {p \in {q \in Leased(mem[v]) : Owned(mem[v].lease[q], prop[v][q])} :
                    prop[v][p] # mem[v].lease[p].baseline} = {}
BY Zenon DEF PrepareUnitRestore

\* So does the check after the baselines were programmed.
LEMMA RecheckSelects ==
    ASSUME Recheck
    PROVE  \/ UNCHANGED pending
           \/ /\ pending' = pending \cup {tx.unit}
              /\ active[tx.unit]
              /\ CombinedPaths(tx.unit) = mem[tx.unit].managed
              /\ \A p \in Leased(mem[tx.unit]) : prop[tx.unit][p] = mem[tx.unit].lease[p].last
BY Zenon DEF Recheck, AtLast

\* The steps that select a unit for the revert while units are released.
LEMMA SelectingSteps ==
    ASSUME TInv, Next, task = "release", NEW u \in pending', u \notin pending
    PROVE  u \in Units /\ (PrepareUnitRestore(u) \/ (Recheck /\ u = tx.unit))
<1>1. pc \notin {"idle", "down", "recover", "finishReset", "inactive"}
  BY Zenon DEF TInv, Control
<1>2. ASSUME NEW F, EndBatch(F) PROVE FALSE
  BY <1>2, Zenon DEF EndBatch
<1>3. ~Client
  <2>1. ASSUME NEW v \in Units, NEW a \in Requests PROVE ~Apply(v, a)
    BY <1>1, Zenon DEF Apply
  <2>2. ASSUME NEW v \in Units, NEW S \in SUBSET Properties PROVE ~RestoreProperties(v, S)
    BY <1>1, Zenon DEF RestoreProperties
  <2>3. ~(ReconcileOwned \/ Start \/ Close \/ \E S \in SUBSET Units : Release(S))
    BY <1>1, Zenon DEF ReconcileOwned, Start, Close, Release
  <2>. QED
    BY <2>1, <2>2, <2>3, Zenon DEF Client
<1>4. ~(Crash \/ Environment)
  BY Zenon DEF Crash, Down, Environment, adapterVars
<1>5. ~(SetProperties \/ Confirm)
  BY Zenon DEF SetProperties, Confirm
<1>6. ~(FinishUnitRestores \/ RevertsDone \/ ReloadManager \/ VerifyAndRemove)
  <2>1. ~FinishUnitRestores
    BY <1>2, Zenon DEF FinishUnitRestores
  <2>2. ~RevertsDone
    BY <1>2, Zenon DEF RevertsDone
  <2>3. ~ReloadManager
    BY <1>2, Zenon DEF ReloadManager
  <2>4. ~VerifyAndRemove
    BY <1>2, Zenon DEF VerifyAndRemove
  <2>. QED
    BY <2>1, <2>2, <2>3, <2>4, Zenon
<1>7. ~(EndRecovery \/ InactiveIntent)
  BY <1>1, Zenon DEF EndRecovery, InactiveIntent
<1>8. ASSUME NEW v \in Units
      PROVE  ~(\/ RecoverUnit(v) \/ FinishResetUnit(v) \/ PrepareInactiveRecovery(v)
               \/ Revert(v) \/ KernelMismatch(v))
  BY <1>1, Zenon DEF RecoverUnit, FinishResetUnit, PrepareInactiveRecovery, Revert, KernelMismatch
<1>9. ASSUME NEW v \in Units, PrepareUnitRestore(v) PROVE u = v
  BY <1>9, PrepareSelects
<1>10. ASSUME Recheck PROVE u = tx.unit /\ u \in Units
  BY <1>10, Zenon DEF Recheck, TInv, Control, Transactions
<1>11. Recheck \/ \E v \in Units : PrepareUnitRestore(v)
  BY <1>3, <1>4, <1>5, <1>6, <1>7, <1>8, Zenon DEF Next, Progress
<1>. QED
  BY <1>9, <1>10, <1>11, Zenon

\* A unit it selects has no file but leased drop-ins, and none of them holds
\* the value of an operator.
LEMMA SelectedFiles ==
    ASSUME TInv, SInv, BInv, Next, task = "release", NEW u \in pending', u \notin pending
    PROVE  Present(disk[u]) \subseteq Leased(mem[u]) /\ \A p \in Properties : disk[u][p] # Foreign
<1>1. u \in Units /\ (PrepareUnitRestore(u) \/ (Recheck /\ u = tx.unit))
  BY SelectingSteps, Zenon
<1>2. /\ active[u]
      /\ CombinedPaths(u) = mem[u].managed
      /\ \A p \in Leased(mem[u]) : prop[u][p] \in {mem[u].lease[p].baseline, mem[u].lease[p].last}
  <2>1. CASE PrepareUnitRestore(u)
    <3>1. /\ Restorable(mem[u], u) /\ CombinedPaths(u) # {}
          /\ Leased(mem[u]) \ {p \in Leased(mem[u]) : Owned(mem[u].lease[p], prop[u][p])} = {}
          /\ {p \in {q \in Leased(mem[u]) : Owned(mem[u].lease[q], prop[u][q])} :
                prop[u][p] # mem[u].lease[p].baseline} = {}
      BY Zenon, <2>1, PrepareSelects
    <3>2. active[u] /\ CombinedPaths(u) = mem[u].managed
      BY <3>1, Zenon DEF Restorable
    <3>3. ASSUME NEW p \in Leased(mem[u]) PROVE prop[u][p] = mem[u].lease[p].baseline
      BY <3>1, Zenon
    <3>. QED
      BY <3>2, <3>3, Zenon
  <2>2. CASE Recheck /\ u = tx.unit
    BY Zenon, <2>2, RecheckSelects
  <2>. QED
    BY <1>1, <2>1, <2>2, Zenon
<1>3. /\ mem[u] # NoRecord
      /\ disk[u] \in Footprints
  <2>1. disk[u] \in Footprints
    BY <1>1, Zenon DEF TInv, TypeOK, SystemdTypeOK
  <2>2. CASE PrepareUnitRestore(u)
    <3>1. u \in todo
      BY Zenon, <2>2 DEF PrepareUnitRestore
    <3>. QED
      BY <2>1, <3>1, Zenon DEF TInv, Bookkeeping, Recorded
  <2>3. CASE Recheck /\ u = tx.unit
    BY <2>1, <2>3, Zenon DEF Recheck, TInv, Control
  <2>. QED
    BY <1>1, <2>2, <2>3, Zenon
<1>4. CleanRecord(mem[u]) /\ Matched(mem[u])
  BY Zenon, <1>1 DEF BInv, Kept, CleanJournal, MatchedJournal
<1>5. CombinedPaths(u) = Leased(mem[u])
  BY <1>2, <1>3, <1>4, Zenon DEF Matched
<1>6. ASSUME NEW p \in Properties, disk[u][p] = Foreign PROVE FALSE
  <2>1. Foreign # NoFile /\ p \in Paths /\ p \in Leased(mem[u])
    BY <1>5, <1>6, SystemdAssumption, Zenon DEF CombinedPaths, Present, Paths, Values
  <2>2. prop[u][p] = Foreign
    BY <1>1, <1>2, <1>6, <2>1, Zenon DEF SInv, Live
  <2>3. Clean(mem[u].lease[p])
    BY <1>3, <1>4, <2>1, Zenon DEF CleanRecord, Leased
  <2>. QED
    BY <1>2, <2>1, <2>2, <2>3, VendorIsNotForeign, Zenon DEF Clean
<1>. QED
  BY <1>5, <1>6, Zenon DEF CombinedPaths

\* adapter.go, RestoreUnits: a release selects a unit for the destructive
\* revert only while its mutable files are leased drop-ins that hold no
\* operator's value.
THEOREM ReleasesRevertOwnFiles == Spec => ReleaseRevertsOwnFiles
<1>1. ASSUME TInv, SInv, BInv, [Next]_vars
      PROVE  [\A u \in pending' \ pending : task = "release" =>
                /\ Present(disk[u]) \subseteq Leased(mem[u])
                /\ \A p \in Properties : disk[u][p] # Foreign]_vars
  BY <1>1, SelectedFiles, Zenon
<1>. QED
  BY <1>1, LeasesKept, PTL DEF Spec, ReleaseRevertsOwnFiles
=============================================================================
