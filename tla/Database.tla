------------------------------- MODULE Database -------------------------------
(***************************************************************************)
(* The metrics database: the storage checks, the versioned schema and its  *)
(* migrations, the batch writer, retention and the queries                 *)
(* (database/manager.go, database/storage.go, metrics/db_writer.go).       *)
(*                                                                         *)
(* dbGate and the single connection make every operation one step for the  *)
(* other callers, but not for a crash: a transaction is built in tx and    *)
(* reaches the disk when it commits, every other statement reaches it at   *)
(* once, and the process may die between any two of them.                  *)
(***************************************************************************)
EXTENDS Integers, FiniteSets, FiniteSetsExt

CONSTANTS
    Uids,         \* users a batch may describe
    Retention,    \* METRICS_DB_RETENTION_DAYS
    MaxDay, MaxBatches, MaxStarts   \* bounds of the model

VARIABLES
    files,    \* how the directory and each SQLite artifact lie on the disk
    disk,     \* what is committed
    tx,       \* the open transaction: what will be committed, or NoTx
    mgr,      \* where the manager and its caller are
    clock,    \* the day, the last sample's instant and the starts so far
    ghost     \* system ids ever issued, samples reported as written, and whether
              \* the store's creation was cut short

vars == <<files, disk, tx, mgr, clock, ghost>>

Current == 10
Artifacts == {"db", "wal", "shm"}
Paths == {"dir"} \cup Artifacts
Kinds == {"absent", "private", "broad", "foreign"}
Tables == {"user", "system"}
NoTx == [none |-> TRUE]

\* The columns a schema version has beyond those of version 7, and whether its
\* CHECK admits every provenance.
Columns(v) == IF v \in 8..Current THEN IF v = 8 THEN {"io"} ELSE {"io", "provenance"} ELSE {}

SystemRow(id, at, day, zone) == [id |-> id, at |-> at, day |-> day, zone |-> zone]
UserRow(at, day, zone, uid) == [at |-> at, day |-> day, zone |-> zone, uid |-> uid]

\* A store as some version left it: one sample of day 0 and a higher sequence,
\* because a later row was deleted.  Older versions wrote local times.
Left(v) ==
    [v |-> v, tables |-> Tables, cols |-> Columns(v), wide |-> v = Current,
     sys |-> {SystemRow(1, 1, 0, IF v = Current THEN "utc" ELSE "local")},
     usr |-> {UserRow(1, 0, IF v = Current THEN "utc" ELSE "local", u) : u \in Uids},
     seq |-> 2]

Empty == [v |-> 0, tables |-> {}, cols |-> {}, wide |-> FALSE, sys |-> {}, usr |-> {}, seq |-> 0]

Sample(at, day, uids) == [at |-> at, day |-> day, uids |-> uids]

Init ==
    /\ \/ disk = Empty /\ files = [a \in Paths |-> "absent"]
       \/ /\ disk \in {Left(v) : v \in {0, 3, 7, 8, 9, 10}}
          /\ \E odd \in Paths, k \in Kinds \ {"absent"} :
                files = [a \in Paths |-> IF a = odd THEN k
                                        ELSE IF a \in {"dir", "db"} THEN "private" ELSE "absent"]
    /\ tx = NoTx
    /\ mgr = [pc |-> "down", version |-> 0, due |-> TRUE, why |-> "none"]
    /\ clock = [day |-> 1, at |-> 1, starts |-> 0]
    /\ ghost = [issued |-> 1..disk.seq, torn |-> FALSE,
                written |-> {Sample(q.at, q.day, Uids) : q \in disk.sys}]

At(pc) == mgr.pc = pc
Goto(pc) == mgr' = [mgr EXCEPT !.pc = pc]
Refuse(why) == mgr' = [mgr EXCEPT !.pc = "refused", !.why = why]

\* Commit publishes the transaction; a failed statement or commit rolls it back.
Begin(d) == tx' = d
Committed == disk' = tx /\ tx' = NoTx

-----------------------------------------------------------------------------
(* Opening. *)

\* validateSQLiteArtifactInfo, on a file that exists.
SafeArtifact(a) == files[a] = "private"

\* validateExistingSQLiteArtifact over sqliteArtifacts.
SafeArtifacts == \A a \in Artifacts : files[a] # "absent" => SafeArtifact(a)

\* ensurePrivateDatabaseDirectory and validatePrivateDatabaseDirectory.
SafeDirectory == files["dir"] \in {"absent", "private"}

\* The directory and ensureMainDatabaseFile: created private when absent.
MainFile == [files EXCEPT !["dir"] = "private", !["db"] = "private"]

\* The sidecars that SQLite creates when it opens the file in WAL mode.  The
\* daemon does not rely on their mode, nor on their still being SQLite's own.
Sidecars(f, k) == [a \in Paths |-> IF f[a] = "absent" THEN k ELSE f[a]]

\* Closing the last connection checkpoints and removes the sidecars.
Closed == [files EXCEPT !["wal"] = "absent", !["shm"] = "absent"]

\* A refusal after the database was opened closes it.
RefuseOpen(why) == Refuse(why) /\ files' = Closed

\* prepareSQLiteStorage and sql.Open: nothing is opened over an unsafe artifact.
NewDatabaseManager ==
    /\ At("down") /\ clock.starts < MaxStarts
    /\ clock' = [clock EXCEPT !.starts = @ + 1]
    /\ IF SafeDirectory /\ SafeArtifacts
       THEN Goto("inspect") /\ \E k \in Kinds \ {"absent"} : files' = Sidecars(MainFile, k)
       ELSE UNCHANGED files /\ Refuse("storage")
    /\ UNCHANGED <<disk, tx, ghost>>

\* schemaVersion and hasMetricsTables: one table is enough.
InitSchema ==
    /\ At("inspect")
    /\ IF disk.v = 0 /\ disk.tables # {} THEN RefuseOpen("incompatible")
       ELSE mgr' = [mgr EXCEPT !.pc = "migrate", !.version = disk.v] /\ UNCHANGED files
    /\ UNCHANGED <<disk, tx, clock, ghost>>

\* The mutant records the version of the next migration as well.
HastySchema8 == [disk EXCEPT !.cols = @ \cup {"io"}, !.v = 9]

\* migrateMetricsSchema7To8: columns with defaults, and the version.
Schema8 == [disk EXCEPT !.cols = @ \cup {"io"}, !.v = 8]

\* migrateMetricsSchema8To9.
Schema9 == [disk EXCEPT !.cols = @ \cup {"provenance"}, !.v = 9]

\* migrateMetricsSchema9To10: the rows are copied into a table with the wider
\* CHECK, which takes the old one's name.  Dropping the old table drops its
\* sequence; the new one's counts the copied rows and is raised to the old.
Schema10 ==
    LET copied == disk.sys
        counted == IF copied = {} THEN 0 ELSE Max({r.id : r \in copied})
        restored == Max({counted, disk.seq})
    IN [disk EXCEPT !.sys = copied, !.wide = TRUE, !.seq = restored, !.v = Current]

Migration(v) == CASE v = 7 -> Schema8 [] v = 8 -> Schema9 [] v = 9 -> Schema10

\* The replacement table of version 10 must have the columns of the old one.
MigrateBegin ==
    /\ At("migrate") /\ mgr.version \in 7..9 /\ tx = NoTx
    /\ IF mgr.version = 9 /\ disk.cols # Columns(Current)
       THEN RefuseOpen("incompatible") /\ UNCHANGED tx
       ELSE Begin(Migration(mgr.version)) /\ UNCHANGED <<files, mgr>>
    /\ UNCHANGED <<disk, clock, ghost>>

MigrateCommit ==
    /\ At("migrate") /\ tx # NoTx
    /\ Committed
    /\ mgr' = [mgr EXCEPT !.version = @ + 1]
    /\ UNCHANGED <<files, clock, ghost>>

Migrated ==
    /\ At("migrate") /\ mgr.version \notin 7..9
    /\ IF mgr.version \in {0, Current} THEN Goto("tables") /\ UNCHANGED files
       ELSE RefuseOpen("incompatible")
    /\ UNCHANGED <<disk, tx, clock, ghost>>

\* ensureIncrementalAutoVacuum, then CREATE TABLE IF NOT EXISTS: each statement
\* commits by itself, and so does the one that records the version.
CreateTables ==
    /\ At("tables")
    /\ disk' = [disk EXCEPT !.tables = @ \cup {"user"}]
    /\ Goto("system")
    /\ UNCHANGED <<files, tx, clock, ghost>>

CreateSystemTable ==
    /\ At("system")
    /\ disk' = IF "system" \in disk.tables THEN disk
               ELSE [disk EXCEPT !.tables = Tables, !.cols = Columns(Current), !.wide = TRUE]
    /\ Goto(IF mgr.version = 0 THEN "record" ELSE "validate")
    /\ UNCHANGED <<files, tx, clock, ghost>>

RecordVersion ==
    /\ At("record")
    /\ disk' = [disk EXCEPT !.v = Current]
    /\ Goto("validate")
    /\ UNCHANGED <<files, tx, clock, ghost>>

\* The creation of a store is cut between its tables and its version.
Torn == ghost.torn \/ (mgr.pc \in {"system", "record"} /\ mgr.version = 0)

\* validateUserMetricsSchema and validateSystemMetricsSchema.
Validate ==
    /\ At("validate")
    /\ IF Columns(Current) \subseteq disk.cols THEN Goto("normalize") /\ UNCHANGED files
       ELSE RefuseOpen("incompatible")
    /\ UNCHANGED <<disk, tx, clock, ghost>>

\* Every timestamp of the model parses; one that does not is left as it is.
Utc(rows) == {[r EXCEPT !.zone = "utc"] : r \in rows}

\* normalizeStoredTimestamps: both tables in one transaction.
NormalizeBegin ==
    /\ At("normalize") /\ tx = NoTx
    /\ Begin([disk EXCEPT !.sys = Utc(@), !.usr = Utc(@)])
    /\ UNCHANGED <<files, disk, mgr, clock, ghost>>

NormalizeCommit ==
    /\ At("normalize") /\ tx # NoTx
    /\ Committed /\ Goto("secure")
    /\ UNCHANGED <<files, clock, ghost>>

\* secureRuntimeArtifacts: an own file is narrowed, a foreign one refused.
SecureArtifacts ==
    /\ At("secure")
    /\ IF \E a \in Artifacts : files[a] = "foreign" THEN RefuseOpen("storage")
       ELSE /\ files' = [a \in Paths |-> IF files[a] = "broad" /\ a # "dir" THEN "private" ELSE files[a]]
            /\ mgr' = [mgr EXCEPT !.pc = "retain", !.due = TRUE]
    /\ UNCHANGED <<disk, tx, clock, ghost>>

Opening ==
    mgr.pc \in {"inspect", "migrate", "tables", "system", "record", "validate", "normalize", "secure"}

\* A statement of the startup fails: the transaction is rolled back, the
\* connection closed, and the daemon goes on without the database.
OpenFails ==
    /\ Opening
    /\ tx' = NoTx /\ RefuseOpen("io")
    /\ ghost' = [ghost EXCEPT !.torn = Torn]
    /\ UNCHANGED <<disk, clock>>

-----------------------------------------------------------------------------
(* Retention: at startup and then daily. *)

\* A timestamp as SQLite compares it: a local one reads a day earlier.
Text(r) == IF r.zone = "utc" THEN r.day ELSE r.day - 1

Cutoff == clock.day - Retention

\* CleanupOldData.
Retained(rows) == {r \in rows : Text(r) >= Cutoff}

CleanupBegin ==
    /\ At("retain") /\ tx = NoTx
    /\ Begin([disk EXCEPT !.sys = Retained(@), !.usr = Retained(@)])
    /\ UNCHANGED <<files, disk, mgr, clock, ghost>>

CleanupCommit ==
    /\ At("retain") /\ tx # NoTx
    /\ Committed /\ Goto("open")
    /\ UNCHANGED <<files, clock, ghost>>

\* handleDatabaseRetention.
RetentionTick ==
    /\ At("open") /\ Goto("retain")
    /\ UNCHANGED <<files, disk, tx, clock, ghost>>

-----------------------------------------------------------------------------
(* Writing one control cycle's batch. *)

\* ShouldWrite; the write interval has passed again.
IntervalElapses ==
    /\ At("open") /\ ~mgr.due
    /\ mgr' = [mgr EXCEPT !.due = TRUE]
    /\ UNCHANGED <<files, disk, tx, clock, ghost>>

\* The records DBWriter.WriteMetricsBatch builds of a cycle: they share the
\* instant, and so the epoch and interval that the manager compares.
Batch(at, users) ==
    [at |-> at, day |-> clock.day, users |-> {UserRow(at, clock.day, "utc", u) : u \in users}]

Inserted(d, b) ==
    [d EXCEPT !.seq = @ + 1, !.sys = @ \cup {SystemRow(d.seq + 1, b.at, b.day, "utc")},
              !.usr = @ \cup b.users]

\* DatabaseManager.WriteMetricsBatch: a batch
\* whose records do not belong together, or whose state is outside the bounded
\* vocabulary, is refused before the transaction.
WriteBegin ==
    /\ At("open") /\ mgr.due /\ clock.at < MaxBatches
    /\ clock' = [clock EXCEPT !.at = @ + 1]
    /\ \/ \E users \in SUBSET Uids :
            Begin(Inserted(disk, Batch(clock.at + 1, users))) /\ Goto("write")
       \/ UNCHANGED <<tx, mgr>>
    /\ UNCHANGED <<files, disk, ghost>>

\* WriteMetricsToDatabase marks the batch as written once it is committed.
WriteCommit ==
    /\ At("write")
    /\ Committed
    /\ mgr' = [mgr EXCEPT !.pc = "open", !.due = FALSE]
    /\ LET new == CHOOSE q \in tx.sys : q.id = tx.seq
       IN ghost' = [ghost EXCEPT !.issued = @ \cup {tx.seq},
                      !.written = @ \cup {Sample(new.at, new.day, {q.uid : q \in tx.usr \ disk.usr})}]
    /\ UNCHANGED <<files, clock>>

\* A failed write or retention leaves the store as it was.
OperationFails ==
    /\ mgr.pc \in {"write", "retain"}
    /\ tx' = NoTx /\ Goto("open")
    /\ UNCHANGED <<files, disk, clock, ghost>>

-----------------------------------------------------------------------------
(* Queries. *)

Between(rows, from, to) == {r \in rows : Text(r) \in from..to}

\* ORDER BY timestamp DESC LIMIT: the newest rows, at most limit of them.
Newest(rows, limit) ==
    {r \in rows : Cardinality({s \in rows : s.day > r.day \/ (s.day = r.day /\ s.at >= r.at)}) <= limit}

GetUserHistory(uid, from, to, limit) ==
    Newest({r \in Between(disk.usr, from, to) : r.uid = uid}, limit)

GetSystemHistory(from, to, limit) == Newest(Between(disk.sys, from, to), limit)

-----------------------------------------------------------------------------
(* Stopping, and the world. *)

Close ==
    /\ At("open")
    /\ Goto("down")
    /\ files' = Closed
    /\ UNCHANGED <<disk, tx, clock, ghost>>

\* The process dies: the open transaction is lost and the sidecars stay.
Crash ==
    /\ mgr.pc \notin {"down", "refused"}
    /\ tx' = NoTx
    /\ mgr' = [pc |-> "down", version |-> 0, due |-> TRUE, why |-> "none"]
    /\ ghost' = [ghost EXCEPT !.torn = Torn]
    /\ UNCHANGED <<files, disk, clock>>

\* A daemon without its database is started again, after the files were put
\* right if they were the reason.
Restart ==
    /\ At("refused")
    /\ mgr' = [mgr EXCEPT !.pc = "down", !.why = "none"]
    /\ files' = IF mgr.why = "storage"
                THEN [a \in Paths |-> IF files[a] = "absent" THEN "absent" ELSE "private"]
                ELSE files
    /\ UNCHANGED <<disk, tx, clock, ghost>>

Day ==
    /\ clock.day < MaxDay
    /\ clock' = [clock EXCEPT !.day = @ + 1]
    /\ UNCHANGED <<files, disk, tx, mgr, ghost>>

Next ==
    \/ NewDatabaseManager \/ InitSchema \/ MigrateBegin \/ MigrateCommit \/ Migrated
    \/ CreateTables \/ CreateSystemTable \/ RecordVersion \/ Validate \/ NormalizeBegin \/ NormalizeCommit
    \/ SecureArtifacts \/ OpenFails \/ CleanupBegin \/ CleanupCommit \/ RetentionTick
    \/ IntervalElapses \/ WriteBegin \/ WriteCommit \/ OperationFails \/ Close \/ Crash
    \/ Restart \/ Day

Spec == Init /\ [][Next]_vars

-----------------------------------------------------------------------------
Days == -1..MaxDay

\* The history is whole samples: through writes, crashes, migrations and
\* retention, whatever a query returns for a user has its system sample in the
\* same range, so no reader sees half a batch.
WholeSamples ==
  \A from \in Days, to \in Days, u \in Uids :
     {r.at : r \in GetUserHistory(u, from, to, 1)}
       \subseteq {r.at : r \in GetSystemHistory(from, to, MaxBatches)}

\* What was reported as written, by this version or by the one it upgrades, is in
\* the store with all of its users for as long as the retention promises: a batch
\* that failed to commit stays due, an interrupted migration loses nothing, and
\* no local timestamp makes a sample look older than it is.
WrittenIsStored ==
  \A w \in ghost.written :
     w.day >= Cutoff => /\ w.at \in {r.at : r \in disk.sys}
                        /\ w.uids = {r.uid : r \in {q \in disk.usr : q.at = w.at}}

\* No artifact of an open store is readable by others, whatever mode SQLite
\* created its sidecars with.
OpenIsPrivate ==
  mgr.pc \in {"retain", "open", "write"} => \A a \in Paths : files[a] = "private"

\* Identifiers of system samples are never reused, although a migration
\* replaces the table that counts them.
FreshIds ==
  /\ disk.seq >= Max(ghost.issued \cup {0})
  /\ \A r, s \in disk.sys : r.id = s.id => r = s

\* A start is refused as incompatible only for a store this program does not
\* upgrade, or one whose creation was cut between the tables and the version:
\* no interrupted migration makes one.
RefusedForGood ==
  mgr.why = "incompatible" => /\ disk.tables # {}
                              /\ disk.v \in {0, 3} /\ (disk.v = 0 /\ disk.sys = {} => ghost.torn)
=============================================================================
