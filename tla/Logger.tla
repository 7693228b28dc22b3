------------------------------- MODULE Logger -------------------------------
(***************************************************************************)
(* The process logger (logging/logger.go, logging/health.go): one record    *)
(* at a time under the write gate, the rotation of the log file with its    *)
(* bounded set of copies, and the health of the sink.                       *)
(*                                                                          *)
(* A record is a number, a file the set of the records it holds ({} is a    *)
(* missing file).  Every file operation of a rotation is a step that may    *)
(* fail and between which the process may be killed.  A descriptor whose    *)
(* Close failed is "dead": the runtime has given it up, so that a write to  *)
(* it and a second Close fail.                                              *)
(***************************************************************************)
EXTENDS Integers, FiniteSets

CONSTANTS MaxSize,      \* LOG_MAX_SIZE, in records
          Limits,       \* the values LOG_MAX_BACKUPS takes, all at least 1
          MaxRecords,   \* bound: records written
          MaxFaults,    \* bound: operations that fail
          MaxStarts     \* bound: starts of the process

VARIABLES active,   \* the records of LOG_FILE
          copies,   \* the records of LOG_FILE.1, LOG_FILE.2.gz, ...
          log,      \* loggerState
          rot,      \* where the record being written, and its rotation, is
          due,      \* a second has passed since lastRotation
          ghost     \* written: records the sink accepted; next: the next record;
                    \* last: the last record of this process;
                    \* low: smallest limit used; kept: records in copies when the
                    \* rotation began; faults, starts: the bounds' counters

vars == <<active, copies, log, rot, due, ghost>>

Largest == CHOOSE n \in Limits : \A k \in Limits : k <= n
Slots == 1..Largest
Idle == [pc |-> "idle", index |-> 0]
At(pc) == [pc |-> pc, index |-> 0]
Copied == UNION {copies[i] : i \in Slots}

\* An operation fails: the outside world refuses it.
Fault == ghost.faults < MaxFaults
Faulted == [ghost EXCEPT !.faults = @ + 1]

\* Health.Healthy, published by recordSinkSuccess and reportSinkFailure, which
\* end the record.
recordSinkSuccess == log' = [log EXCEPT !.healthy = TRUE]
reportSinkFailure(handle) == /\ log' = [log EXCEPT !.healthy = FALSE, !.handle = handle]
                             /\ rot' = Idle

\* log: the sink in use, its file handle, maxBackups, the level and the health.
FileLogger(max) == [sink |-> "file", handle |-> "open", max |-> max,
                    level |-> "INFO", healthy |-> TRUE]
OtherLogger(sink) == [sink |-> sink, handle |-> "nil", max |-> 1,
                      level |-> "INFO", healthy |-> TRUE]

Init == /\ active = {} /\ copies = [i \in Slots |-> {}]
        /\ log = OtherLogger("none")
        /\ rot = Idle /\ due = FALSE
        /\ ghost = [written |-> {}, next |-> 1, last |-> 0, low |-> Largest, kept |-> {},
                    faults |-> 0, starts |-> 0]

Min2(a, b) == IF a < b THEN a ELSE b

\* The file is opened, or created (openSecureLogFile): a file logger.
newFileLogger == \E max \in Limits :
    /\ log' = FileLogger(max)
    /\ ghost' = [ghost EXCEPT !.starts = @ + 1, !.last = 0, !.low = Min2(@, max)]

\* Syslog is configured and reached, or a failed construction falls back to
\* stderr: neither has a file to rotate.
createStderrLogger == /\ Fault
                      /\ log' = OtherLogger("stderr")
                      /\ ghost' = [Faulted EXCEPT !.starts = @ + 1, !.last = 0]
syslogLogger == /\ log' = OtherLogger("syslog")
                /\ ghost' = [ghost EXCEPT !.starts = @ + 1, !.last = 0]

InitLogger == /\ log.sink = "none" /\ ghost.starts < MaxStarts
              /\ newFileLogger \/ createStderrLogger \/ syslogLogger
              /\ due' = FALSE
              /\ UNCHANGED <<active, copies, rot>>

SetLevel == /\ log.sink = "file"
            /\ \E level \in {"INFO", "ERROR"} \ {log.level} : log' = [log EXCEPT !.level = level]
            /\ UNCHANGED <<active, copies, rot, due, ghost>>

\* A record takes the next number, whether or not it reaches the file.
Append == active \cup {ghost.next}
Tried == [ghost EXCEPT !.last = ghost.next, !.next = @ + 1]
Wrote == [Tried EXCEPT !.written = @ \cup {ghost.next}]
LostRecord == [Tried EXCEPT !.faults = @ + 1]

\* logInternal: a record below the level is not written.  The others enter the
\* write gate; a file that is not open is opened first (reopenActiveLog).
logInternal == \E level \in {"INFO", "ERROR"} :
    /\ rot = Idle /\ log.sink # "none" /\ ghost.next <= MaxRecords
    /\ log.level = "ERROR" => level = "ERROR"
    /\ IF log.sink = "file" /\ log.handle = "nil"
       THEN \/ /\ log' = [log EXCEPT !.handle = "open"] /\ rot' = At("write") /\ UNCHANGED ghost
            \/ Fault /\ reportSinkFailure("nil") /\ ghost' = LostRecord
       ELSE rot' = At("write") /\ UNCHANGED <<log, ghost>>
    /\ UNCHANGED <<active, copies, due>>

\* The record is written.  A file is then examined at most once a second.
writePrimaryRecord ==
    /\ rot.pc = "write" /\ log.handle # "dead"
    /\ IF log.sink = "file" THEN active' = Append /\ ghost' = Wrote
                            ELSE UNCHANGED <<active, ghost>>
    /\ IF log.sink = "file" /\ due
       THEN rot' = At("stat") /\ due' = FALSE /\ UNCHANGED log
       ELSE recordSinkSuccess /\ rot' = Idle /\ UNCHANGED due
    /\ UNCHANGED copies

\* The write fails: the file is closed, to be opened again by the next record,
\* unless the close fails too.
writeFails ==
    /\ rot.pc = "write"
    /\ IF log.handle = "dead"
       THEN reportSinkFailure("dead") /\ ghost' = Tried
       ELSE /\ Fault /\ ghost' = LostRecord
            /\ \E handle \in IF log.sink = "file" THEN {"nil", "dead"} ELSE {log.handle} :
                  reportSinkFailure(handle)
    /\ UNCHANGED <<active, copies, due>>

\* checkAndRotate: a file within the size ends the record.
checkAndRotate ==
    /\ rot.pc = "stat"
    /\ \/ /\ Cardinality(active) > MaxSize
          /\ rot' = At("close") /\ ghost' = [ghost EXCEPT !.kept = Copied]
          /\ UNCHANGED log
       \/ /\ Cardinality(active) <= MaxSize
          /\ recordSinkSuccess /\ rot' = Idle /\ UNCHANGED ghost
       \/ Fault /\ reportSinkFailure("open") /\ ghost' = Faulted
    /\ UNCHANGED <<active, copies, due>>

\* rotateLog closes the file; a failed close keeps the handle.
closeActive ==
    /\ rot.pc = "close"
    /\ \/ /\ log' = [log EXCEPT !.handle = "nil"]
          /\ rot' = [pc |-> "prune", index |-> log.max + 1] /\ UNCHANGED ghost
       \/ Fault /\ reportSinkFailure("dead") /\ ghost' = Faulted
    /\ UNCHANGED <<active, copies, due>>

\* A step of shiftBackups or the rename fails: the active file is opened again
\* (reopenActiveLog, which may fail) and the rotation is given up.
GiveUp == /\ Fault /\ ghost' = Faulted
          /\ \E handle \in {"open", "nil"} : reportSinkFailure(handle)
          /\ UNCHANGED <<active, copies, due>>

\* pruneBackups removes the copies above the limit one by one.
pruneBackups ==
    /\ rot.pc = "prune"
    /\ \/ /\ rot.index \in Slots
          /\ copies' = [copies EXCEPT ![rot.index] = {}]
          /\ rot' = [rot EXCEPT !.index = @ + 1]
          /\ UNCHANGED <<active, log, due, ghost>>
       \/ /\ rot.index \notin Slots
          /\ rot' = [pc |-> "remove", index |-> log.max]
          /\ UNCHANGED <<active, copies, log, due, ghost>>
       \/ GiveUp

\* The oldest copy makes room.
removeOldest ==
    /\ rot.pc = "remove"
    /\ \/ /\ copies' = [copies EXCEPT ![log.max] = {}]
          /\ rot' = [pc |-> "shift", index |-> log.max - 1]
          /\ UNCHANGED <<active, log, due, ghost>>
       \/ GiveUp

\* shiftBackups moves the compressed copies up, from the oldest on; a missing one
\* is not an error.
Rename(from, to) == IF copies[from] = {} THEN copies
                    ELSE [copies EXCEPT ![from] = {}, ![to] = copies[from]]

shiftBackups ==
    /\ rot.pc = "shift"
    /\ \/ /\ rot.index >= 2
          /\ copies' = Rename(rot.index, rot.index + 1)
          /\ rot' = [rot EXCEPT !.index = @ - 1]
          /\ UNCHANGED <<active, log, due, ghost>>
       \/ /\ rot.index < 2
          /\ rot' = At(IF log.max = 1 \/ copies[1] = {} THEN "rename" ELSE "compress")
          /\ UNCHANGED <<active, copies, log, due, ghost>>
       \/ GiveUp

\* compressLogBackup puts a complete copy of .1 in place of .2.gz, or nothing.
compressLogBackup ==
    /\ rot.pc = "compress"
    /\ \/ /\ copies' = [copies EXCEPT ![2] = copies[1]]
          /\ rot' = At("drop")
          /\ UNCHANGED <<active, log, due, ghost>>
       \/ GiveUp

dropCompressed ==
    /\ rot.pc = "drop"
    /\ \/ /\ copies' = [copies EXCEPT ![1] = {}]
          /\ rot' = At("rename")
          /\ UNCHANGED <<active, log, due, ghost>>
       \/ GiveUp

\* Mutant: the active file is copied and stays in use.
CopyingRenameActive ==
    /\ rot.pc = "rename"
    /\ \/ /\ copies' = [copies EXCEPT ![1] = active]
          /\ rot' = At("open")
          /\ UNCHANGED <<active, log, due, ghost>>
       \/ GiveUp

\* The active file becomes .1, replacing what is there.
renameActive ==
    /\ rot.pc = "rename"
    /\ \/ /\ copies' = [copies EXCEPT ![1] = active]
          /\ active' = {}
          /\ rot' = At("open")
          /\ UNCHANGED <<log, due, ghost>>
       \/ GiveUp

openAfterRotation ==
    /\ rot.pc = "open"
    /\ \/ /\ log' = [log EXCEPT !.handle = "open"] /\ rot' = At("notice") /\ UNCHANGED ghost
       \/ Fault /\ reportSinkFailure("nil") /\ ghost' = Faulted
    /\ UNCHANGED <<active, copies, due>>

\* The notice is a record of its own, written at INFO only; when it fails the
\* handle is dropped whatever its close answers.
rotationNotice ==
    /\ rot.pc = "notice"
    /\ \/ /\ IF log.level = "INFO" THEN active' = Append /\ ghost' = Wrote
                                   ELSE UNCHANGED <<active, ghost>>
          /\ recordSinkSuccess /\ rot' = Idle
       \/ /\ log.level = "INFO" /\ Fault /\ ghost' = Faulted
          /\ reportSinkFailure("nil") /\ UNCHANGED active
    /\ UNCHANGED <<copies, due>>

\* Close at the end of the process; nothing is logged after it.
Close == /\ rot = Idle /\ log.sink # "none"
         /\ \/ log' = OtherLogger("none") /\ UNCHANGED ghost
            \/ Fault /\ log' = [OtherLogger("none") EXCEPT !.healthy = FALSE] /\ ghost' = Faulted
         /\ UNCHANGED <<active, copies, rot, due>>

\* A second passes.
Tick == /\ ~due /\ due' = TRUE
        /\ rot = Idle /\ log.sink = "file"
        /\ UNCHANGED <<active, copies, log, rot, ghost>>

\* The process is killed; the files stay as they are.
Crash == /\ log.sink # "none"
         /\ log' = OtherLogger("none") /\ rot' = Idle
         /\ UNCHANGED <<active, copies, due, ghost>>

Next == \/ InitLogger \/ SetLevel \/ logInternal \/ writePrimaryRecord \/ writeFails
        \/ checkAndRotate \/ closeActive \/ pruneBackups \/ removeOldest \/ shiftBackups
        \/ compressLogBackup \/ dropCompressed \/ renameActive \/ openAfterRotation
        \/ rotationNotice \/ Close \/ Tick \/ Crash

Spec == Init /\ [][Next]_vars

-----------------------------------------------------------------------------
Retained == active \cup UNION {copies[i] : i \in 1..ghost.low}
Newest(S) == CHOOSE r \in S : \A q \in S : q <= r

\* The files are the end of the log, in order.  A record that is in the active
\* file or in a copy within the limit is followed there by every record written
\* after it, and a copy with a larger number holds older records: whatever
\* operation of a rotation failed and wherever the process was killed, only the
\* oldest records are gone (shiftBackups: "so no record is overwritten").
LogIsASuffix ==
    /\ \A old \in Retained, new \in ghost.written : old < new => new \in active \cup Copied
    /\ \A i, j \in Slots : i < j /\ copies[i] # {} /\ copies[j] # {}
          => Newest(copies[j]) <= Newest(copies[i])
    /\ \A i \in Slots : active # {} /\ copies[i] # {}
          => \A r \in active : Newest(copies[i]) < r

\* A healthy idle file logger has the last record on disk and a descriptor that
\* can be written: no failure of a write, of a rotation or of a close is lost
\* (logInternal, reportSinkFailure).
HealthTruthful ==
    rot = Idle /\ log.sink = "file" /\ log.healthy
       => /\ log.handle # "dead"
          /\ ghost.last # 0 => ghost.last \in active \cup Copied

\* docs/TECHNICAL-SPECIFICATION.md 10.3: "A failure before step 4 leaves every
\* existing copy in place": a rotation that is given up before the rename has not
\* lost a record that a copy held when it began.
FailedRotationKeepsCopies ==
    [][rot.pc \in {"prune", "remove", "shift", "compress", "drop", "rename"} /\ rot' = Idle
          /\ log'.sink = "file"
          => ghost.kept \subseteq Copied']_vars
=============================================================================
