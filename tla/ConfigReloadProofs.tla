--------------------------- MODULE ConfigReloadProofs ---------------------------
(***************************************************************************)
(* Proofs about ConfigReload for any number of replacements of the files,  *)
(* failed operations, edits and events: what is in force was on disk at    *)
(* one instant, an edit that was refused leaves nothing behind, and        *)
(* content that a reload skips as unchanged is what is running.            *)
(***************************************************************************)
EXTENDS MCConfigReload, TLAPS

-----------------------------------------------------------------------------
(* The reload: one epoch at a time, read from one instant of the disk.     *)

\* The steps of a reload, and those at which it has captured or loaded something.
CSteps == {"idle", "config", "points", "load", "weights", "recheck", "policy", "confirm", "iopolicy",
           "reconcile", "apply", "publish", "post"}
CLoaded == {"weights", "recheck", "policy", "confirm", "iopolicy", "reconcile", "apply", "publish"}
CCaptured == {"points", "load"} \cup CLoaded
CWithPolicy == {"confirm", "iopolicy", "reconcile", "apply", "publish"}
CWithIOPolicy == {"reconcile", "apply", "publish"}

Real == [id : Nat \ {0}, ok : BOOLEAN, io : BOOLEAN, frozen : {0, 1}]
Contents == Real \cup {Absent}
Objects == [data : Contents, obj : Nat]
Writes == [of : SUBSET Files, data : Contents]
Revisions == [config : Nat, points : Nat]
Errors == {"none", "failed", "conflict", "restart"}
Answers == {"none", "stopped", "failed", "conflict", "same", "applied", "pending"}
Reloads == [by : {"nobody", "daemon", "editor"}, at : CSteps, force : BOOLEAN,
            config : Nat, points : Nat, weights : Nat, cand : Contents, policy : Objects,
            iopolicy : Objects, old : Contents, pub : BOOLEAN, proc : BOOLEAN, err : Errors]
Runtimes == [config : Contents, points : Nat, weights : Nat, kernel : Nat]
EdSteps == {"idle", "check", "refuse", "write", "readback", "persisted", "restore", "withdraw", "reload",
            "reloading", "undo", "again", "ended"}
Edits == [at : EdSteps, count : Nat, target : {"config", "points"}, rev : Revisions, content : Nat,
          original : Contents, result : Answers \cup {"refused", "pending_restart"}, told : Revisions,
          clash : BOOLEAN, broken : BOOLEAN, unusable : BOOLEAN]

CTypes ==
    /\ file \in [Files -> Objects] /\ writes \in Nat /\ wrote \in Seq(Writes) /\ faults \in Nat
    /\ waiting \in SUBSET Callers /\ answer \in Answers /\ rl \in Reloads /\ runtime \in Runtimes
    /\ ed \in Edits

\* The n first replacements leave f with the content of the k-th.
Last(log, f, k, n) == k \in 1 .. n /\ f \in log[k].of /\ \A j \in k + 1 .. n : f \notin log[j].of

\* An object is the replacement that made it.
Made(log, o) == o.obj \in 1 .. Len(log) /\ log[o.obj].data.id = o.data.id
OnDisk(files, log) ==
    /\ \A f \in Files : /\ Made(log, files[f]) /\ Last(log, f, files[f].obj, Len(log))
                        /\ files[f].data.id <= Len(log)
    /\ \A k \in 1 .. Len(log) : log[k].data.id <= Len(log)

\* The reload that an editor asked for belongs to the request that waits for it.
EditorWaits(w, r, e, a) ==
    /\ "editor" \in w \/ r.by = "editor" => e.at \in {"reloading", "ended"} /\ a = "none"
    /\ "editor" \notin w \/ r.by # "editor"

\* What a reload has read so far was on disk, and what it loaded as the candidate is
\* what it captured unless the configuration has been replaced since.
ReadOnce(r, e, files, log) ==
    /\ r.by = "nobody" => r.at = "idle"
    /\ r.at \in CCaptured => r.config \in 1 .. Len(log)
    /\ r.at \in CCaptured /\ r.by = "editor" /\ e.at = "reloading" =>
         e.rev.config \in 1 .. Len(log) /\ log[e.rev.config].data.id = r.config
    /\ r.at \in CLoaded => r.cand \in Real
    /\ r.at \in CLoaded /\ ~e.clash => r.cand.id = r.config \/ files["config"].data.id # r.config
    /\ r.at \in CWithPolicy => Made(log, r.policy)
    /\ r.at \in CWithIOPolicy /\ r.cand.io => Made(log, r.iopolicy)

\* What is in force while a candidate is applied and not yet published.
InForce(r, run) == IF r.at = "publish" THEN r.old ELSE run.config
Applied(r, run) ==
    /\ r.at = "apply" => r.old = run.config
    /\ r.at = "publish" => run.config.id = r.cand.id /\ run.config.io = r.cand.io

Instant(log, c, p, w) ==
    \E n \in 1 .. Len(log) :
        /\ \E k \in 1 .. n : Last(log, "config", k, n) /\ c.id = log[k].data.id
        /\ \E k \in 1 .. n : Last(log, "points", k, n) /\ p = log[k].data.id
        /\ c.io => \E k \in 1 .. n : Last(log, "weights", k, n) /\ w = log[k].data.id
Published == ~ed.clash => Instant(wrote, InForce(rl, runtime), runtime.points, runtime.weights)

\* A refusal after a write has seen another object, or has put back the original.
TakenBack(e, files, log) ==
    /\ e.content <= Len(log) /\ e.original.id <= Len(log)
    /\ e.at \in {"check", "write"} => e.content = 0
    /\ e.at = "restore" => e.broken
    /\ e.at = "readback" => e.content \in 1 .. Len(log) /\ log[e.content].data.id = e.content
    /\ ~e.broken /\ e.content > 0
         /\ (e.at \in {"refuse", "again", "ended"} \/ (e.at = "idle" /\ e.result = "refused"))
       => files[e.target].obj # e.content

CIInv ==
    /\ CTypes /\ OnDisk(file, wrote) /\ EditorWaits(waiting, rl, ed, answer)
    /\ ReadOnce(rl, ed, file, wrote) /\ Applied(rl, runtime) /\ Published
    /\ TakenBack(ed, file, wrote)

\* Appending to the log of replacements.
LEMMA CAppends ==
    ASSUME NEW log \in Seq(Writes), NEW x \in Writes
    PROVE  LET new == Append(log, x) IN
           /\ new \in Seq(Writes) /\ Len(new) = Len(log) + 1 /\ new[Len(log) + 1] = x
           /\ \A k \in 1 .. Len(log) : new[k] = log[k]
           /\ Len(log) \in Nat
  OBVIOUS

\* It forgets nothing.
LEMMA CKeeps ==
    ASSUME NEW log \in Seq(Writes), NEW x \in Writes
    PROVE  /\ \A o : Made(log, o) => Made(Append(log, x), o)
           /\ \A c, p, w : Instant(log, c, p, w) => Instant(Append(log, x), c, p, w)
<1> DEFINE new == Append(log, x)
<1>1. /\ Len(new) = Len(log) + 1 /\ Len(log) \in Nat
      /\ \A k \in 1 .. Len(log) : new[k] = log[k]
  BY CAppends, Zenon
<1> HIDE DEF new
<1>2. ASSUME NEW o, Made(log, o)
      PROVE  Made(new, o)
  BY <1>1, <1>2 DEF Made
<1>3. ASSUME NEW f, NEW n \in 1 .. Len(log), NEW k \in 1 .. n, Last(log, f, k, n)
      PROVE  Last(new, f, k, n) /\ new[k] = log[k]
  BY <1>1, <1>3 DEF Last
<1>4. ASSUME NEW c, NEW p, NEW w, Instant(log, c, p, w)
      PROVE  Instant(new, c, p, w)
  <2>1. PICK n \in 1 .. Len(log) :
            /\ \E k \in 1 .. n : Last(log, "config", k, n) /\ c.id = log[k].data.id
            /\ \E k \in 1 .. n : Last(log, "points", k, n) /\ p = log[k].data.id
            /\ c.io => \E k \in 1 .. n : Last(log, "weights", k, n) /\ w = log[k].data.id
    BY <1>4, Zenon DEF Instant
  <2>2. /\ \E k \in 1 .. n : Last(new, "config", k, n) /\ c.id = new[k].data.id
        /\ \E k \in 1 .. n : Last(new, "points", k, n) /\ p = new[k].data.id
        /\ c.io => \E k \in 1 .. n : Last(new, "weights", k, n) /\ w = new[k].data.id
    BY <1>3, <2>1, Zenon
  <2>3. n \in 1 .. Len(new)
    BY <1>1, <2>1
  <2>. QED
    BY <2>2, <2>3, Zenon DEF Instant
<1>. QED
  BY <1>2, <1>4, Zenon DEF new

\* Somebody replaces a file.
LEMMA CStores ==
    ASSUME file \in [Files -> Objects], wrote \in Seq(Writes), OnDisk(file, wrote),
           NEW f \in Files, NEW c \in Contents, c.id <= Number, Store(f, c)
    PROVE  /\ file' \in [Files -> Objects] /\ wrote' \in Seq(Writes) /\ OnDisk(file', wrote')
           /\ Len(wrote') = Len(wrote) + 1 /\ Len(wrote) \in Nat /\ \A k \in 1 .. Len(wrote) : wrote'[k] = wrote[k]
           /\ file'[f] = [data |-> c, obj |-> Len(wrote) + 1] /\ wrote'[Len(wrote) + 1].data = c
           /\ \A g \in Files \ {f} : file'[g] = file[g]
           /\ \A o : Made(wrote, o) => Made(wrote', o)
           /\ \A d, p, w : Instant(wrote, d, p, w) => Instant(wrote', d, p, w)
<1> DEFINE x == [of |-> {f}, data |-> c]
<1>0. c.id \in Nat
  BY DEF Contents, Real, Absent
<1>1. x \in Writes /\ x.of = {f} /\ x.data = c
  BY Zenon DEF Writes
<1>2. wrote' = Append(wrote, x)
  BY Zenon DEF Store
<1> HIDE DEF x
<1>3. /\ wrote' \in Seq(Writes) /\ Len(wrote') = Len(wrote) + 1 /\ wrote'[Len(wrote) + 1] = x
      /\ Len(wrote) \in Nat /\ \A k \in 1 .. Len(wrote) : wrote'[k] = wrote[k]
  BY <1>1, <1>2, CAppends
<1>4. /\ \A o : Made(wrote, o) => Made(wrote', o)
      /\ \A d, p, w : Instant(wrote, d, p, w) => Instant(wrote', d, p, w)
  BY <1>1, <1>2, CKeeps, Zenon
<1> DEFINE new == [data |-> c, obj |-> Len(wrote) + 1]
<1>5. file' = [file EXCEPT ![f] = new]
  BY Zenon DEF Store, Number
<1>6. new \in Objects /\ new.obj = Len(wrote) + 1 /\ new.data = c
  BY <1>3 DEF Objects
<1> HIDE DEF new
<1>7. /\ file' \in [Files -> Objects] /\ file'[f] = new
      /\ \A g \in Files \ {f} : file'[g] = file[g]
  BY <1>5, <1>6, Zenon
<1>8. OnDisk(file', wrote')
  <2>1. ASSUME NEW g \in Files
        PROVE  /\ Made(wrote', file'[g]) /\ Last(wrote', g, file'[g].obj, Len(wrote'))
               /\ file'[g].data.id <= Len(wrote')
    <3>1. CASE g = f
      <4>1. file'[g].obj = Len(wrote) + 1 /\ file'[g].data = c
        BY <1>6, <1>7, <3>1, Zenon
      <4>2. c.id <= Len(wrote')
        BY <1>3, Zenon DEF Number
      <4>. QED
        BY <1>1, <1>3, <3>1, <4>1, <4>2 DEF Made, Last
    <3>2. CASE g # f
      <4>1. /\ file'[g] = file[g] /\ Made(wrote, file[g]) /\ Last(wrote, g, file[g].obj, Len(wrote))
            /\ file[g].data.id <= Len(wrote) /\ file[g] \in Objects
        BY <1>7, <3>2, Zenon DEF OnDisk
      <4>2. file[g].data.id \in Nat /\ file[g].obj \in Nat
        BY <4>1 DEF Objects, Contents, Real, Absent
      <4>3. file[g].data.id <= Len(wrote')
        BY <1>3, <4>1, <4>2
      <4>4. g \notin wrote'[Len(wrote) + 1].of
        BY <1>1, <1>3, <3>2, Zenon
      <4>5. Last(wrote', g, file[g].obj, Len(wrote'))
        <5> DEFINE k == file[g].obj
        <5>0. k \in Nat /\ k \in 1 .. Len(wrote)
          BY <4>1, <4>2, Zenon DEF Last
        <5> HIDE DEF k
        <5>1. k \in 1 .. Len(wrote') /\ g \in wrote'[k].of
          BY <1>3, <4>1, <5>0 DEF Last, k
        <5>2. ASSUME NEW j \in k + 1 .. Len(wrote') PROVE g \notin wrote'[j].of
          <6>1. CASE j = Len(wrote) + 1
            BY <4>4, <6>1, Zenon
          <6>2. CASE j # Len(wrote) + 1
            <7>1. j \in k + 1 .. Len(wrote) /\ j \in 1 .. Len(wrote)
              BY <1>3, <5>0, <5>2, <6>2
            <7>2. g \notin wrote[j].of
              BY <4>1, <7>1, Zenon DEF Last, k
            <7>. QED
              BY <1>3, <7>1, <7>2, Zenon
          <6>. QED
            BY <6>1, <6>2, Zenon
        <5>. QED
          BY <5>1, <5>2, Zenon DEF Last, k
      <4>. QED
        BY <1>4, <4>1, <4>3, <4>5, Zenon
    <3>. QED
      BY <3>1, <3>2, Zenon
  <2>2. ASSUME NEW k \in 1 .. Len(wrote')
        PROVE  wrote'[k].data.id <= Len(wrote')
    <3>1. CASE k = Len(wrote) + 1
      BY <1>1, <1>3, <3>1 DEF Number
    <3>2. CASE k # Len(wrote) + 1
      <4>1. k \in 1 .. Len(wrote)
        BY <1>3, <3>2
      <4>2. wrote'[k] = wrote[k] /\ wrote[k].data.id <= Len(wrote) /\ wrote[k] \in Writes
        BY <1>3, <4>1 DEF OnDisk
      <4>3. wrote[k].data.id \in Nat
        BY <4>2 DEF Writes, Contents, Real, Absent
      <4>. QED
        BY <1>3, <4>2, <4>3
    <3>. QED
      BY <3>1, <3>2, Zenon
  <2>. QED
    BY <2>1, <2>2, Zenon DEF OnDisk
<1>. QED
  BY <1>1, <1>3, <1>4, <1>7, <1>8, Zenon DEF new

\* Where everything starts.
LEMMA CStart ==
    /\ Absent \in Contents /\ Absent.id = 0 /\ Nothing \in Objects
    /\ NoReload \in Reloads /\ NoReload.at = "idle" /\ NoReload.by = "nobody"
    /\ NoReload.err = "none"
    /\ NoEdit \in Edits /\ NoEdit.at = "idle" /\ NoEdit.content = 0 /\ NoEdit.original = Absent
<1>1. Absent \in Contents /\ Absent.id = 0
  BY Zenon DEF Contents, Absent
<1>2. Nothing \in Objects
  BY <1>1, Zenon DEF Objects, Nothing
<1>3. /\ NoReload \in Reloads /\ NoReload.at = "idle" /\ NoReload.by = "nobody"
      /\ NoReload.err = "none"
  BY <1>1, <1>2, Zenon DEF NoReload, Reloads, CSteps, Errors
<1>4. [config |-> 0, points |-> 0] \in Revisions
  BY Zenon DEF Revisions
<1>5. NoEdit \in Edits /\ NoEdit.at = "idle" /\ NoEdit.content = 0 /\ NoEdit.original = Absent
  BY <1>1, <1>4, Zenon DEF NoEdit, Edits, EdSteps, Answers
<1>. QED
  BY <1>1, <1>2, <1>3, <1>5, Zenon

\* A step of the watcher or of a reload, which leaves the files and the editor alone.
LEMMA CReloadStep ==
    ASSUME CIInv, UNCHANGED <<file, writes, wrote, ed>>, faults' \in Nat, faults' >= faults,
           waiting' \in SUBSET Callers, answer' \in Answers, rl' \in Reloads, runtime' \in Runtimes,
           EditorWaits(waiting', rl', ed, answer'), ReadOnce(rl', ed, file, wrote), Applied(rl', runtime'),
           ~ed.clash => Instant(wrote, InForce(rl', runtime'), runtime'.points, runtime'.weights)
    PROVE  CIInv'
<1>1. CTypes'
  BY Zenon DEF CIInv, CTypes
<1>2. OnDisk(file, wrote)' /\ EditorWaits(waiting, rl, ed, answer)' /\ ReadOnce(rl, ed, file, wrote)'
      /\ Applied(rl, runtime)'
  BY Zenon DEF CIInv
<1>3. Published'
  BY Zenon DEF Published
<1>4. TakenBack(ed, file, wrote)'
  BY Zenon DEF CIInv
<1>. QED
  BY <1>1, <1>2, <1>3, <1>4, Zenon DEF CIInv

\* A reload goes on to its next step, before it changes the runtime.
LEMMA CContinues ==
    ASSUME CIInv, UNCHANGED <<file, writes, wrote, ed, faults, waiting, answer, runtime>>,
           rl' \in Reloads, rl'.by = rl.by, rl.at # "publish", rl'.at \notin {"apply", "publish"},
           ReadOnce(rl', ed, file, wrote)
    PROVE  CIInv'
<1>1. EditorWaits(waiting, rl', ed, answer)
  BY Zenon DEF CIInv, EditorWaits
<1>2. Applied(rl', runtime)
  BY Zenon DEF Applied
<1>3. ~ed.clash => Instant(wrote, InForce(rl', runtime), runtime.points, runtime.weights)
  BY Zenon DEF CIInv, Published, InForce
<1>4. faults \in Nat /\ faults >= faults /\ waiting \in SUBSET Callers /\ answer \in Answers /\ runtime \in Runtimes
  BY DEF CIInv, CTypes
<1>. QED
  BY <1>1, <1>2, <1>3, <1>4, CReloadStep, Zenon

\* A reload ends before it has applied anything.
LEMMA CReturns ==
    ASSUME CIInv, NEW result \in Answers, Return(result), UNCHANGED <<file, writes, wrote, ed, waiting>>,
           rl.at # "publish"
    PROVE  CIInv'
<1>0. rl' = NoReload /\ UNCHANGED <<faults, runtime>> /\ (rl.by # "editor" => answer' = answer)
      /\ (rl.by = "editor" => answer' = result)
  BY Zenon DEF Return, Tell
<1>1. faults \in Nat /\ faults >= faults /\ waiting \in SUBSET Callers /\ answer \in Answers /\ runtime \in Runtimes
  BY DEF CIInv, CTypes
<1>2. EditorWaits(waiting, rl', ed, answer')
  BY <1>0, CStart, Zenon DEF CIInv, EditorWaits
<1>3. ReadOnce(rl', ed, file, wrote) /\ Applied(rl', runtime)
  BY <1>0, CStart, Zenon DEF ReadOnce, Applied, CCaptured, CLoaded, CWithPolicy, CWithIOPolicy
<1>4. ~ed.clash => Instant(wrote, InForce(rl', runtime), runtime.points, runtime.weights)
  BY <1>0, CStart, Zenon DEF CIInv, Published, InForce
<1>5. answer' \in Answers /\ rl' \in Reloads
  BY <1>0, <1>1, CStart, Zenon
<1>. QED
  BY <1>0, <1>1, <1>2, <1>3, <1>4, <1>5, CReloadStep, Zenon

\* What a path holds.
LEMMA CData ==
    ASSUME file \in [Files -> Objects], OnDisk(file, wrote)
    PROVE  \A f \in Files : /\ file[f].data \in Contents /\ file[f].data.id \in Nat
                            /\ file[f].data # Absent =>
                                  file[f].data \in Real /\ file[f].data.id \in 1 .. Len(wrote)
<1> SUFFICES ASSUME NEW f \in Files
             PROVE  /\ file[f].data \in Contents /\ file[f].data.id \in Nat
                    /\ file[f].data # Absent => file[f].data \in Real /\ file[f].data.id \in 1 .. Len(wrote)
  BY Zenon
<1>1. file[f].data \in Contents
  BY Zenon DEF Objects
<1>2. file[f].data.id <= Len(wrote) /\ file[f].obj \in 1 .. Len(wrote)
  BY Zenon DEF OnDisk, Made
<1>3. CASE file[f].data = Absent
  BY <1>1, <1>3, CStart
<1>4. CASE file[f].data # Absent
  <2>1. file[f].data \in Real
    BY <1>1, <1>4, Zenon DEF Contents
  <2>2. file[f].data.id \in Nat \ {0}
    BY <2>1, Zenon DEF Real
  <2>. QED
    BY <1>1, <1>2, <2>1, <2>2
<1>. QED
  BY <1>3, <1>4, Zenon

\* capture and candidate
LEMMA CCaptures ==
    ASSUME CIInv, CaptureConfig \/ CapturePoints \/ LoadCandidate \/ CaptureWeights \/ Recheck
    PROVE  CIInv'
<1>0. /\ UNCHANGED <<file, writes, wrote, ed, waiting>> /\ rl \in Reloads /\ file \in [Files -> Objects]
      /\ OnDisk(file, wrote) /\ ReadOnce(rl, ed, file, wrote) /\ Files = {"config", "points", "weights"}
  BY Zenon DEF CaptureConfig, CapturePoints, LoadCandidate, CaptureWeights, Recheck, At, disk,
         CIInv, CTypes, Files
<1>1. rl.at \in {"config", "points", "load", "weights", "recheck"} /\ rl.at # "publish"
  BY Zenon DEF CaptureConfig, CapturePoints, LoadCandidate, CaptureWeights, Recheck, At
<1>2. ASSUME NEW result \in Answers, Return(result)
      PROVE  CIInv'
  BY <1>0, <1>1, <1>2, CReturns, Zenon
<1>3. /\ "failed" \in Answers /\ "conflict" \in Answers /\ "stopped" \in Answers /\ "same" \in Answers
  BY Zenon DEF Answers
<1>4. ASSUME rl' \in Reloads, rl'.by = rl.by, rl'.at \in CCaptured \ {"apply", "publish"}, Quiet,
             ReadOnce(rl', ed, file, wrote)
      PROVE  CIInv'
  BY <1>0, <1>1, <1>4, CContinues, Zenon DEF Quiet
<1>5. \A f \in Files : /\ file[f].data \in Contents /\ file[f].data.id \in Nat
                       /\ file[f].data # Absent => file[f].data \in Real /\ file[f].data.id \in 1 .. Len(wrote)
  BY <1>0, CData, Zenon
<1>a. "config" \in Files /\ "points" \in Files /\ "weights" \in Files
  BY <1>0, Zenon
<1>b. "points" \in CSteps /\ "load" \in CSteps /\ "weights" \in CSteps /\ "recheck" \in CSteps
  BY Zenon DEF CSteps
<1>6. CASE CaptureConfig
  <2>1. CASE /\ Quiet /\ rl' = [rl EXCEPT !.at = "points", !.config = file["config"].data.id]
             /\ file["config"].data # Absent
             /\ rl.by = "editor" /\ ed.at = "reloading" => file["config"].obj = ed.rev.config
    <3> DEFINE id == file["config"].data.id
    <3>1. id \in Nat /\ id \in 1 .. Len(wrote) /\ Made(wrote, file["config"]) /\ "points" \in CSteps
      BY <1>0, <1>5, <1>a, <1>b, <2>1, Zenon DEF OnDisk
    <3>2. Made(wrote, file["config"]) => wrote[file["config"].obj].data.id = id /\ file["config"].obj \in 1 .. Len(wrote)
      BY Zenon DEF Made
    <3> HIDE DEF id
    <3>3. rl' \in Reloads /\ rl'.by = rl.by /\ rl'.at = "points" /\ rl'.config = id
      BY <1>0, <2>1, <3>1, Zenon DEF Reloads, id
    <3>4. ReadOnce(rl', ed, file, wrote)
      BY <1>0, <1>1, <2>1, <3>1, <3>2, <3>3, Zenon DEF ReadOnce, CCaptured, CLoaded, CWithPolicy, CWithIOPolicy
    <3>. QED
      BY <1>4, <2>1, <3>3, <3>4, Zenon DEF CCaptured
  <2>. QED
    BY <1>2, <1>3, <1>6, <2>1, Zenon DEF CaptureConfig, Cancelled, Bound, Data, Object
<1>7. CASE CapturePoints
  <2>1. CASE Quiet /\ rl.at = "points" /\ rl' = [rl EXCEPT !.at = "load", !.points = file["points"].data.id]
    <3>1. file["points"].data.id \in Nat /\ "load" \in CSteps
      BY <1>5, <1>a, <1>b, SMTT(30)
    <3>3. rl' \in Reloads /\ rl'.by = rl.by /\ rl'.at = "load" /\ rl'.config = rl.config
      BY <1>0, <2>1, <3>1, Zenon DEF Reloads
    <3>4. ReadOnce(rl', ed, file, wrote)
      BY <1>0, <2>1, <3>3, Zenon DEF ReadOnce, CCaptured, CLoaded, CWithPolicy, CWithIOPolicy
    <3>. QED
      BY <1>4, <2>1, <3>3, <3>4, Zenon DEF CCaptured
  <2>. QED
    BY <1>2, <1>3, <1>7, <2>1, Zenon DEF CapturePoints, At, Data
<1>8. CASE LoadCandidate
  <2>1. CASE /\ Quiet /\ rl.at = "load" /\ file["config"].data.ok
             /\ rl' = [rl EXCEPT !.at = "weights", !.cand = file["config"].data]
    <3> DEFINE c == file["config"].data
    <3>0. c # Absent
      BY <2>1 DEF Absent
    <3>1. c \in Real /\ c \in Contents /\ "weights" \in CSteps
      BY <1>5, <1>a, <1>b, <3>0, SMTT(30)
    <3>2. file["config"].data = c /\ rl' = [rl EXCEPT !.at = "weights", !.cand = c]
      BY <2>1, Zenon
    <3> HIDE DEF c
    <3>3. rl' \in Reloads /\ rl'.by = rl.by /\ rl'.at = "weights" /\ rl'.config = rl.config /\ rl'.cand = c
      BY <1>0, <3>1, <3>2, Zenon DEF Reloads
    <3>4. ReadOnce(rl', ed, file, wrote)
      BY <1>0, <2>1, <3>1, <3>2, <3>3, Zenon DEF ReadOnce, CCaptured, CLoaded, CWithPolicy, CWithIOPolicy
    <3>. QED
      BY <1>4, <2>1, <3>3, <3>4, Zenon DEF CCaptured, CLoaded
  <2>. QED
    BY <1>2, <1>3, <1>8, <2>1, Zenon DEF LoadCandidate, At, Data
<1>9. CASE CaptureWeights
  <2> DEFINE weights == IF rl.cand.io THEN file["weights"].data.id ELSE 0
  <2>1. CASE Quiet /\ rl.at = "weights" /\ rl' = [rl EXCEPT !.at = "recheck", !.weights = weights]
    <3>1. weights \in Nat /\ "recheck" \in CSteps
      <4>1. 0 \in Nat
        OBVIOUS
      <4>. QED
        BY <1>5, <1>a, <1>b, <4>1, Zenon
    <3> HIDE DEF weights
    <3>3. rl' \in Reloads /\ rl'.by = rl.by /\ rl'.at = "recheck" /\ rl'.config = rl.config /\ rl'.cand = rl.cand
      BY <1>0, <2>1, <3>1, Zenon DEF Reloads
    <3>4. ReadOnce(rl', ed, file, wrote)
      BY <1>0, <2>1, <3>3, Zenon DEF ReadOnce, CCaptured, CLoaded, CWithPolicy, CWithIOPolicy
    <3>. QED
      BY <1>4, <2>1, <3>3, <3>4, Zenon DEF CCaptured, CLoaded
  <2>. QED
    BY <1>2, <1>3, <1>9, <2>1, Zenon DEF CaptureWeights, At, Data
<1>10. CASE Recheck
  <2>1. CASE Quiet /\ rl.at = "recheck" /\ rl' = [rl EXCEPT !.at = "policy"]
    <3>3. rl' \in Reloads /\ rl'.by = rl.by /\ rl'.at = "policy" /\ rl'.config = rl.config /\ rl'.cand = rl.cand
      BY <1>0, <2>1, Zenon DEF Reloads, CSteps
    <3>4. ReadOnce(rl', ed, file, wrote)
      BY <1>0, <2>1, <3>3, Zenon DEF ReadOnce, CCaptured, CLoaded, CWithPolicy, CWithIOPolicy
    <3>. QED
      BY <1>4, <2>1, <3>3, <3>4, Zenon DEF CCaptured, CLoaded
  <2>. QED
    BY <1>2, <1>3, <1>10, <2>1, Zenon DEF Recheck, Cancelled, At, Data
<1>. QED
  BY <1>6, <1>7, <1>8, <1>9, <1>10, Zenon

\* The outcome of OnConfigCandidate.
LEMMA COutcome ==
    ASSUME CIInv, rl.at # "idle", NEW pub \in BOOLEAN, NEW proc \in BOOLEAN, NEW err \in Errors,
           Outcome(pub, proc, err)
    PROVE  /\ rl' \in Reloads /\ rl'.by = rl.by /\ rl'.at = "post"
           /\ ReadOnce(rl', ed, file, wrote) /\ \A run : Applied(rl', run)
<1>1. rl' = [rl EXCEPT !.at = "post", !.pub = pub, !.proc = proc, !.err = err]
  BY Zenon DEF Outcome
<1>2. rl \in Reloads /\ "post" \in CSteps
  BY Zenon DEF CIInv, CTypes, CSteps
<1>3. rl' \in Reloads /\ rl'.by = rl.by /\ rl'.at = "post"
  BY <1>1, <1>2, Zenon DEF Reloads
<1>4. ReadOnce(rl', ed, file, wrote)
  BY <1>3, Zenon DEF CIInv, ReadOnce, CCaptured, CLoaded, CWithPolicy, CWithIOPolicy
<1>. QED
  BY <1>3, <1>4, Zenon DEF Applied

\* A candidate is refused before anything is applied.
LEMMA CRefuses ==
    ASSUME CIInv, rl.at \in {"policy", "confirm", "iopolicy"}, NEW err \in Errors, Refuse(err),
           UNCHANGED <<file, writes, wrote, ed, waiting>>
    PROVE  CIInv'
<1>1. Outcome(FALSE, FALSE, err) /\ Quiet
  BY Zenon DEF Refuse
<1>2. /\ rl' \in Reloads /\ rl'.by = rl.by /\ rl'.at = "post" /\ ReadOnce(rl', ed, file, wrote)
  BY <1>1, COutcome, Zenon
<1>. QED
  BY <1>1, <1>2, CContinues, Zenon DEF Quiet

\* An object that is still on its path has the content it was read with.
LEMMA CSameObject ==
    ASSUME CIInv, NEW f \in Files, NEW o, Made(wrote, o), Object(f) = o.obj
    PROVE  o.data.id = Data(f).id
  BY Zenon DEF CIInv, OnDisk, Made, Object, Data

\* confirmCompositeSources: the three contents are on disk together.
LEMMA CHolds ==
    ASSUME CIInv, rl.at \in {"apply", "publish"}, CompositeHolds, ~ed.clash,
           NEW c, c.id = rl.cand.id, c.io = rl.cand.io
    PROVE  Instant(wrote, c, rl.policy.data.id, rl.iopolicy.data.id)
<1>0. /\ OnDisk(file, wrote) /\ ReadOnce(rl, ed, file, wrote) /\ wrote \in Seq(Writes)
      /\ {"config", "points", "weights"} \subseteq Files
  BY Zenon DEF CIInv, CTypes, Files
<1>1. rl.at \in CLoaded /\ rl.at \in CWithPolicy /\ rl.at \in CWithIOPolicy /\ rl.at \in CCaptured
  BY Zenon DEF CLoaded, CWithPolicy, CWithIOPolicy, CCaptured
<1>2. Data("config").id = rl.config
  <2>1. Unchanged("config")
    BY <1>0, Zenon DEF CompositeHolds, SourcesHold
  <2>2. CASE Bound
    <3>1. Object("config") = ed.rev.config
      BY <2>1, <2>2, Zenon DEF Unchanged
    <3>2. wrote[ed.rev.config].data.id = rl.config
      BY <1>0, <1>1, <2>2, Zenon DEF ReadOnce, Bound
    <3>. QED
      BY <1>0, <3>1, <3>2, Zenon DEF OnDisk, Made, Object, Data
  <2>3. CASE ~Bound
    BY <2>1, <2>3, Zenon DEF Unchanged
  <2>. QED
    BY <2>2, <2>3, Zenon
<1>3. c.id = Data("config").id
  BY <1>0, <1>1, <1>2, Zenon DEF ReadOnce, Data
<1>4. rl.policy.data.id = Data("points").id
  <2>1. Made(wrote, rl.policy) /\ Object("points") = rl.policy.obj
    BY <1>0, <1>1, Zenon DEF ReadOnce, CompositeHolds, PointsSourceHolds
  <2>. QED
    BY <1>0, <2>1, CSameObject, Zenon
<1>5. rl.cand.io => rl.iopolicy.data.id = Data("weights").id
  <2>1. rl.cand.io => Made(wrote, rl.iopolicy) /\ Object("weights") = rl.iopolicy.obj
    BY <1>0, <1>1, Zenon DEF ReadOnce, CompositeHolds, WeightsSourceHolds
  <2>. QED
    BY <1>0, <2>1, CSameObject, Zenon
<1> DEFINE n == Len(wrote)
<1>6. ASSUME NEW f \in Files
      PROVE  \E k \in 1 .. n : Last(wrote, f, k, n) /\ Data(f).id = wrote[k].data.id
  BY <1>0, Zenon DEF OnDisk, Made, Data
<1>7. n \in 1 .. Len(wrote)
  <2>1. file["config"].obj \in 1 .. Len(wrote) /\ Len(wrote) \in Nat
    BY <1>0 DEF OnDisk, Made
  <2>. QED
    BY <2>1
<1> HIDE DEF n
<1>. QED
  BY <1>0, <1>3, <1>4, <1>5, <1>6, <1>7, Zenon DEF Instant

\* The policies are loaded and confirmed.
LEMMA CLoads ==
    ASSUME CIInv, LoadPolicy \/ Confirm \/ LoadIOPolicy
    PROVE  CIInv'
<1>0. /\ UNCHANGED <<file, writes, wrote, ed, waiting>> /\ rl \in Reloads /\ file \in [Files -> Objects]
      /\ OnDisk(file, wrote) /\ ReadOnce(rl, ed, file, wrote) /\ Files = {"config", "points", "weights"}
  BY Zenon DEF LoadPolicy, Confirm, LoadIOPolicy, At, disk, CIInv, CTypes, Files
<1>1. rl.at \in {"policy", "confirm", "iopolicy"} /\ rl.at # "publish"
  BY Zenon DEF LoadPolicy, Confirm, LoadIOPolicy, At
<1>2. ASSUME NEW err \in Errors, Refuse(err)
      PROVE  CIInv'
  BY <1>0, <1>1, <1>2, CRefuses, Zenon
<1>3. "failed" \in Errors /\ ConfirmError \in Errors
  BY Zenon DEF Errors, ConfirmError
<1>4. ASSUME rl' \in Reloads, rl'.by = rl.by, rl'.at \in {"confirm", "iopolicy", "reconcile"}, Quiet,
             ReadOnce(rl', ed, file, wrote)
      PROVE  CIInv'
  BY <1>0, <1>1, <1>4, CContinues, Zenon DEF Quiet
<1>5. CASE LoadPolicy
  <2>1. CASE Quiet /\ rl.at = "policy" /\ rl' = [rl EXCEPT !.at = "confirm", !.policy = file["points"]]
    <3>1. file["points"] \in Objects /\ Made(wrote, file["points"]) /\ "confirm" \in CSteps
      BY <1>0, Zenon DEF OnDisk, CSteps
    <3>2. /\ rl' \in Reloads /\ rl'.by = rl.by /\ rl'.at = "confirm" /\ rl'.config = rl.config
          /\ rl'.cand = rl.cand /\ rl'.policy = file["points"]
      BY <1>0, <2>1, <3>1, Zenon DEF Reloads
    <3>3. ReadOnce(rl', ed, file, wrote)
      BY <1>0, <2>1, <3>1, <3>2, Zenon DEF ReadOnce, CCaptured, CLoaded, CWithPolicy, CWithIOPolicy
    <3>. QED
      BY <1>4, <2>1, <3>2, <3>3, Zenon
  <2>. QED
    BY <1>2, <1>3, <1>5, <2>1, Zenon DEF LoadPolicy, At
<1>6. CASE Confirm
  <2>1. CASE Quiet /\ rl.at = "confirm" /\ rl' = [rl EXCEPT !.at = "iopolicy"]
    <3>2. /\ rl' \in Reloads /\ rl'.by = rl.by /\ rl'.at = "iopolicy" /\ rl'.config = rl.config
          /\ rl'.cand = rl.cand /\ rl'.policy = rl.policy
      BY <1>0, <2>1, Zenon DEF Reloads, CSteps
    <3>3. ReadOnce(rl', ed, file, wrote)
      BY <1>0, <2>1, <3>2, Zenon DEF ReadOnce, CCaptured, CLoaded, CWithPolicy, CWithIOPolicy
    <3>. QED
      BY <1>4, <2>1, <3>2, <3>3, Zenon
  <2>. QED
    BY <1>2, <1>3, <1>6, <2>1, Zenon DEF Confirm, At
<1>7. CASE LoadIOPolicy
  <2> DEFINE o == IF rl.cand.io THEN file["weights"] ELSE Nothing
  <2>1. CASE Quiet /\ rl.at = "iopolicy" /\ rl' = [rl EXCEPT !.at = "reconcile", !.iopolicy = o]
    <3>1. o \in Objects /\ (rl.cand.io => Made(wrote, o)) /\ "reconcile" \in CSteps
      BY <1>0, CStart, Zenon DEF OnDisk, CSteps
    <3> HIDE DEF o
    <3>2. /\ rl' \in Reloads /\ rl'.by = rl.by /\ rl'.at = "reconcile" /\ rl'.config = rl.config
          /\ rl'.cand = rl.cand /\ rl'.policy = rl.policy /\ rl'.iopolicy = o
      BY <1>0, <2>1, <3>1, Zenon DEF Reloads
    <3>3. ReadOnce(rl', ed, file, wrote)
      BY <1>0, <2>1, <3>1, <3>2, Zenon DEF ReadOnce, CCaptured, CLoaded, CWithPolicy, CWithIOPolicy
    <3>. QED
      BY <1>4, <2>1, <3>2, <3>3, Zenon
  <2>. QED
    BY <1>2, <1>3, <1>7, <2>1, Zenon DEF LoadIOPolicy, At
<1>. QED
  BY <1>5, <1>6, <1>7, Zenon

\* The runtime changes under the epoch barrier.
LEMMA CApplies ==
    ASSUME CIInv, Reconcile \/ Apply \/ Publish
    PROVE  CIInv'
<1>0. /\ UNCHANGED <<file, writes, wrote, ed, waiting, answer>> /\ rl \in Reloads /\ runtime \in Runtimes
      /\ ReadOnce(rl, ed, file, wrote) /\ waiting \in SUBSET Callers /\ answer \in Answers /\ faults \in Nat
      /\ Applied(rl, runtime) /\ EditorWaits(waiting, rl, ed, answer)
  BY Zenon DEF Reconcile, Apply, Publish, At, disk, CIInv, CTypes
<1>1. rl.at \in {"reconcile", "apply", "publish"} /\ rl.at # "idle"
  BY Zenon DEF Reconcile, Apply, Publish, At
<1>2. faults' \in Nat /\ faults' >= faults
  <2>1. faults' = faults \/ faults' = faults + 1
    BY Zenon DEF Reconcile, Apply, Publish, Restore, Fault
  <2>. QED
    BY <1>0, <2>1
<1>3. ASSUME rl' \in Reloads, rl'.by = rl.by, runtime' \in Runtimes, ReadOnce(rl', ed, file, wrote),
             Applied(rl', runtime'),
             ~ed.clash => Instant(wrote, InForce(rl', runtime'), runtime'.points, runtime'.weights)
      PROVE  CIInv'
  <2>1. EditorWaits(waiting, rl', ed, answer)
    BY <1>0, <1>3, Zenon DEF EditorWaits
  <2>. QED
    BY <1>0, <1>2, <1>3, <2>1, CReloadStep, Zenon
<1>4. ~ed.clash => Instant(wrote, InForce(rl, runtime), runtime.points, runtime.weights)
  BY Zenon DEF CIInv, Published
<1>5. ASSUME NEW pub \in BOOLEAN, NEW proc \in BOOLEAN, NEW err \in Errors, Outcome(pub, proc, err),
             runtime' \in Runtimes,
             ~ed.clash => Instant(wrote, runtime'.config, runtime'.points, runtime'.weights)
      PROVE  CIInv'
  <2>1. /\ rl' \in Reloads /\ rl'.by = rl.by /\ rl'.at = "post"
        /\ ReadOnce(rl', ed, file, wrote) /\ Applied(rl', runtime')
    BY <1>1, <1>5, COutcome, Zenon
  <2>. QED
    BY <1>3, <1>5, <2>1, Zenon DEF InForce
<1>6. /\ "failed" \in Errors /\ ConfirmError \in Errors /\ rl.err \in Errors
      /\ "none" \in Errors /\ "restart" \in Errors /\ TRUE \in BOOLEAN /\ FALSE \in BOOLEAN
  BY <1>0, Zenon DEF Errors, ConfirmError, Reloads
<1>7. /\ rl.policy.data.id \in Nat /\ rl.iopolicy.data.id \in Nat /\ runtime.points \in Nat
      /\ runtime.config \in Contents /\ rl.old \in Contents
  BY <1>0 DEF Reloads, Objects, Contents, Real, Absent, Runtimes
<1>8. ASSUME NEW kernel \in Nat, NEW config \in Contents,
             runtime' = [runtime EXCEPT !.config = config, !.kernel = kernel]
      PROVE  /\ runtime' \in Runtimes /\ runtime'.config = config /\ runtime'.points = runtime.points
             /\ runtime'.weights = runtime.weights
  BY <1>0, <1>8, Zenon DEF Runtimes
<1>9. ASSUME NEW kernel \in Nat, runtime' = [runtime EXCEPT !.kernel = kernel]
      PROVE  /\ runtime' \in Runtimes /\ runtime'.config = runtime.config /\ runtime'.points = runtime.points
             /\ runtime'.weights = runtime.weights
  BY <1>0, <1>9, Zenon DEF Runtimes
<1>10. ASSUME NEW config \in Contents, Restore(config), config = InForce(rl, runtime),
              NEW err \in Errors, Outcome(FALSE, FALSE, err)
       PROVE  CIInv'
  <2>1. /\ runtime' \in Runtimes /\ runtime'.config = config /\ runtime'.points = runtime.points
        /\ runtime'.weights = runtime.weights
    BY <1>7, <1>8, <1>10, Zenon DEF Restore
  <2>. QED
    BY <1>4, <1>5, <1>6, <1>10, <2>1, Zenon
<1>11. CASE Reconcile
  <2>0. rl.at = "reconcile" /\ InForce(rl, runtime) = runtime.config
    BY <1>11, Zenon DEF Reconcile, At, InForce
  <2>1. CASE /\ rl' = [rl EXCEPT !.at = "apply", !.old = runtime.config]
             /\ runtime' = [runtime EXCEPT !.kernel = rl.policy.data.id]
    <3>1. /\ runtime' \in Runtimes /\ runtime'.config = runtime.config /\ runtime'.points = runtime.points
          /\ runtime'.weights = runtime.weights
      BY <1>7, <1>9, <2>1, Zenon
    <3>2. /\ rl' \in Reloads /\ rl'.by = rl.by /\ rl'.at = "apply" /\ rl'.config = rl.config
          /\ rl'.cand = rl.cand /\ rl'.policy = rl.policy /\ rl'.iopolicy = rl.iopolicy
          /\ rl'.old = runtime.config
      BY <1>0, <1>7, <2>1, Zenon DEF Reloads, CSteps
    <3>3. ReadOnce(rl', ed, file, wrote)
      BY <1>0, <2>0, <3>2, Zenon DEF ReadOnce, CCaptured, CLoaded, CWithPolicy, CWithIOPolicy
    <3>4. Applied(rl', runtime') /\ InForce(rl', runtime') = runtime.config
      BY <3>1, <3>2, Zenon DEF Applied, InForce
    <3>. QED
      BY <1>3, <1>4, <2>0, <3>1, <3>2, <3>3, <3>4, Zenon
  <2>2. CASE Outcome(FALSE, FALSE, "failed") /\ UNCHANGED runtime
    BY <1>0, <1>4, <1>5, <1>6, <2>0, <2>2, Zenon
  <2>3. CASE Outcome(FALSE, TRUE, "failed") /\ runtime' = [runtime EXCEPT !.kernel = 0]
    <3>1. /\ runtime' \in Runtimes /\ runtime'.config = runtime.config /\ runtime'.points = runtime.points
          /\ runtime'.weights = runtime.weights
      BY <1>9, <2>3, Zenon
    <3>. QED
      BY <1>4, <1>5, <1>6, <2>0, <2>3, <3>1, Zenon
  <2>. QED
    BY <1>11, <2>1, <2>2, <2>3, Zenon DEF Reconcile
<1>12. CASE Apply
  <2>0. rl.at = "apply" /\ InForce(rl, runtime) = runtime.config /\ rl.old = runtime.config
    BY <1>0, <1>12, Zenon DEF Apply, At, InForce, Applied
  <2>1. CASE Outcome(FALSE, FALSE, ConfirmError) /\ Restore(runtime.config)
    BY <1>6, <1>7, <1>10, <2>0, <2>1, Zenon
  <2> DEFINE config == ApplyReloadLifecycle(rl.cand)
  <2>2. CASE /\ runtime' = [runtime EXCEPT !.config = config]
             /\ \E err \in Errors : rl' = [rl EXCEPT !.at = "publish", !.err = err]
    <3>1. config \in Contents /\ config.id = rl.cand.id /\ config.io = rl.cand.io
      <4>1. rl.cand \in Real
        BY <1>0, <2>0, Zenon DEF ReadOnce, CLoaded
      <4>2. runtime.config.frozen \in {0, 1}
        BY <1>7 DEF Contents, Real, Absent
      <4>3. config = [rl.cand EXCEPT !.frozen = runtime.config.frozen]
        BY Zenon DEF ApplyReloadLifecycle
      <4>4. config \in Real /\ config.id = rl.cand.id /\ config.io = rl.cand.io
        BY <4>1, <4>2, <4>3, Zenon DEF Real
      <4>. QED
        BY <4>4, Zenon DEF Contents
    <3> HIDE DEF config
    <3>2. /\ runtime' \in Runtimes /\ runtime'.config = config /\ runtime'.points = runtime.points
          /\ runtime'.weights = runtime.weights
      BY <1>0, <2>2, <3>1, Zenon DEF Runtimes
    <3>3. PICK err \in Errors : rl' = [rl EXCEPT !.at = "publish", !.err = err]
      BY <2>2, Zenon
    <3>4. /\ rl' \in Reloads /\ rl'.by = rl.by /\ rl'.at = "publish" /\ rl'.config = rl.config
          /\ rl'.cand = rl.cand /\ rl'.policy = rl.policy /\ rl'.iopolicy = rl.iopolicy
          /\ rl'.old = rl.old
      BY <1>0, <3>3, Zenon DEF Reloads, CSteps
    <3>5. ReadOnce(rl', ed, file, wrote)
      BY <1>0, <2>0, <3>4, Zenon DEF ReadOnce, CCaptured, CLoaded, CWithPolicy, CWithIOPolicy
    <3>6. Applied(rl', runtime') /\ InForce(rl', runtime') = runtime.config
      BY <2>0, <3>1, <3>2, <3>4, Zenon DEF Applied, InForce
    <3>. QED
      BY <1>3, <1>4, <2>0, <3>2, <3>4, <3>5, <3>6, Zenon
  <2>3. \/ Outcome(FALSE, FALSE, ConfirmError) /\ Restore(runtime.config)
        \/ /\ runtime' = [runtime EXCEPT !.config = config]
           /\ \/ rl' = [rl EXCEPT !.at = "publish",
                          !.err = IF rl.cand # ApplyReloadLifecycle(rl.cand) THEN "restart" ELSE "none"]
              \/ rl' = [rl EXCEPT !.at = "publish", !.err = "failed"]
    BY <1>12, Zenon DEF Apply, ApplyEffectiveConfig
  <2>. QED
    BY <1>6, <2>1, <2>2, <2>3, Zenon
<1>13. CASE Publish
  <2>0. rl.at = "publish" /\ InForce(rl, runtime) = rl.old
    BY <1>13, Zenon DEF Publish, At, InForce
  <2>1. CASE Outcome(FALSE, FALSE, ConfirmError) /\ Restore(rl.old)
    BY <1>6, <1>7, <1>10, <2>0, <2>1, Zenon
  <2>2. CASE /\ CompositeHolds /\ Outcome(TRUE, TRUE, rl.err)
             /\ runtime' = [runtime EXCEPT !.points = rl.policy.data.id, !.weights = rl.iopolicy.data.id]
    <3>1. /\ runtime' \in Runtimes /\ runtime'.config = runtime.config
          /\ runtime'.points = rl.policy.data.id /\ runtime'.weights = rl.iopolicy.data.id
      BY <1>0, <1>7, <2>2, Zenon DEF Runtimes
    <3>2. runtime.config.id = rl.cand.id /\ runtime.config.io = rl.cand.io
      BY <1>0, <2>0, Zenon DEF Applied
    <3>3. ~ed.clash => Instant(wrote, runtime.config, rl.policy.data.id, rl.iopolicy.data.id)
      BY <1>1, <2>0, <2>2, <3>2, CHolds, Zenon
    <3>. QED
      BY <1>5, <1>6, <2>2, <3>1, <3>3, Zenon
  <2>. QED
    BY <1>13, <2>1, <2>2, Zenon DEF Publish
<1>. QED
  BY <1>11, <1>12, <1>13, Zenon

\* Bookkeeping and answer.
LEMMA CFinishes ==
    ASSUME CIInv, Finish
    PROVE  CIInv'
<1>0. /\ UNCHANGED <<file, writes, wrote, ed, waiting, faults, runtime>> /\ rl \in Reloads /\ runtime \in Runtimes
      /\ waiting \in SUBSET Callers /\ answer \in Answers /\ faults \in Nat /\ faults >= faults
      /\ EditorWaits(waiting, rl, ed, answer) /\ rl.at = "post" /\ rl' = NoReload
  BY DEF Finish, At, disk, CIInv, CTypes
<1>1. \E err \in Errors : Tell(rl.by, Answer(err))
  <2>1. ConfirmError \in Errors /\ rl.err \in Errors
    BY <1>0, Zenon DEF Errors, ConfirmError, Reloads
  <2>. QED
    BY <2>1, Zenon DEF Finish
<1>2. \A err \in Errors : Answer(err) \in Answers
  BY Zenon DEF Errors, Answer, Answers
<1>3. answer' \in Answers /\ (rl.by # "editor" => answer' = answer)
  BY <1>0, <1>1, <1>2, Zenon DEF Tell
<1>4. EditorWaits(waiting, rl', ed, answer')
  BY <1>0, <1>3, CStart, Zenon DEF EditorWaits
<1>5. ReadOnce(rl', ed, file, wrote) /\ Applied(rl', runtime)
  BY <1>0, CStart, Zenon DEF ReadOnce, Applied, CCaptured, CLoaded, CWithPolicy, CWithIOPolicy
<1>6. ~ed.clash => Instant(wrote, InForce(rl', runtime), runtime.points, runtime.weights)
  BY <1>0, CStart, Zenon DEF CIInv, Published, InForce
<1>. QED
  BY <1>0, <1>3, <1>4, <1>5, <1>6, CStart, CReloadStep, Zenon

\* The watcher's lifecycle and the gate leave what a reload has done alone.
LEMMA CGates ==
    ASSUME CIInv, \/ NewWatcher \/ Stop \/ StopReturns \/ LoopRequest
                  \/ \E c \in Callers : GiveUp(c) \/ \E force \in BOOLEAN : TakeGate(c, force)
    PROVE  CIInv'
<1>0. /\ rl \in Reloads /\ runtime \in Runtimes /\ ReadOnce(rl, ed, file, wrote) /\ waiting \in SUBSET Callers
      /\ answer \in Answers /\ faults \in Nat /\ faults >= faults /\ Applied(rl, runtime)
      /\ EditorWaits(waiting, rl, ed, answer)
      /\ ~ed.clash => Instant(wrote, InForce(rl, runtime), runtime.points, runtime.weights)
  BY DEF CIInv, CTypes, Published
<1>1. UNCHANGED <<file, writes, wrote, ed, faults, runtime>>
  BY Zenon DEF NewWatcher, Stop, StopReturns, LoopRequest, GiveUp, TakeGate, disk
<1>2. Callers = {"daemon", "editor"} /\ "stopped" \in Answers /\ "none" \in Answers
  BY Zenon DEF Callers, Answers
<1>3. ASSUME UNCHANGED rl, waiting' \in SUBSET Callers, answer' \in Answers,
             EditorWaits(waiting', rl, ed, answer')
      PROVE  CIInv'
  BY <1>0, <1>1, <1>3, CReloadStep, Zenon
<1>4. CASE NewWatcher \/ Stop \/ StopReturns
  <2>1. UNCHANGED <<rl, waiting, answer>>
    BY <1>4, Zenon DEF NewWatcher, Stop, StopReturns
  <2>. QED
    BY <1>0, <1>3, <2>1, Zenon
<1>5. CASE LoopRequest
  <2>1. UNCHANGED rl /\ answer' = answer /\ (waiting' = waiting \cup {"daemon"} \/ waiting' = waiting)
    BY <1>5, Zenon DEF LoopRequest, Request, Tell
  <2>2. waiting' \in SUBSET Callers /\ EditorWaits(waiting', rl, ed, answer')
    BY <1>0, <1>2, <2>1, Zenon DEF EditorWaits
  <2>. QED
    BY <1>0, <1>3, <2>1, <2>2, Zenon
<1>6. ASSUME NEW c \in Callers, GiveUp(c)
      PROVE  CIInv'
  <2>1. UNCHANGED rl /\ answer' = (IF c = "editor" THEN "stopped" ELSE answer) /\ waiting' = waiting \ {c} /\ c \in waiting
    BY <1>6, Zenon DEF GiveUp, Tell
  <2>2. waiting' \in SUBSET Callers /\ EditorWaits(waiting', rl, ed, answer') /\ answer' \in Answers
    BY <1>0, <1>2, <2>1, Zenon DEF EditorWaits
  <2>. QED
    BY <1>0, <1>3, <2>1, <2>2, Zenon
<1>7. ASSUME NEW c \in Callers, NEW force \in BOOLEAN, TakeGate(c, force)
      PROVE  CIInv'
  <2>0. waiting' = waiting \ {c} /\ c \in waiting /\ rl = NoReload
    BY <1>7, Zenon DEF TakeGate
  <2>1. CASE Tell(c, "stopped") /\ UNCHANGED rl
    <3>1. waiting' \in SUBSET Callers /\ EditorWaits(waiting', rl, ed, answer') /\ answer' \in Answers
      BY <1>0, <1>2, <2>0, <2>1, Zenon DEF EditorWaits, Tell
    <3>. QED
      BY <1>3, <2>1, <3>1, Zenon
  <2>2. CASE rl' = [NoReload EXCEPT !.by = c, !.at = "config", !.force = force] /\ UNCHANGED answer
    <3>1. rl' \in Reloads /\ rl'.by = c /\ rl'.at = "config" /\ c # "nobody"
      BY <1>2, <2>2, CStart, Zenon DEF Reloads, CSteps
    <3>2. waiting' \in SUBSET Callers /\ EditorWaits(waiting', rl', ed, answer)
      BY <1>0, <1>2, <2>0, <3>1, Zenon DEF EditorWaits
    <3>3. ReadOnce(rl', ed, file, wrote) /\ Applied(rl', runtime)
      BY <3>1, Zenon DEF ReadOnce, Applied, CCaptured, CLoaded, CWithPolicy, CWithIOPolicy
    <3>4. InForce(rl', runtime) = InForce(rl, runtime)
      BY <2>0, <3>1, CStart, Zenon DEF InForce
    <3>. QED
      BY <1>0, <1>1, <2>2, <3>1, <3>2, <3>3, <3>4, CReloadStep, Zenon
  <2>. QED
    BY <1>7, <2>1, <2>2, Zenon DEF TakeGate
<1>. QED
  BY <1>4, <1>5, <1>6, <1>7, Zenon

\* A step of the editor, or of somebody who replaces a file, leaves the reload alone.
LEMMA CEditorStep ==
    ASSUME CIInv, UNCHANGED <<rl, runtime>>, ed' \in Edits, faults' \in Nat, writes' \in Nat,
           waiting' \in SUBSET Callers, answer' \in Answers, ed.clash => ed'.clash,
           ed'.at = "reloading" /\ rl.by = "editor" => ed.at = "reloading" /\ ed'.rev = ed.rev,
           EditorWaits(waiting', rl, ed', answer'), TakenBack(ed', file', wrote'),
           \/ UNCHANGED <<file, wrote>>
           \/ \E f \in Files, c \in Contents :
                 /\ Store(f, c) /\ c.id <= Number
                 /\ f = "config" /\ rl.at \in CLoaded /\ c.id = rl.config => ed'.clash
    PROVE  CIInv'
<1>0. /\ file \in [Files -> Objects] /\ wrote \in Seq(Writes) /\ rl \in Reloads /\ runtime \in Runtimes
      /\ OnDisk(file, wrote) /\ ReadOnce(rl, ed, file, wrote) /\ Applied(rl, runtime)
      /\ ~ed.clash => Instant(wrote, InForce(rl, runtime), runtime.points, runtime.weights)
      /\ ed.clash => ed'.clash
  BY Zenon DEF CIInv, CTypes, Published
<1>1. CASE UNCHANGED <<file, wrote>>
  <2>1. CTypes'
    BY <1>0, <1>1, Zenon DEF CTypes
  <2>2. ReadOnce(rl, ed, file, wrote)'
    BY <1>0, <1>1, Zenon DEF ReadOnce
  <2>3. Published'
    BY <1>0, <1>1, Zenon DEF Published
  <2>. QED
    BY <1>0, <1>1, <2>1, <2>2, <2>3, Zenon DEF CIInv
<1>2. ASSUME NEW f \in Files, NEW c \in Contents, Store(f, c), c.id <= Number,
             f = "config" /\ rl.at \in CLoaded /\ c.id = rl.config => ed'.clash
      PROVE  CIInv'
  <2>0. /\ file' \in [Files -> Objects] /\ wrote' \in Seq(Writes) /\ OnDisk(file', wrote')
        /\ Len(wrote') = Len(wrote) + 1 /\ Len(wrote) \in Nat /\ \A k \in 1 .. Len(wrote) : wrote'[k] = wrote[k]
        /\ file'[f] = [data |-> c, obj |-> Len(wrote) + 1]
        /\ \A g \in Files \ {f} : file'[g] = file[g]
        /\ \A o : Made(wrote, o) => Made(wrote', o)
        /\ \A d, p, w : Instant(wrote, d, p, w) => Instant(wrote', d, p, w)
    BY <1>0, <1>2, CStores, Zenon
  <2>1. CTypes'
    BY <1>0, <2>0, Zenon DEF CTypes
  <2>2. ReadOnce(rl, ed, file, wrote)'
    <3>1. \A k \in 1 .. Len(wrote) : k \in 1 .. Len(wrote')
      BY <2>0
    <3>2. rl.at \in CCaptured => rl.config \in 1 .. Len(wrote')
      BY <1>0, <3>1, Zenon DEF ReadOnce
    <3>3. rl.at \in CCaptured /\ rl.by = "editor" /\ ed'.at = "reloading" =>
             ed'.rev.config \in 1 .. Len(wrote') /\ wrote'[ed'.rev.config].data.id = rl.config
      BY <1>0, <2>0, <3>1, Zenon DEF ReadOnce
    <3>4. rl.at \in CLoaded /\ ~ed'.clash => rl.cand.id = rl.config \/ file'["config"].data.id # rl.config
      <4>1. CASE f # "config"
        <5>1. file'["config"] = file["config"]
          BY <2>0, <4>1, Zenon DEF Files
        <5>. QED
          BY <1>0, <5>1, Zenon DEF ReadOnce
      <4>2. CASE f = "config"
        <5>1. file'["config"].data = c
          BY <2>0, <4>2
        <5>. QED
          BY <1>2, <4>2, <5>1, Zenon
      <4>. QED
        BY <4>1, <4>2, Zenon
    <3>5. /\ (rl.by = "nobody" => rl.at = "idle") /\ (rl.at \in CLoaded => rl.cand \in Real)
          /\ (rl.at \in CWithPolicy => Made(wrote', rl.policy))
          /\ (rl.at \in CWithIOPolicy /\ rl.cand.io => Made(wrote', rl.iopolicy))
      BY <1>0, <2>0, Zenon DEF ReadOnce
    <3>. QED
      BY <3>2, <3>3, <3>4, <3>5, Zenon DEF ReadOnce
  <2>3. Published'
    BY <1>0, <2>0, Zenon DEF Published
  <2>. QED
    BY <1>0, <2>0, <2>1, <2>2, <2>3, Zenon DEF CIInv
<1>. QED
  BY <1>1, <1>2, Zenon

\* What somebody may put on a path: a content that no file has had, or nothing.
LEMMA CFresh ==
    ASSUME CIInv, NEW f, NEW c \in Fresh(f) \cup {Absent}
    PROVE  c \in Contents /\ c.id \in {0, Number} /\ c.id <= Number /\ Number \in Nat \ {0}
<1>1. Number \in Nat \ {0} /\ Number >= 0 /\ Number <= Number
  <2>1. Len(wrote) \in Nat
    BY DEF CIInv, CTypes
  <2>. QED
    BY <2>1 DEF Number
<1>2. CASE c = Absent
  BY <1>1, <1>2, CStart, Zenon
<1>3. CASE c \in Fresh(f)
  <2> DEFINE n == Number
  <2>1. c \in {Plain(n), [Plain(n) EXCEPT !.ok = FALSE], [Plain(n) EXCEPT !.io = FALSE],
               [Plain(n) EXCEPT !.frozen = 1]}
    BY <1>3, Zenon DEF Fresh
  <2>2. n \in Nat \ {0}
    BY <1>1, Zenon
  <2> HIDE DEF n
  <2> DEFINE p == Plain(n)
  <2>3. p \in Real /\ p.id = n
    BY <2>2, Zenon DEF Plain, Real
  <2>4. c \in {p, [p EXCEPT !.ok = FALSE], [p EXCEPT !.io = FALSE], [p EXCEPT !.frozen = 1]}
    BY <2>1, Zenon
  <2> HIDE DEF p
  <2>5. c \in Real /\ c.id = n
    BY <2>3, <2>4, Zenon DEF Real
  <2>. QED
    BY <1>1, <2>5, Zenon DEF Contents, n
<1>. QED
  BY <1>2, <1>3, Zenon

\* What goes back under a reload that has captured it is noticed.
LEMMA CClashes ==
    ASSUME CIInv, NEW c \in Contents, rl.at \in CLoaded, c.id = rl.config
    PROVE  Clashes("config", c)
<1>1. rl.config \in 1 .. Len(wrote) /\ rl # NoReload
  BY CStart, Zenon DEF CIInv, ReadOnce, CLoaded, CCaptured
<1>2. c.id # 0
  BY <1>1
<1>. QED
  BY <1>1, <1>2, CStart, Zenon DEF Clashes, Unsettled

\* A content that a file has had.
LEMMA CEarlier ==
    ASSUME CIInv, NEW f, NEW c \in Earlier(f)
    PROVE  c \in Contents /\ c.id <= Number /\ c \in {wrote[k].data : k \in 1 .. Len(wrote)}
<1>1. PICK k \in 1 .. Len(wrote) : c = wrote[k].data
  BY Zenon DEF Earlier
<1>2. wrote \in Seq(Writes) /\ wrote[k].data.id <= Len(wrote)
  BY Zenon DEF CIInv, CTypes, OnDisk
<1>3. wrote[k] \in Writes /\ Len(wrote) \in Nat
  BY <1>1, <1>2
<1>4. c \in Contents
  BY <1>1, <1>3, Zenon DEF Writes
<1>5. c.id \in Nat
  BY <1>4 DEF Contents, Real, Absent
<1>6. c.id <= Number
  BY <1>1, <1>2, <1>3, <1>5 DEF Number
<1>. QED
  BY <1>1, <1>4, <1>6, Zenon

\* A file is replaced from outside.
LEMMA CReplaces ==
    ASSUME CIInv, NEW f \in Files, Replace(f)
    PROVE  CIInv'
<1>0. /\ UNCHANGED <<rl, runtime, faults, waiting, answer>> /\ ed \in Edits /\ faults \in Nat
      /\ waiting \in SUBSET Callers /\ answer \in Answers /\ writes' \in Nat
      /\ EditorWaits(waiting, rl, ed, answer) /\ TakenBack(ed, file, wrote)
      /\ file \in [Files -> Objects] /\ wrote \in Seq(Writes) /\ OnDisk(file, wrote)
  BY DEF Replace, CIInv, CTypes
<1>1. PICK c \in Fresh(f) \cup Earlier(f) \cup {Absent} :
          Store(f, c) /\ ed' = [ed EXCEPT !.clash = @ \/ Clashes(f, c)]
  BY Zenon DEF Replace
<1> DEFINE clash == ed.clash \/ Clashes(f, c)
<1>2. clash \in BOOLEAN /\ (ed.clash => clash) /\ (Clashes(f, c) => clash)
  BY Zenon
<1>3. ed' = [ed EXCEPT !.clash = clash]
  BY <1>1, Zenon
<1> HIDE DEF clash
<1>4. /\ ed' \in Edits /\ ed'.at = ed.at /\ ed'.target = ed.target /\ ed'.content = ed.content
      /\ ed'.original = ed.original /\ ed'.broken = ed.broken /\ ed'.result = ed.result /\ ed'.rev = ed.rev
      /\ ed'.clash = clash
  BY <1>0, <1>2, <1>3, Zenon DEF Edits
<1>5. c \in Contents /\ c.id <= Number
  BY CFresh, CEarlier, Zenon
<1>6. f = "config" /\ rl.at \in CLoaded /\ c.id = rl.config => ed'.clash
  BY <1>2, <1>4, <1>5, CClashes, Zenon
<1>7. /\ file'[f] = [data |-> c, obj |-> Len(wrote) + 1] /\ \A g \in Files \ {f} : file'[g] = file[g]
      /\ Len(wrote') = Len(wrote) + 1 /\ Len(wrote) \in Nat /\ \A k \in 1 .. Len(wrote) : wrote'[k] = wrote[k]
  BY <1>0, <1>1, <1>5, CStores, Zenon
<1>8. TakenBack(ed', file', wrote')
  <2>1. ed.content \in Nat /\ ed.original.id \in Nat /\ ed.target \in Files
    BY <1>0 DEF Edits, Contents, Real, Absent, Files
  <2>2. file'[ed.target].obj = file[ed.target].obj \/ file'[ed.target].obj # ed.content
    <3>1. CASE ed.target = f
      <4>1. file'[f].obj = Len(wrote) + 1
        BY <1>7
      <4>2. ed.content <= Len(wrote)
        BY <1>0, Zenon DEF TakenBack
      <4>. QED
        BY <1>7, <2>1, <3>1, <4>1, <4>2
    <3>. QED
      BY <1>7, <2>1, <3>1, Zenon
  <2>3. ed.content <= Len(wrote') /\ ed.original.id <= Len(wrote')
    <3>1. ed.content <= Len(wrote) /\ ed.original.id <= Len(wrote)
      BY <1>0, Zenon DEF TakenBack
    <3>. QED
      BY <1>7, <2>1, <3>1
  <2>4. \A k \in 1 .. Len(wrote) : k \in 1 .. Len(wrote') /\ wrote'[k] = wrote[k]
    BY <1>7
  <2>. QED
    BY <1>0, <1>4, <2>2, <2>3, <2>4, Zenon DEF TakenBack
<1>9. EditorWaits(waiting, rl, ed', answer)
  BY <1>0, <1>4, Zenon DEF EditorWaits
<1>. QED
  BY <1>0, <1>1, <1>2, <1>4, <1>5, <1>6, <1>8, <1>9, CEditorStep, Zenon

\* An editor that does not wait for a reload has none.
LEMMA CNotWaiting ==
    ASSUME CIInv, ed.at \notin {"reloading", "ended"} \/ answer # "none"
    PROVE  /\ "editor" \notin waiting /\ rl.by # "editor"
           /\ \A e, a : EditorWaits(waiting, rl, e, a)
  BY Zenon DEF CIInv, EditorWaits

\* The request is answered.
LEMMA CEnded ==
    ASSUME ed \in Edits, NEW result \in Answers \cup {"refused", "pending_restart"}, NEW told \in Revisions
    PROVE  LET e == Ended(result, told) IN
           /\ e \in Edits /\ e.at = "idle" /\ e.target = ed.target /\ e.content = ed.content
           /\ e.original = Absent /\ e.result = result /\ e.clash = ed.clash /\ e.broken = ed.broken
<1> DEFINE e == Ended(result, told)
<1>1. e = [NoEdit EXCEPT !.count = ed.count, !.target = ed.target, !.content = ed.content, !.result = result,
                   !.told = told, !.clash = ed.clash, !.broken = ed.broken, !.unusable = ed.unusable]
  BY Zenon DEF Ended
<1> HIDE DEF e
<1>2. NoEdit \in Edits /\ NoEdit.at = "idle" /\ NoEdit.original = Absent
  BY CStart, Zenon
<1>3. e \in Edits /\ e.at = "idle" /\ e.target = ed.target /\ e.content = ed.content
      /\ e.original = Absent /\ e.result = result /\ e.clash = ed.clash /\ e.broken = ed.broken
  BY <1>1, <1>2, Zenon DEF Edits
<1>. QED
  BY <1>3, Zenon DEF e

\* The request ends; a refusal has left nothing of its own on the path.
LEMMA CEnds ==
    ASSUME CIInv, NEW result \in Answers \cup {"refused", "pending_restart"}, NEW told \in Revisions,
           ed' = Ended(result, told), answer' = "none", UNCHANGED <<file, writes, wrote, faults, waiting, rl, runtime>>,
           "editor" \notin waiting, rl.by # "editor",
           result = "refused" => ed.at \in {"refuse", "ended"}
    PROVE  CIInv'
<1>0. /\ ed \in Edits /\ faults \in Nat /\ writes \in Nat /\ waiting \in SUBSET Callers
      /\ TakenBack(ed, file, wrote) /\ wrote \in Seq(Writes)
  BY Zenon DEF CIInv, CTypes
<1>1. /\ ed' \in Edits /\ ed'.at = "idle" /\ ed'.target = ed.target /\ ed'.content = ed.content
      /\ ed'.original = Absent /\ ed'.result = result /\ ed'.clash = ed.clash /\ ed'.broken = ed.broken
  BY <1>0, CEnded, Zenon
<1>2. EditorWaits(waiting, rl, ed', "none") /\ "none" \in Answers
  BY Zenon DEF EditorWaits, Answers
<1>3. TakenBack(ed', file, wrote)
  <2>1. ed'.original.id = 0 /\ 0 <= Len(wrote)
    BY <1>0, <1>1, CStart
  <2>. QED
    BY <1>0, <1>1, <2>1, Zenon DEF TakenBack
<1>. QED
  BY <1>0, <1>1, <1>2, <1>3, CEditorStep, Zenon

\* The request goes on to its next step and leaves the files alone.
LEMMA CMoves ==
    ASSUME CIInv, UNCHANGED <<file, writes, wrote, rl, runtime>>, faults' \in Nat, faults' >= faults,
           waiting' \in SUBSET Callers, answer' \in Answers, EditorWaits(waiting', rl, ed', answer'),
           ed' \in Edits, ed'.target = ed.target, ed'.content = ed.content, ed'.original = ed.original,
           ed.clash => ed'.clash, ed.broken => ed'.broken, ed'.at \notin {"idle", "check", "restore", "readback"},
           ed'.at = "reloading" => rl.by # "editor",
           ed'.at = "write" => ed.at = "check",
           ed'.at \in {"refuse", "again", "ended"} =>
              \/ ed.at \in {"check", "write"} \/ ed'.broken \/ file[ed.target].obj # ed.content
    PROVE  CIInv'
<1>0. /\ faults \in Nat /\ writes \in Nat /\ TakenBack(ed, file, wrote)
  BY Zenon DEF CIInv, CTypes
<1>2. TakenBack(ed', file, wrote)
  <2>3. ed.at \in {"check", "write"} => ed.content = 0
    BY <1>0, Zenon DEF TakenBack
  <2>4. ed.content = 0 => ~(ed.content > 0)
    OBVIOUS
  <2>. QED
    BY <1>0, <2>3, <2>4, Zenon DEF TakenBack
<1>. QED
  BY <1>0, <1>2, CEditorStep, Zenon

\* The same for a step that only moves on.
LEMMA CStepsOn ==
    ASSUME CIInv, NEW step \in EdSteps, ed' = [ed EXCEPT !.at = step]
    PROVE  /\ ed' \in Edits /\ ed'.at = step /\ ed'.target = ed.target /\ ed'.content = ed.content
           /\ ed'.original = ed.original /\ ed'.clash = ed.clash /\ ed'.broken = ed.broken /\ ed'.rev = ed.rev
<1>1. ed \in Edits
  BY Zenon DEF CIInv, CTypes
<1>. QED
  BY <1>1, Zenon DEF Edits

\* A call or a write fails.
LEMMA CFails ==
    ASSUME CIInv, Fault
    PROVE  faults' \in Nat /\ faults' > 0 /\ faults' >= faults /\ faults' # 0
<1>1. faults \in Nat /\ faults' = faults + 1
  BY Zenon DEF CIInv, CTypes, Fault
<1>. QED
  BY <1>1

\* What the editor knows.
LEMMA CEdits ==
    ASSUME CIInv
    PROVE  /\ ed \in Edits /\ ed.target \in Files /\ ed.content \in Nat /\ ed.original \in Contents
           /\ ed.original.id \in Nat /\ ed.rev \in Revisions /\ ed.result \in Answers \cup {"refused", "pending_restart"}
           /\ ed.target \in {"config", "points"} /\ ed.clash \in BOOLEAN /\ ed.broken \in BOOLEAN /\ ed.unusable \in BOOLEAN
           /\ faults \in Nat /\ faults >= faults /\ writes \in Nat /\ waiting \in SUBSET Callers
           /\ answer \in Answers /\ file \in [Files -> Objects] /\ wrote \in Seq(Writes) /\ Len(wrote) \in Nat
           /\ OnDisk(file, wrote) /\ TakenBack(ed, file, wrote) /\ EditorWaits(waiting, rl, ed, answer)
           /\ ed.content <= Len(wrote) /\ ed.original.id <= Len(wrote)
<1>1. ed \in Edits /\ file \in [Files -> Objects] /\ wrote \in Seq(Writes) /\ faults \in Nat /\ writes \in Nat
      /\ waiting \in SUBSET Callers /\ answer \in Answers
  BY Zenon DEF CIInv, CTypes
<1>2. OnDisk(file, wrote) /\ TakenBack(ed, file, wrote) /\ EditorWaits(waiting, rl, ed, answer)
  BY Zenon DEF CIInv
<1>3. /\ ed.target \in {"config", "points"} /\ ed.content \in Nat /\ ed.original \in Contents
      /\ ed.rev \in Revisions /\ ed.result \in Answers \cup {"refused", "pending_restart"}
      /\ ed.clash \in BOOLEAN /\ ed.broken \in BOOLEAN /\ ed.unusable \in BOOLEAN
  BY <1>1, Zenon DEF Edits
<1>4. ed.original.id \in Nat
  BY <1>3 DEF Contents, Real, Absent
<1>5. ed.content <= Len(wrote) /\ ed.original.id <= Len(wrote)
  BY <1>2, Zenon DEF TakenBack
<1>6. faults >= faults /\ Len(wrote) \in Nat /\ ed.target \in Files
  BY <1>1, <1>3 DEF Files
<1>. QED
  BY <1>1, <1>2, <1>3, <1>4, <1>5, <1>6, Zenon

\* A request begins, is checked, and is refused.
LEMMA CBegins ==
    ASSUME CIInv, (\E t \in {"config", "points"} : EdBegin(t)) \/ EdCheck \/ EdRefuse
    PROVE  CIInv'
<1>0. ed.at \in {"idle", "check", "refuse"} /\ UNCHANGED <<file, writes, wrote, faults, waiting, rl, runtime>>
  BY Zenon DEF EdBegin, EdCheck, EdRefuse, EdAt, Still, EdEnd, disk
<1>1. "editor" \notin waiting /\ rl.by # "editor" /\ \A e, a : EditorWaits(waiting, rl, e, a)
  BY <1>0, CNotWaiting, Zenon
<1>2. ASSUME NEW t \in {"config", "points"}, EdBegin(t)
      PROVE  CIInv'
  <2>0. answer' = answer /\ ed' = [NoEdit EXCEPT !.at = "check", !.count = ed.count + 1, !.target = t,
                            !.rev = [config |-> file["config"].obj, points |-> file["points"].obj],
                            !.original = file[t].data, !.clash = ed.clash, !.unusable = ed.unusable]
    BY <1>2, Zenon DEF EdBegin, Still, Revision, Object, Data
  <2>1. t \in Files /\ "config" \in Files /\ "points" \in Files
    BY Zenon DEF Files
  <2>2. file[t].data \in Contents /\ file[t].data.id <= Len(wrote) /\ ed.count + 1 \in Nat
    BY <2>1, CEdits DEF Objects, OnDisk, Edits
  <2> DEFINE rev == [config |-> file["config"].obj, points |-> file["points"].obj]
  <2>3. rev \in Revisions
    BY <2>1, CEdits, Zenon DEF Objects, Revisions
  <2>4. ed' = [NoEdit EXCEPT !.at = "check", !.count = ed.count + 1, !.target = t, !.rev = rev,
                            !.original = file[t].data, !.clash = ed.clash, !.unusable = ed.unusable]
    BY <2>0, Zenon
  <2> HIDE DEF rev
  <2>5. /\ ed' \in Edits /\ ed'.at = "check" /\ ed'.content = 0 /\ ed'.original = file[t].data
        /\ ed'.clash = ed.clash
    BY <2>2, <2>3, <2>4, CEdits, CStart, Zenon DEF Edits, EdSteps
  <2>6. TakenBack(ed', file, wrote)
    <3>1. 0 <= Len(wrote) /\ ~(0 > 0)
      BY CEdits
    <3>. QED
      BY <2>2, <2>5, <3>1, Zenon DEF TakenBack
  <2>7. EditorWaits(waiting, rl, ed', answer)
    BY <1>1, Zenon
  <2>. QED
    BY <1>0, <2>0, <2>5, <2>6, <2>7, CEdits, CEditorStep, Zenon
<1>3. CASE EdCheck
  <2>0. answer' = answer /\ ed.at = "check" /\ \E step \in {"write", "refuse"} : ed' = [ed EXCEPT !.at = step]
    BY <1>3, Zenon DEF EdCheck, EdAt, EdStep, Still
  <2>1. PICK step \in {"write", "refuse"} : ed' = [ed EXCEPT !.at = step]
    BY <2>0, Zenon
  <2>2. step \in EdSteps
    BY Zenon DEF EdSteps
  <2>3. /\ ed' \in Edits /\ ed'.at = step /\ ed'.target = ed.target /\ ed'.content = ed.content
        /\ ed'.original = ed.original /\ ed'.clash = ed.clash /\ ed'.broken = ed.broken /\ ed'.rev = ed.rev
    BY <2>1, <2>2, CStepsOn, Zenon
  <2>4. EditorWaits(waiting, rl, ed', answer)
    BY <1>1, Zenon
  <2>. QED
    BY <1>0, <2>0, <2>3, <2>4, CEdits, CMoves, Zenon
<1>4. CASE EdRefuse
  <2>0. ed.at = "refuse" /\ answer' = "none"
        /\ \E result \in {"refused", "failed"} : ed' = Ended(result, NoEdit.told)
    BY <1>4, Zenon DEF EdRefuse, EdAt, EdEnd
  <2>1. NoEdit.told \in Revisions
    BY CStart, Zenon DEF Edits
  <2>2. {"refused", "failed"} \subseteq Answers \cup {"refused", "pending_restart"}
    BY Zenon DEF Answers
  <2>3. PICK result \in Answers \cup {"refused", "pending_restart"} : ed' = Ended(result, NoEdit.told)
    BY <2>0, <2>2, Zenon
  <2>4. result = "refused" => ed.at \in {"refuse", "ended"}
    BY <2>0, Zenon
  <2>. QED
    BY <1>0, <1>1, <2>0, <2>1, <2>3, <2>4, CEnds, Zenon
<1>. QED
  BY <1>2, <1>3, <1>4, Zenon

\* The new content is renamed over the file.
LEMMA CWrites ==
    ASSUME CIInv, NEW patches, NEW unsynced \in {"restore", "refuse"}, EdWrite(patches, unsynced),
           \A c \in patches : c \in Real /\ c.id = Number
    PROVE  CIInv'
<1>0. ed.at = "write" /\ UNCHANGED <<writes, waiting, answer, rl, runtime>>
  BY Zenon DEF EdWrite, EdAt
<1>1. "editor" \notin waiting /\ rl.by # "editor" /\ \A e, a : EditorWaits(waiting, rl, e, a)
  BY <1>0, CNotWaiting, Zenon
<1>2. CASE Fault /\ EdStep("refuse") /\ UNCHANGED <<file, wrote>>
  <2>1. "refuse" \in EdSteps /\ ed' = [ed EXCEPT !.at = "refuse"]
    BY <1>2, Zenon DEF EdSteps, EdStep
  <2>3. /\ ed' \in Edits /\ ed'.at = "refuse" /\ ed'.target = ed.target /\ ed'.content = ed.content
        /\ ed'.original = ed.original /\ ed'.clash = ed.clash /\ ed'.broken = ed.broken /\ ed'.rev = ed.rev
    BY <2>1, CStepsOn, Zenon
  <2>4. faults' \in Nat /\ faults' >= faults
    BY <1>2, CFails, Zenon
  <2>5. EditorWaits(waiting, rl, ed', answer)
    BY <1>1, Zenon
  <2>. QED
    BY <1>0, <1>2, <2>3, <2>4, <2>5, CEdits, CMoves, Zenon
<1>3. ASSUME NEW c \in patches, Store(ed.target, c), NEW step \in {"readback", "restore", "refuse"},
             NEW broken \in BOOLEAN, ed' = [ed EXCEPT !.at = step, !.content = Number, !.broken = broken],
             faults' \in Nat, step # "readback" => broken
      PROVE  CIInv'
  <2>1. c \in Contents /\ c.id = Number /\ Number = Len(wrote) + 1 /\ c.id <= Number /\ Number \in Nat
    BY CEdits DEF Contents, Number
  <2>2. Len(wrote') = Len(wrote) + 1 /\ wrote'[Len(wrote) + 1].data = c
    BY <1>3, <2>1, CEdits, CStores, Zenon
  <2>3. /\ ed' \in Edits /\ ed'.at = step /\ ed'.content = Number /\ ed'.original = ed.original
        /\ ed'.clash = ed.clash /\ ed'.broken = broken
    BY <1>3, <2>1, CEdits, Zenon DEF Edits, EdSteps
  <2>4. TakenBack(ed', file', wrote')
    <3>1. ed'.content <= Len(wrote') /\ ed'.original.id <= Len(wrote')
      BY <2>1, <2>2, <2>3, CEdits
    <3>2. Number \in 1 .. Len(wrote') /\ wrote'[Number].data.id = Number
      BY <2>1, <2>2
    <3>. QED
      BY <1>3, <2>3, <3>1, <3>2, Zenon DEF TakenBack
  <2>5. EditorWaits(waiting, rl, ed', answer)
    BY <1>1, Zenon
  <2>6. ASSUME rl.at \in CLoaded PROVE c.id # rl.config
    <3>1. rl.config \in 1 .. Len(wrote) /\ Len(wrote) \in Nat
      BY <2>6, CEdits, Zenon DEF CIInv, ReadOnce, CLoaded, CCaptured
    <3>. QED
      BY <2>1, <3>1
  <2>. QED
    BY <1>0, <1>3, <2>1, <2>3, <2>4, <2>5, <2>6, CEdits, CEditorStep, Zenon
<1>4. Fault => faults' \in Nat /\ faults' > 0 /\ faults' # 0
  BY CFails, Zenon
<1>5. "readback" \in {"readback", "restore", "refuse"} /\ unsynced \in {"readback", "restore", "refuse"}
  BY Zenon
<1>6. UNCHANGED faults => faults' \in Nat
  BY CEdits, Zenon
<1>7. ASSUME ed' = [ed EXCEPT !.at = "readback", !.content = Number]
      PROVE  ed' = [ed EXCEPT !.at = "readback", !.content = Number, !.broken = ed.broken]
  BY <1>7, CEdits, Zenon DEF Edits
<1>8. ed.broken \in BOOLEAN /\ TRUE \in BOOLEAN
  BY CEdits, Zenon
<1>. QED
  BY <1>2, <1>3, <1>4, <1>5, <1>6, <1>7, <1>8, Zenon DEF EdWrite

\* A valid patch of the source.
LEMMA CPatches ==
    ASSUME CIInv
    PROVE  \A c \in ConfigPatches \cup PointsPatches : c \in Real /\ c.id = Number
<1> DEFINE n == Number
           p == Plain(n)
           io == ed.original.io
           frozen == ed.original.frozen
           q == [p EXCEPT !.io = io, !.frozen = frozen]
<1>1. n \in Nat \ {0}
  BY CEdits DEF Number
<1>2. io \in BOOLEAN /\ frozen \in {0, 1}
  <2>1. ed.original \in Contents
    BY CEdits, Zenon
  <2>2. CASE ed.original \in Real
    BY <2>2, Zenon DEF Real
  <2>3. CASE ed.original = Absent
    BY <2>3 DEF Absent
  <2>. QED
    BY <2>1, <2>2, <2>3, Zenon DEF Contents
<1>3. \A c \in ConfigPatches \cup PointsPatches : c \in {q, [q EXCEPT !.frozen = 1]}
  BY Zenon DEF ConfigPatches, PointsPatches, Patched
<1> HIDE DEF n, io, frozen
<1>4. p \in Real /\ p.id = n
  BY <1>1, Zenon DEF Plain, Real
<1> HIDE DEF p
<1>5. q \in Real /\ q.id = n
  BY <1>2, <1>4, Zenon DEF Real
<1> HIDE DEF q
<1>6. [q EXCEPT !.frozen = 1] \in Real /\ [q EXCEPT !.frozen = 1].id = n
  BY <1>5, Zenon DEF Real
<1>. QED
  BY <1>3, <1>5, <1>6, Zenon DEF n

\* What goes back is a new object.
LEMMA CPutsBack ==
    ASSUME CIInv, Store(ed.target, ed.original)
    PROVE  /\ file' # file /\ file'[ed.target].obj # ed.content /\ Len(wrote') = Len(wrote) + 1
           /\ ed.original.id <= Number
<1>1. ed.original.id <= Number
  BY CEdits DEF Number
<1>2. Len(wrote') = Len(wrote) + 1 /\ file'[ed.target] = [data |-> ed.original, obj |-> Len(wrote) + 1]
  BY <1>1, CEdits, CStores, Zenon
<1>3. file'[ed.target].obj = Len(wrote) + 1
  BY <1>2
<1>4. file[ed.target].obj \in 1 .. Len(wrote)
  BY CEdits, Zenon DEF OnDisk, Made
<1>5. file[ed.target].obj # Len(wrote) + 1 /\ ed.content # Len(wrote) + 1
  BY <1>4, CEdits
<1>. QED
  BY <1>1, <1>2, <1>3, <1>5, Zenon

\* The captured content goes back, for good or not.
LEMMA CTakesBack ==
    ASSUME CIInv, Store(ed.target, ed.original), UNCHANGED <<writes, waiting, answer, rl, runtime>>,
           faults' \in Nat, ed' \in Edits, ed'.at \in {"refuse", "again", "ended"},
           ed'.target = ed.target, ed'.content = ed.content, ed'.original = ed.original,
           ed.clash => ed'.clash, Clashes(ed.target, ed.original) => ed'.clash,
           \A e, a : EditorWaits(waiting, rl, e, a)
    PROVE  CIInv'
<1>1. /\ file'[ed.target].obj # ed.content /\ Len(wrote') = Len(wrote) + 1 /\ ed.original.id <= Number
  BY CPutsBack, Zenon
<1>2. ed.content <= Len(wrote') /\ ed.original.id <= Len(wrote')
  BY <1>1, CEdits
<1>3. TakenBack(ed', file', wrote')
  BY <1>1, <1>2, Zenon DEF TakenBack
<1>4. ed.target = "config" /\ rl.at \in CLoaded /\ ed.original.id = rl.config => ed'.clash
  BY CEdits, CClashes, Zenon
<1>5. EditorWaits(waiting, rl, ed', answer)
  BY Zenon
<1>. QED
  BY <1>1, <1>3, <1>4, <1>5, CEdits, CEditorStep, Zenon

\* Persist takes back what it could not make durable.
LEMMA CRestores ==
    ASSUME CIInv, EdRestore
    PROVE  CIInv'
<1>0. ed.at = "restore" /\ UNCHANGED <<waiting, answer, rl, runtime>> /\ ed.broken /\ UNCHANGED writes
  BY CEdits, Zenon DEF EdRestore, EdAt, TakenBack, TakeBack, disk
<1>1. "editor" \notin waiting /\ rl.by # "editor" /\ \A e, a : EditorWaits(waiting, rl, e, a)
  BY <1>0, CNotWaiting, Zenon
<1> DEFINE clash == ed.clash \/ (file' # file /\ Clashes(ed.target, ed.original))
           lost == ed.unusable \/ faults' # faults
<1>2. /\ clash \in BOOLEAN /\ lost \in BOOLEAN /\ (ed.clash => clash)
      /\ (file' # file /\ Clashes(ed.target, ed.original) => clash)
  BY CEdits, Zenon
<1>3. ed' = [ed EXCEPT !.at = "refuse", !.unusable = lost, !.clash = clash]
  BY Zenon DEF EdRestore
<1> HIDE DEF clash, lost
<1>4. /\ ed' \in Edits /\ ed'.at = "refuse" /\ ed'.target = ed.target /\ ed'.content = ed.content
      /\ ed'.original = ed.original /\ ed'.clash = clash /\ ed'.broken = ed.broken
  BY <1>2, <1>3, CEdits, Zenon DEF Edits, EdSteps
<1>5. CASE Fault /\ UNCHANGED disk
  <2>1. faults' \in Nat /\ faults' >= faults /\ UNCHANGED <<file, wrote>>
    BY <1>5, CFails, Zenon DEF disk
  <2>2. EditorWaits(waiting, rl, ed', answer)
    BY <1>1, Zenon
  <2>. QED
    BY <1>0, <1>2, <1>4, <2>1, <2>2, CEdits, CMoves, Zenon
<1>6. CASE Store(ed.target, ed.original) /\ (UNCHANGED faults \/ Fault)
  <2>1. faults' \in Nat
    BY <1>6, CEdits, CFails, Zenon
  <2>2. file' # file
    BY <1>6, CPutsBack, Zenon
  <2>. QED
    BY <1>0, <1>1, <1>2, <1>4, <1>6, <2>1, <2>2, CTakesBack, Zenon
<1>. QED
  BY <1>5, <1>6, Zenon DEF EdRestore, TakeBack

\* Persist reads back what it wrote.
LEMMA CReadsBack ==
    ASSUME CIInv, EdReadBack
    PROVE  CIInv'
<1>0. ed.at = "readback" /\ UNCHANGED <<file, writes, wrote, faults, rl, runtime, waiting, answer>>
  BY Zenon DEF EdReadBack, EdAt, Still, disk
<1>1. EditorWaits(waiting, rl, ed', answer)
  BY <1>0, CNotWaiting, Zenon
<1>2. /\ ed.content \in 1 .. Len(wrote) /\ wrote[ed.content].data.id = ed.content
      /\ file[ed.target].obj \in 1 .. Len(wrote) /\ wrote[file[ed.target].obj].data.id = file[ed.target].data.id
  BY <1>0, CEdits, Zenon DEF TakenBack, OnDisk, Made
<1>3. CASE Data(ed.target).id # ed.content /\ EdStep("refuse")
  <2>1. "refuse" \in EdSteps /\ ed' = [ed EXCEPT !.at = "refuse"] /\ file[ed.target].data.id # ed.content
    BY <1>3, Zenon DEF EdSteps, EdStep, Data
  <2>2. file[ed.target].obj # ed.content
    BY <1>2, <2>1, Zenon
  <2>3. /\ ed' \in Edits /\ ed'.at = "refuse" /\ ed'.target = ed.target /\ ed'.content = ed.content
        /\ ed'.original = ed.original /\ ed'.clash = ed.clash /\ ed'.broken = ed.broken /\ ed'.rev = ed.rev
    BY <2>1, CStepsOn, Zenon
  <2>. QED
    BY <1>0, <1>1, <2>2, <2>3, CEdits, CMoves, Zenon
<1>4. CASE ed' = [ed EXCEPT !.at = "persisted", !.content = Object(ed.target)]
  <2> DEFINE obj == file[ed.target].obj
  <2>1. ed' = [ed EXCEPT !.at = "persisted", !.content = obj]
    BY <1>4, Zenon DEF Object
  <2>2. obj \in Nat /\ obj <= Len(wrote)
    BY <1>2
  <2> HIDE DEF obj
  <2>3. /\ ed' \in Edits /\ ed'.at = "persisted" /\ ed'.content = obj /\ ed'.original = ed.original /\ ed'.clash = ed.clash
    BY <2>1, <2>2, CEdits, Zenon DEF Edits, EdSteps
  <2>4. TakenBack(ed', file, wrote)
    BY <2>2, <2>3, CEdits, Zenon DEF TakenBack
  <2>. QED
    BY <1>0, <1>1, <2>3, <2>4, CEdits, CEditorStep, Zenon
<1>. QED
  BY <1>3, <1>4, Zenon DEF EdReadBack

\* The editor takes its snapshot and asks for a reload.
LEMMA CAsks ==
    ASSUME CIInv, EdPersisted \/ EdReload \/ EdAgain
    PROVE  CIInv'
<1>0. /\ ed.at \in {"persisted", "reload", "again"} /\ UNCHANGED <<file, writes, wrote, faults, rl, runtime>>
  BY Zenon DEF EdPersisted, EdReload, EdAgain, EdAt, Still, disk
<1>1. "editor" \notin waiting /\ rl.by # "editor" /\ \A e, a : EditorWaits(waiting, rl, e, a)
  BY <1>0, CNotWaiting, Zenon
<1>2. CASE EdPersisted
  <2>0. UNCHANGED <<waiting, answer>> /\ EditorWaits(waiting, rl, ed', answer)
    BY <1>1, <1>2, Zenon DEF EdPersisted, Still
  <2> DEFINE mine == [ed.rev EXCEPT ![ed.target] = ed.content]
  <2>1. EdStep("withdraw") \/ ed' = [ed EXCEPT !.at = "reload", !.rev = mine]
    BY <1>2, Zenon DEF EdPersisted
  <2>2. mine \in Revisions
    <3>1. CASE ed.target = "config"
      <4>1. mine = [ed.rev EXCEPT !.config = ed.content]
        BY <3>1, Zenon
      <4>. QED
        BY <4>1, CEdits, Zenon DEF Revisions
    <3>2. CASE ed.target = "points"
      <4>1. mine = [ed.rev EXCEPT !.points = ed.content]
        BY <3>2, Zenon
      <4>. QED
        BY <4>1, CEdits, Zenon DEF Revisions
    <3>. QED
      BY <3>1, <3>2, CEdits, Zenon
  <2> HIDE DEF mine
  <2>4. CASE EdStep("withdraw")
    <3>1. "withdraw" \in EdSteps /\ ed' = [ed EXCEPT !.at = "withdraw"]
      BY <2>4, Zenon DEF EdSteps, EdStep
    <3>2. /\ ed' \in Edits /\ ed'.at = "withdraw" /\ ed'.target = ed.target /\ ed'.content = ed.content
          /\ ed'.original = ed.original /\ ed'.clash = ed.clash /\ ed'.broken = ed.broken /\ ed'.rev = ed.rev
      BY <3>1, CStepsOn, Zenon
    <3>. QED
      BY <1>0, <2>0, <3>2, CEdits, CMoves, Zenon
  <2>5. CASE ed' = [ed EXCEPT !.at = "reload", !.rev = mine]
    <3>2. /\ ed' \in Edits /\ ed'.at = "reload" /\ ed'.target = ed.target /\ ed'.content = ed.content
          /\ ed'.original = ed.original /\ ed'.clash = ed.clash /\ ed'.broken = ed.broken
      BY <2>2, <2>5, CEdits, Zenon DEF Edits, EdSteps
    <3>. QED
      BY <1>0, <2>0, <3>2, CEdits, CMoves, Zenon
  <2>. QED
    BY <2>1, <2>4, <2>5, Zenon
<1>3. CASE EdReload \/ EdAgain
  <2>0. PICK step \in {"reloading", "ended"} :
            ed' = [ed EXCEPT !.at = step] /\ Request("editor") /\ (step = "ended" => ed.at = "again")
    BY <1>3, Zenon DEF EdReload, EdAgain, EdStep, EdAt
  <2>1. step \in EdSteps
    BY Zenon DEF EdSteps
  <2>2. /\ ed' \in Edits /\ ed'.at = step /\ ed'.target = ed.target /\ ed'.content = ed.content
        /\ ed'.original = ed.original /\ ed'.clash = ed.clash /\ ed'.broken = ed.broken /\ ed'.rev = ed.rev
    BY <2>0, <2>1, CStepsOn, Zenon
  <2>3. waiting' \in SUBSET Callers /\ answer' \in Answers /\ EditorWaits(waiting', rl, ed', answer')
    <3>1. CASE waiting' = waiting \cup {"editor"} /\ answer' = "none"
      BY <1>1, <2>2, <3>1, CEdits, Zenon DEF EditorWaits, Callers, Answers
    <3>2. CASE UNCHANGED waiting /\ answer' = "stopped"
      BY <1>1, <3>2, CEdits, Zenon DEF Answers
    <3>. QED
      BY <2>0, <3>1, <3>2, Zenon DEF Request, Tell
  <2>4. CASE step = "reloading"
    BY <1>0, <1>1, <2>2, <2>3, <2>4, CEdits, CMoves, Zenon
  <2>5. CASE step = "ended"
    <3>1. TakenBack(ed', file, wrote)
      BY <2>0, <2>2, <2>5, CEdits, Zenon DEF TakenBack
    <3>. QED
      BY <1>0, <1>1, <2>2, <2>3, <2>5, <3>1, CEdits, CEditorStep, Zenon
  <2>. QED
    BY <2>4, <2>5, Zenon
<1>. QED
  BY <1>2, <1>3, Zenon

\* The reload is answered and the request ends.
LEMMA CAnswers ==
    ASSUME CIInv, EdReloaded \/ EdEnded
    PROVE  CIInv'
<1>0. UNCHANGED <<file, writes, wrote, faults, waiting, rl, runtime>>
  BY Zenon DEF EdReloaded, EdEnded, EdAt, Still, EdEnd, disk
<1>1. "editor" \notin waiting /\ rl.by # "editor"
  BY CNotWaiting, Zenon DEF EdReloaded, EdEnded
<1>2. ASSUME NEW result \in Answers \cup {"refused", "pending_restart"}, NEW told \in Revisions,
             ed' = Ended(result, told), answer' = "none", result = "refused" => ed.at \in {"refuse", "ended"}
      PROVE  CIInv'
  BY <1>0, <1>1, <1>2, CEnds, Zenon
<1>3. NoEdit.told \in Revisions /\ Revision \in Revisions
  <2>1. "config" \in Files /\ "points" \in Files /\ file \in [Files -> Objects]
    BY CEdits, Zenon DEF Files
  <2>2. file["config"].obj \in Nat /\ file["points"].obj \in Nat
    BY <2>1, Zenon DEF Objects
  <2>3. Revision \in Revisions
    BY <2>2, Zenon DEF Revision, Object, Revisions
  <2>. QED
    BY <2>3, CStart, Zenon DEF Edits
<1>4. {"refused", "failed", "applied", "pending_restart"} \subseteq Answers \cup {"refused", "pending_restart"}
  BY Zenon DEF Answers
<1>5. CASE EdReloaded
  <2>1. CASE ed' = [ed EXCEPT !.at = "undo", !.result = answer] /\ Still
    <3>1. /\ ed' \in Edits /\ ed'.at = "undo" /\ ed'.target = ed.target /\ ed'.content = ed.content
          /\ ed'.original = ed.original /\ ed'.clash = ed.clash /\ ed'.broken = ed.broken
      BY <2>1, CEdits, Zenon DEF Edits, EdSteps
    <3>2. EditorWaits(waiting, rl, ed', answer) /\ answer' = answer
      BY <1>1, <2>1, Zenon DEF EditorWaits, Still
    <3>. QED
      BY <1>0, <3>1, <3>2, CEdits, CMoves, Zenon
  <2>2. \/ ed' = [ed EXCEPT !.at = "undo", !.result = answer] /\ Still
        \/ EdEnd("failed")
        \/ /\ ed' = Ended(IF answer = "applied" THEN "applied" ELSE "pending_restart", Revision)
           /\ answer' = "none"
    BY <1>5, Zenon DEF EdReloaded
  <2>3. CASE EdEnd("failed")
    BY <1>2, <1>3, <1>4, <2>3, Zenon DEF EdEnd
  <2>4. ASSUME NEW result \in {"applied", "pending_restart"}, ed' = Ended(result, Revision), answer' = "none"
        PROVE  CIInv'
    BY <1>2, <1>3, <1>4, <2>4, Zenon
  <2>. QED
    BY <2>1, <2>2, <2>3, <2>4, Zenon
<1>6. CASE EdEnded
  <2>1. ed.at = "ended" /\ answer' = "none"
        /\ \E result \in {"refused", "failed"} : ed' = Ended(result, NoEdit.told)
    BY <1>6, Zenon DEF EdEnded, EdAt, EdEnd
  <2>. QED
    BY <1>2, <1>3, <1>4, <2>1, Zenon
<1>. QED
  BY <1>5, <1>6, Zenon

\* Rollback.
LEMMA CRollsBack ==
    ASSUME CIInv, EdUndo
    PROVE  CIInv'
<1>0. ed.at \in {"undo", "withdraw"} /\ UNCHANGED <<waiting, answer, rl, runtime>> /\ writes' = writes
  BY Zenon DEF EdUndo, EdAt, Rollback, TakeBack, disk
<1>1. "editor" \notin waiting /\ rl.by # "editor" /\ \A e, a : EditorWaits(waiting, rl, e, a)
  BY <1>0, CNotWaiting, Zenon
<1> DEFINE step == IF ed.at = "undo" /\ file' # file /\ faults' = faults THEN "again" ELSE "ended"
           result == IF ed.at = "withdraw" THEN "conflict" ELSE ed.result
           lost == ed.unusable \/ (ed.target = "config" /\ file' # file /\ ~(faults' = faults))
           broken == ed.broken \/ ~(faults' = faults)
           clash == ed.clash \/ (file' # file /\ Clashes(ed.target, ed.original))
<1>2. ed' = [ed EXCEPT !.at = step, !.result = result, !.unusable = lost, !.broken = broken, !.clash = clash]
  BY Zenon DEF EdUndo
<1>3. /\ step \in {"again", "ended"} /\ step \in EdSteps /\ result \in Answers \cup {"refused", "pending_restart"}
      /\ lost \in BOOLEAN /\ broken \in BOOLEAN /\ (ed.broken => broken) /\ (faults' # faults => broken)
      /\ clash \in BOOLEAN /\ (ed.clash => clash)
      /\ (file' # file /\ Clashes(ed.target, ed.original) => clash)
  BY CEdits, Zenon DEF EdSteps, Answers
<1> HIDE DEF step, result, lost, broken, clash
<1>4. /\ ed' \in Edits /\ ed'.at = step /\ ed'.target = ed.target /\ ed'.content = ed.content
      /\ ed'.original = ed.original /\ ed'.clash = clash /\ ed'.broken = broken
  BY <1>2, <1>3, CEdits, Zenon DEF Edits
<1>5. EditorWaits(waiting, rl, ed', answer)
  BY <1>1, Zenon
<1>6. CASE Object(ed.target) # ed.content /\ UNCHANGED <<disk, faults>>
  <2>1. file[ed.target].obj # ed.content /\ UNCHANGED <<file, wrote, faults>>
    BY <1>6, Zenon DEF Object, disk
  <2>. QED
    BY <1>0, <1>3, <1>4, <1>5, <2>1, CEdits, CMoves, Zenon
<1>7. CASE Fault /\ UNCHANGED disk
  <2>1. faults' \in Nat /\ faults' >= faults /\ UNCHANGED <<file, wrote>>
    BY <1>7, CFails, Zenon DEF disk
  <2>2. faults' # faults
    BY <1>7, CEdits DEF Fault
  <2>. QED
    BY <1>0, <1>3, <1>4, <1>5, <2>1, <2>2, CEdits, CMoves, Zenon
<1>8. CASE Store(ed.target, ed.original) /\ (UNCHANGED faults \/ Fault)
  <2>1. faults' \in Nat
    BY <1>8, CEdits, CFails, Zenon
  <2>2. file' # file
    BY <1>8, CPutsBack, Zenon
  <2>3. step \in {"refuse", "again", "ended"}
    BY <1>3, Zenon
  <2>. QED
    BY <1>0, <1>1, <1>3, <1>4, <1>8, <2>1, <2>2, <2>3, CTakesBack, Zenon
<1>. QED
  BY <1>6, <1>7, <1>8, Zenon DEF EdUndo, Rollback, TakeBack

\* The daemon starts with what its files hold.
LEMMA CInit ==
    ASSUME Init
    PROVE  CIInv
<1> DEFINE one == [data |-> Plain(1), obj |-> 1]
           w == [of |-> Files, data |-> Plain(1)]
<1>1. Plain(1) \in Real /\ Plain(1).id = 1
  BY DEF Plain, Real
<1>2. one \in Objects /\ one.obj = 1 /\ one.data = Plain(1)
  BY <1>1, Zenon DEF Objects, Contents
<1>3. w \in Writes /\ w.data = Plain(1) /\ w.of = Files
  BY <1>1, Zenon DEF Writes, Contents
<1>4. file = [f \in Files |-> one] /\ wrote = <<w>> /\ rl = NoReload /\ ed = NoEdit
      /\ waiting = {} /\ faults = 0 /\ writes = 0 /\ answer = "none"
      /\ runtime = [config |-> Plain(1), points |-> 1, weights |-> 1, kernel |-> 1]
  BY Zenon DEF Init
<1> HIDE DEF one, w
<1>5. wrote \in Seq(Writes) /\ Len(wrote) = 1 /\ wrote[1] = w
  BY <1>3, <1>4
<1>6. file \in [Files -> Objects] /\ \A f \in Files : file[f] = one
  BY <1>2, <1>4, Zenon
<1>7. runtime \in Runtimes /\ runtime.config = Plain(1) /\ runtime.points = 1 /\ runtime.weights = 1
  BY <1>1, <1>4, Zenon DEF Runtimes, Contents
<1>8. CTypes
  BY <1>4, <1>5, <1>6, <1>7, CStart, Zenon DEF CTypes, Answers
<1>9. \A f \in Files : Last(wrote, f, 1, 1)
  BY <1>3, <1>5 DEF Last
<1>10. OnDisk(file, wrote)
  BY <1>1, <1>2, <1>3, <1>5, <1>6, <1>9 DEF OnDisk, Made
<1>11. EditorWaits(waiting, rl, ed, answer)
  BY <1>4, CStart, Zenon DEF EditorWaits
<1>12. ReadOnce(rl, ed, file, wrote) /\ Applied(rl, runtime)
  BY <1>4, CStart, Zenon DEF ReadOnce, Applied, CCaptured, CLoaded, CWithPolicy, CWithIOPolicy
<1>13. Published
  <2>1. InForce(rl, runtime) = Plain(1)
    BY <1>4, <1>7, CStart, Zenon DEF InForce
  <2>2. {"config", "points", "weights"} \subseteq Files
    BY Zenon DEF Files
  <2>3. 1 \in 1 .. Len(wrote) /\ 1 \in 1 .. 1 /\ wrote[1].data.id = 1
    BY <1>1, <1>3, <1>5
  <2>4. Instant(wrote, Plain(1), 1, 1)
    BY <1>1, <1>9, <2>2, <2>3, Zenon DEF Instant
  <2>. QED
    BY <1>7, <2>1, <2>4, Zenon DEF Published
<1>14. TakenBack(ed, file, wrote)
  BY <1>4, <1>5, CStart DEF TakenBack
<1>. QED
  BY <1>8, <1>10, <1>11, <1>12, <1>13, <1>14, Zenon DEF CIInv

\* Every step keeps it.
LEMMA CStep ==
    ASSUME CIInv, [Next]_vars
    PROVE  CIInv'
<1>1. CASE UNCHANGED vars
  <2>1. UNCHANGED <<file, writes, wrote, faults, waiting, answer, rl, runtime, ed>>
    BY <1>1, Zenon DEF vars
  <2>. QED
    BY <2>1, Zenon DEF CIInv, CTypes, Published
<1>2. CASE Editor
  <2>1. CASE EdWriteConfig
    <3>1. "restore" \in {"restore", "refuse"}
      BY Zenon
    <3>. QED
      BY <2>1, <3>1, CPatches, CWrites, Zenon DEF EdWriteConfig
  <2>2. CASE EdWritePoints
    <3>1. "refuse" \in {"restore", "refuse"}
      BY Zenon
    <3>. QED
      BY <2>2, <3>1, CPatches, CWrites, Zenon DEF EdWritePoints
  <2>. QED
    BY <1>2, <2>1, <2>2, CBegins, CRestores, CReadsBack, CAsks, CAnswers, CRollsBack, Zenon
    DEF Editor, UpdateConfiguration, UpdateCPUPoints, FinishEditorPersistence
<1>3. CASE Reload
  BY <1>3, CCaptures, CLoads, CApplies, CFinishes, Zenon DEF Reload
<1>. QED
  BY <1>1, <1>2, <1>3, CGates, CReplaces, CBegins, Zenon DEF Next

\* What a file held after n replacements.
LEMMA CHeld ==
    ASSUME NEW f, NEW n, NEW k \in 1 .. n, Last(wrote, f, k, n), n \in Nat
    PROVE  Held(f, n) = wrote[k].data.id
<1> DEFINE P(i) == f \in wrote[i].of /\ \A j \in i + 1 .. n : f \notin wrote[j].of
           c == CHOOSE i \in 1 .. n : P(i)
<1>1. P(k)
  BY Zenon DEF Last
<1>2. c \in 1 .. n /\ P(c)
  BY <1>1, Zenon
<1>3. Held(f, n) = wrote[c].data.id
  BY Zenon DEF Held
<1> HIDE DEF c
<1>4. c = k
  <2>1. c > k => c \in k + 1 .. n
    BY <1>2
  <2>2. k > c => k \in c + 1 .. n
    BY <1>2
  <2>. QED
    BY <1>1, <1>2, <2>1, <2>2
<1>. QED
  BY <1>3, <1>4, Zenon

\* The inductive invariant of the reload.
THEOREM ReloadInvariant == Spec => []CIInv
<1>1. Init => CIInv
  BY CInit, Zenon
<1>2. CIInv /\ [Next]_vars => CIInv'
  BY CStep, Zenon
<1>. QED
  BY <1>1, <1>2, PTL DEF Spec

\* What Reload has published was on disk at one instant: its captures, its second reading of
\* the configuration and its comparison with the descriptors of the policies admit no mixture,
\* whatever is replaced or put back under it, except the very content that it has captured.
THEOREM EpochsAreOneInstant == Spec => []OneInstant
<1>1. CIInv => OneInstant
  <2> SUFFICES ASSUME CIInv, rl.at # "publish", ~ed.clash
               PROVE  \E n \in 1 .. Len(wrote) :
                         /\ runtime.config.id = Held("config", n) /\ runtime.points = Held("points", n)
                         /\ runtime.config.io => runtime.weights = Held("weights", n)
    BY Zenon DEF OneInstant
  <2>1. Instant(wrote, runtime.config, runtime.points, runtime.weights) /\ Len(wrote) \in Nat
    BY DEF CIInv, CTypes, Published, InForce
  <2>2. PICK n \in 1 .. Len(wrote) :
            /\ \E k \in 1 .. n : Last(wrote, "config", k, n) /\ runtime.config.id = wrote[k].data.id
            /\ \E k \in 1 .. n : Last(wrote, "points", k, n) /\ runtime.points = wrote[k].data.id
            /\ runtime.config.io => \E k \in 1 .. n : Last(wrote, "weights", k, n) /\ runtime.weights = wrote[k].data.id
    BY <2>1, Zenon DEF Instant
  <2>3. n \in Nat
    BY <2>1, <2>2
  <2>. QED
    BY <2>2, <2>3, CHeld
<1>. QED
  BY <1>1, ReloadInvariant, PTL

\* UpdateConfiguration and UpdateCPUPoints leave nothing of an edit they refuse, except where
\* a write of the edit itself failed.
THEOREM RefusalsLeaveNothing == Spec => []RefusedLeavesNothing
<1>1. CIInv => RefusedLeavesNothing
  BY Zenon DEF CIInv, TakenBack, RefusedLeavesNothing, Object
<1>. QED
  BY <1>1, ReloadInvariant, PTL

-----------------------------------------------------------------------------
(* What a reload may skip: the digests that the watcher recorded.          *)

Watches == [state : {"new", "none", "running", "stopping", "stopped"}, config : Nat, points : Nat, weights : Nat,
            io : BOOLEAN, hasio : BOOLEAN, partial : BOOLEAN]
SConfig == CCaptured \cup {"post"}
SPoints == SConfig \ {"points"}
SWeights == SPoints \ {"load", "weights"}

\* The content on disk, d, is not the recorded one, w; it has left the captured one, r.
Behind(d, w) == d # w \/ d = 0
Lost(d, r, w) == d # r /\ Behind(d, w)

\* A file still is what the reload has captured, or has left it and the recorded content for good.
Drifts(r, e, w, files, log) ==
    /\ r.at \in SConfig =>
         /\ r.config \in 1 .. Len(log)
         /\ \/ Lost(files["config"].data.id, r.config, w.config)
            \/ /\ files["config"].data.id = r.config
               /\ r.by = "editor" /\ e.at = "reloading" => files["config"].obj = e.rev.config
    /\ r.at \in SPoints =>
         /\ r.points \in 1 .. Len(log)
         /\ \/ Lost(files["points"].data.id, r.points, w.points)
            \/ /\ files["points"].data.id = r.points
               /\ r.by = "editor" /\ e.at = "reloading" => files["points"].obj = e.rev.points
         /\ r.by = "editor" /\ e.at = "reloading" =>
              e.rev.points \in 1 .. Len(log) /\ log[e.rev.points].data.id = r.points
    /\ r.at \in CWithPolicy =>
         \/ files["points"].obj = r.policy.obj \/ Lost(files["points"].data.id, r.points, w.points)
    /\ r.at \in SWeights => r.weights <= Len(log)
    /\ r.at \in SWeights /\ r.cand.io =>
         /\ r.weights \in 1 .. Len(log)
         /\ files["weights"].data.id = r.weights \/ Lost(files["weights"].data.id, r.weights, w.weights)
    /\ r.at \in CWithIOPolicy /\ r.cand.io =>
         \/ files["weights"].obj = r.iopolicy.obj \/ Lost(files["weights"].data.id, r.weights, w.weights)

\* Equal digests are equal contents.
Places(files, r, run, e, log) ==
    {files[f].data : f \in Files} \cup {r.cand, r.old, run.config, e.original, Absent}
        \cup {log[k].data : k \in 1 .. Len(log)}
Determined(places, log) ==
    /\ \A c \in places : c.id <= Len(log)
    /\ \A c, d \in places : c.id = d.id => c.ok = d.ok /\ c.io = d.io

\* Before NewWatcher nothing has happened to the daemon.
Untouched ==
    /\ rl = NoReload /\ waiting = {} /\ ed.at = "idle"
    /\ runtime.config = Plain(1) /\ runtime.points = 1 /\ runtime.weights = 1 /\ runtime.kernel = 1

Mis(files, w, io) ==
    \/ Behind(files["config"].data.id, w.config) \/ Behind(files["points"].data.id, w.points)
    \/ io /\ Behind(files["weights"].data.id, w.weights)
Settled(r, run, w) ==
    /\ w.config = InForce(r, run).id /\ w.points = run.points
    /\ r.at \notin {"apply", "publish"} => run.kernel = run.points

\* The recorded digests are those of the runtime, or a file has left the recorded content.
InStep(r, run, w, files) ==
    /\ (r.at = "post" /\ r.proc) \/ Settled(r, run, w) \/ Mis(files, w, InForce(r, run).io)
    /\ InForce(r, run).io => Behind(files["weights"].data.id, w.weights) \/ run.weights = w.weights

\* The candidate is what runs.
Adopted(r, run, files) ==
    /\ r.proc /\ run.config.id = r.config /\ run.config.io = r.cand.io
    /\ run.points = r.points /\ run.kernel = run.points
    /\ r.cand.io => files["weights"].data.id # r.weights \/ run.weights = r.weights

Running(r, run, w, e, files, log) ==
    /\ r.at \in {"apply", "publish"} => run.kernel = r.policy.data.id
    /\ ~e.clash =>
         /\ w.config \in 1 .. Len(log) /\ w.points <= Len(log) /\ w.weights <= Len(log)
         /\ ~(r.at = "post" /\ r.pub) => w.io = InForce(r, run).io
         /\ Drifts(r, e, w, files, log)
         /\ r.at = "post" /\ r.pub => Adopted(r, run, files)
         /\ ~w.partial => InStep(r, run, w, files)

SIInv ==
    /\ watch \in Watches /\ Determined(Places(file, rl, runtime, ed, wrote), wrote)
    /\ IF watch.state \in NoWatcher THEN Untouched ELSE Running(rl, runtime, watch, ed, file, wrote)

\* Contents that are the same to a reload.
Alike(c, d) == c.id = d.id /\ c.ok = d.ok /\ c.io = d.io

\* Contents that are in use stay as they are.
LEMMA SDetermined ==
    ASSUME NEW P, NEW Q, NEW log, NEW log2, Len(log) \in Nat, Len(log2) \in Nat, Len(log) <= Len(log2),
           Determined(P, log), \A c \in P : c.id \in Nat, \A c \in Q : \E d \in P : Alike(c, d)
    PROVE  Determined(Q, log2)
<1>1. ASSUME NEW c \in Q PROVE c.id <= Len(log2)
  <2>1. PICK d \in P : c.id = d.id
    BY Zenon DEF Alike
  <2>2. d.id <= Len(log) /\ d.id \in Nat
    BY Zenon DEF Determined
  <2>. QED
    BY <2>1, <2>2
<1>2. ASSUME NEW c \in Q, NEW d \in Q, c.id = d.id PROVE c.ok = d.ok /\ c.io = d.io
  BY <1>2 DEF Determined, Alike
<1>. QED
  BY <1>1, <1>2, Zenon DEF Determined

\* Only a replacement brings content that nothing has had.
LEMMA SDeterminedNew ==
    ASSUME NEW P, NEW Q, NEW x, NEW log, Len(log) \in Nat, Determined(P, log), \A c \in P : c.id \in Nat,
           x.id \in Nat, x.id > Len(log), \A c \in Q : c \in P \/ c = x,
           NEW log2, Len(log2) = x.id
    PROVE  Determined(Q, log2)
<1>1. ASSUME NEW c \in Q PROVE c.id <= Len(log2)
  <2>1. CASE c \in P
    <3>1. c.id <= Len(log) /\ c.id \in Nat
      BY <2>1, Zenon DEF Determined
    <3>. QED
      BY <3>1
  <2>. QED
    BY <2>1
<1>2. ASSUME NEW c \in Q, NEW d \in Q, c.id = d.id PROVE c.ok = d.ok /\ c.io = d.io
  <2>1. \A e \in P : e.id # x.id
    BY DEF Determined
  <2>. QED
    BY <1>2, <2>1, Zenon DEF Determined
<1>. QED
  BY <1>1, <1>2, Zenon DEF Determined

\* What the contents in use are.
LEMMA SPlaces ==
    ASSUME CIInv
    PROVE  /\ Places(file, rl, runtime, ed, wrote) \subseteq Contents
           /\ \A c \in Places(file, rl, runtime, ed, wrote) : c.id \in Nat
           /\ Len(wrote) \in Nat
<1>1. /\ file \in [Files -> Objects] /\ rl \in Reloads /\ runtime \in Runtimes /\ ed \in Edits /\ Len(wrote) \in Nat
  BY DEF CIInv, CTypes
<1>2. \A f \in Files : file[f].data \in Contents
  BY <1>1, Zenon DEF Objects
<1>3. rl.cand \in Contents /\ rl.old \in Contents /\ runtime.config \in Contents /\ ed.original \in Contents
  BY <1>1, Zenon DEF Reloads, Runtimes, Edits
<1>4. Absent \in Contents
  BY CStart, Zenon
<1>5. Places(file, rl, runtime, ed, wrote) \subseteq Contents
  <2>1. wrote \in Seq(Writes)
    BY Zenon DEF CIInv, CTypes
  <2>2. \A k \in 1 .. Len(wrote) : wrote[k] \in Writes
    BY <2>1
  <2>3. \A k \in 1 .. Len(wrote) : wrote[k].data \in Contents
    BY <2>2, Zenon DEF Writes
  <2>. QED
    BY <1>2, <1>3, <1>4, <2>3, Zenon DEF Places
<1>6. \A c \in Contents : c.id \in Nat
  BY CStart DEF Contents, Real
<1>. QED
  BY <1>1, <1>5, <1>6, Zenon

\* Nothing new is read while no file is replaced.
LEMMA SSame ==
    ASSUME CIInv, SIInv, UNCHANGED <<file, wrote>>,
           \E d \in Places(file, rl, runtime, ed, wrote) : Alike(rl'.cand, d),
           \E d \in Places(file, rl, runtime, ed, wrote) : Alike(rl'.old, d),
           \E d \in Places(file, rl, runtime, ed, wrote) : Alike(runtime'.config, d),
           \E d \in Places(file, rl, runtime, ed, wrote) : Alike(ed'.original, d)
    PROVE  Determined(Places(file', rl', runtime', ed', wrote'), wrote')
<1> DEFINE P == Places(file, rl, runtime, ed, wrote)
           Q == Places(file', rl', runtime', ed', wrote')
<1>1. Determined(P, wrote) /\ Len(wrote) \in Nat /\ Len(wrote') = Len(wrote) /\ Len(wrote) <= Len(wrote)
      /\ \A c \in P : c.id \in Nat
  BY SPlaces DEF SIInv
<1>2. Absent \in P /\ \A f \in Files : file[f].data \in P
  BY Zenon DEF Places
<1>3. \A c \in Q : \/ c \in P \/ c = rl'.cand \/ c = rl'.old \/ c = runtime'.config \/ c = ed'.original
  BY <1>2, Zenon DEF Places
<1>4. \A c \in P : Alike(c, c)
  BY Zenon DEF Alike
<1> HIDE DEF P, Q
<1>5. \A c \in Q : \E d \in P : Alike(c, d)
  BY <1>3, <1>4, Zenon DEF P
<1>6. Determined(Q, wrote')
  BY <1>1, <1>5, SDetermined, Zenon
<1>. QED
  BY <1>6, Zenon DEF Q

\* A reload has a watcher.
LEMMA SBusy ==
    ASSUME CIInv, SIInv, rl.at # "idle" \/ rl.by # "nobody" \/ waiting # {} \/ ed.at # "idle" \/ watch.state \notin NoWatcher
    PROVE  watch.state \notin NoWatcher /\ Running(rl, runtime, watch, ed, file, wrote)
  BY CStart, Zenon DEF SIInv, Untouched

\* A step of a reload that leaves the runtime and the records alone.
LEMMA SQuiet ==
    ASSUME CIInv, SIInv, rl.at \notin {"apply", "publish", "post"}, watch.state \notin NoWatcher,
           UNCHANGED <<file, wrote, ed, watch, runtime>>,
           rl'.at \notin {"apply", "publish"}, rl'.at = "post" => ~rl'.pub /\ ~rl'.proc,
           rl'.cand \in Places(file, rl, runtime, ed, wrote), rl'.old \in Places(file, rl, runtime, ed, wrote),
           ~ed.clash => Drifts(rl', ed, watch, file, wrote)
    PROVE  SIInv'
<1>1. Running(rl, runtime, watch, ed, file, wrote)
  BY SBusy, Zenon
<1>2. InForce(rl', runtime) = InForce(rl, runtime)
  BY Zenon DEF InForce
<1>3. Settled(rl, runtime, watch) => Settled(rl', runtime, watch)
  BY <1>2, Zenon DEF Settled
<1>4. Running(rl', runtime, watch, ed, file, wrote)
  BY <1>1, <1>2, <1>3, Zenon DEF Running, InStep
<1>5. Determined(Places(file', rl', runtime', ed', wrote'), wrote')
  <2>1. \A c : Alike(c, c)
    BY Zenon DEF Alike
  <2>2. runtime.config \in Places(file, rl, runtime, ed, wrote) /\ ed.original \in Places(file, rl, runtime, ed, wrote)
    BY Zenon DEF Places
  <2>. QED
    BY <2>1, <2>2, SSame, Zenon
<1>. QED
  BY <1>4, <1>5, Zenon DEF SIInv

\* The reload ends before it has applied anything.
LEMMA SReturns ==
    ASSUME CIInv, SIInv, rl.at \notin {"apply", "publish", "post"}, watch.state \notin NoWatcher,
           UNCHANGED <<file, wrote, ed>>, NEW result, Return(result)
    PROVE  SIInv'
<1>1. rl' = NoReload /\ UNCHANGED <<watch, runtime>>
  BY Zenon DEF Return
<1>2. rl'.at = "idle" /\ rl'.cand = Absent /\ rl'.old = Absent
  BY <1>1, Zenon DEF NoReload
<1>3. Absent \in Places(file, rl, runtime, ed, wrote)
  BY Zenon DEF Places
<1>4. Drifts(rl', ed, watch, file, wrote)
  BY <1>2, Zenon DEF Drifts, SConfig, SPoints, SWeights, CCaptured, CLoaded, CWithPolicy, CWithIOPolicy
<1>. QED
  BY <1>1, <1>2, <1>3, <1>4, SQuiet, Zenon

\* Capture and candidate.
LEMMA SCaptures ==
    ASSUME CIInv, SIInv, CaptureConfig \/ CapturePoints \/ LoadCandidate \/ CaptureWeights \/ Recheck
    PROVE  SIInv'
<1>0. /\ UNCHANGED <<file, wrote, ed>> /\ rl \in Reloads /\ file \in [Files -> Objects]
      /\ OnDisk(file, wrote) /\ Files = {"config", "points", "weights"}
  BY Zenon DEF CaptureConfig, CapturePoints, LoadCandidate, CaptureWeights, Recheck, At, disk,
         CIInv, CTypes, Files
<1>1. rl.at \in {"config", "points", "load", "weights", "recheck"} /\ rl.at \notin {"apply", "publish", "post"}
  BY Zenon DEF CaptureConfig, CapturePoints, LoadCandidate, CaptureWeights, Recheck, At
<1>2. watch.state \notin NoWatcher /\ Running(rl, runtime, watch, ed, file, wrote)
  BY <1>1, SBusy, Zenon
<1>3. ASSUME NEW result, Return(result)
      PROVE  SIInv'
  BY <1>0, <1>1, <1>2, <1>3, SReturns, Zenon
<1>4. /\ rl.cand \in Places(file, rl, runtime, ed, wrote) /\ rl.old \in Places(file, rl, runtime, ed, wrote)
      /\ file["config"].data \in Places(file, rl, runtime, ed, wrote)
  BY <1>0, Zenon DEF Places
<1>5. \A f \in Files : file[f].data # Absent => file[f].data.id \in 1 .. Len(wrote)
  <2>1. file \in [Files -> Objects] /\ OnDisk(file, wrote)
    BY <1>0, Zenon
  <2>2. \A f \in Files : /\ file[f].data \in Contents /\ file[f].data.id \in Nat
                         /\ file[f].data # Absent => file[f].data \in Real /\ file[f].data.id \in 1 .. Len(wrote)
    BY <2>1, CData, Zenon
  <2>. QED
    BY <2>2, SMTT(30)
<1>6. ~ed.clash => Drifts(rl, ed, watch, file, wrote)
  BY <1>2, Zenon DEF Running
<1>7. ASSUME Quiet, rl'.at \notin {"apply", "publish", "post"}, rl'.cand \in {rl.cand, file["config"].data},
             rl'.old = rl.old, ~ed.clash => Drifts(rl', ed, watch, file, wrote)
      PROVE  SIInv'
  BY <1>0, <1>1, <1>2, <1>4, <1>7, SQuiet, Zenon DEF Quiet
<1>8. CASE CaptureConfig
  <2>1. CASE /\ Quiet /\ rl' = [rl EXCEPT !.at = "points", !.config = file["config"].data.id]
             /\ file["config"].data # Absent
             /\ rl.by = "editor" /\ ed.at = "reloading" => file["config"].obj = ed.rev.config
    <3>1. /\ rl'.by = rl.by /\ rl'.at = "points" /\ rl'.config = file["config"].data.id
          /\ rl'.cand = rl.cand /\ rl'.old = rl.old
      BY <1>0, <2>1, Zenon DEF Reloads
    <3>2. rl'.config \in 1 .. Len(wrote)
      BY <1>0, <1>5, <2>1, <3>1, Zenon
    <3>3. Drifts(rl', ed, watch, file, wrote)
      BY <2>1, <3>1, <3>2, Zenon DEF Drifts, SConfig, SPoints, SWeights, CCaptured, CLoaded, CWithPolicy, CWithIOPolicy
    <3>. QED
      BY <1>7, <2>1, <3>1, <3>3, Zenon
  <2>. QED
    BY <1>3, <1>8, <2>1, Zenon DEF CaptureConfig, Cancelled, Bound, Data, Object
<1>9. CASE CapturePoints
  <2>1. CASE /\ Quiet /\ rl.at = "points" /\ rl' = [rl EXCEPT !.at = "load", !.points = file["points"].data.id]
             /\ file["points"].data # Absent
             /\ rl.by = "editor" /\ ed.at = "reloading" => file["points"].obj = ed.rev.points
    <3>1. /\ rl'.by = rl.by /\ rl'.at = "load" /\ rl'.config = rl.config
          /\ rl'.points = file["points"].data.id /\ rl'.cand = rl.cand /\ rl'.old = rl.old
      BY <1>0, <2>1, Zenon DEF Reloads
    <3>2. /\ rl'.points \in 1 .. Len(wrote) /\ file["points"].obj \in 1 .. Len(wrote)
          /\ wrote[file["points"].obj].data.id = rl'.points
      BY <1>0, <1>5, <2>1, <3>1, Zenon DEF OnDisk, Made
    <3>3. ~ed.clash => Drifts(rl', ed, watch, file, wrote)
      BY <1>6, <2>1, <3>1, <3>2, Zenon DEF Drifts, SConfig, SPoints, SWeights, CCaptured, CLoaded, CWithPolicy, CWithIOPolicy
    <3>. QED
      BY <1>7, <2>1, <3>1, <3>3, Zenon
  <2>. QED
    BY <1>3, <1>9, <2>1, Zenon DEF CapturePoints, At, Bound, Data, Object
<1>10. CASE LoadCandidate
  <2>1. CASE /\ Quiet /\ rl.at = "load" /\ rl' = [rl EXCEPT !.at = "weights", !.cand = file["config"].data]
    <3>1. /\ rl'.by = rl.by /\ rl'.at = "weights" /\ rl'.config = rl.config
          /\ rl'.points = rl.points /\ rl'.cand = file["config"].data /\ rl'.old = rl.old
      BY <1>0, <2>1, Zenon DEF Reloads
    <3>3. ~ed.clash => Drifts(rl', ed, watch, file, wrote)
      BY <1>6, <2>1, <3>1, Zenon DEF Drifts, SConfig, SPoints, SWeights, CCaptured, CLoaded, CWithPolicy, CWithIOPolicy
    <3>. QED
      BY <1>7, <2>1, <3>1, <3>3, Zenon
  <2>. QED
    BY <1>3, <1>10, <2>1, Zenon DEF LoadCandidate, At, Data
<1>11. CASE CaptureWeights
  <2> DEFINE weights == IF rl.cand.io THEN file["weights"].data.id ELSE 0
  <2>1. CASE /\ Quiet /\ rl.at = "weights" /\ rl' = [rl EXCEPT !.at = "recheck", !.weights = weights]
             /\ ~(rl.cand.io /\ file["weights"].data = Absent)
    <3>1. /\ rl'.by = rl.by /\ rl'.at = "recheck" /\ rl'.config = rl.config
          /\ rl'.points = rl.points /\ rl'.cand = rl.cand /\ rl'.old = rl.old /\ rl'.weights = weights
      BY <1>0, <2>1, Zenon DEF Reloads
    <3>2. rl.cand.io => rl'.weights = file["weights"].data.id /\ rl'.weights \in 1 .. Len(wrote)
      BY <1>0, <1>5, <2>1, <3>1, Zenon
    <3>4. rl'.weights <= Len(wrote)
      <4>1. Len(wrote) \in Nat /\ (~rl.cand.io => rl'.weights = 0)
        BY <3>1, CEdits, Zenon
      <4>. QED
        BY <3>2, <4>1
    <3>3. ~ed.clash => Drifts(rl', ed, watch, file, wrote)
      BY <1>6, <2>1, <3>1, <3>2, <3>4, Zenon DEF Drifts, SConfig, SPoints, SWeights, CCaptured, CLoaded, CWithPolicy, CWithIOPolicy
    <3>. QED
      BY <1>7, <2>1, <3>1, <3>3, Zenon
  <2>. QED
    BY <1>3, <1>11, <2>1, Zenon DEF CaptureWeights, At, Data
<1>12. CASE Recheck
  <2>1. CASE Quiet /\ rl.at = "recheck" /\ rl' = [rl EXCEPT !.at = "policy"]
    <3>1. /\ rl'.by = rl.by /\ rl'.at = "policy" /\ rl'.config = rl.config
          /\ rl'.points = rl.points /\ rl'.cand = rl.cand /\ rl'.old = rl.old /\ rl'.weights = rl.weights
      BY <1>0, <2>1, Zenon DEF Reloads
    <3>3. ~ed.clash => Drifts(rl', ed, watch, file, wrote)
      BY <1>6, <2>1, <3>1, Zenon DEF Drifts, SConfig, SPoints, SWeights, CCaptured, CLoaded, CWithPolicy, CWithIOPolicy
    <3>. QED
      BY <1>7, <2>1, <3>1, <3>3, Zenon
  <2>. QED
    BY <1>3, <1>12, <2>1, Zenon DEF Recheck, Cancelled, At, Data
<1>. QED
  BY <1>8, <1>9, <1>10, <1>11, <1>12, Zenon

\* The candidate is refused.
LEMMA SOutcome ==
    ASSUME CIInv, SIInv, rl.at \in SWeights, NEW pub, NEW proc, NEW err, Outcome(pub, proc, err)
    PROVE  /\ rl'.by = rl.by /\ rl'.at = "post" /\ rl'.config = rl.config /\ rl'.points = rl.points /\ rl'.cand = rl.cand
           /\ rl'.old = rl.old /\ rl'.weights = rl.weights /\ rl'.pub = pub /\ rl'.proc = proc
           /\ Drifts(rl, ed, watch, file, wrote) => Drifts(rl', ed, watch, file, wrote)
<1>1. rl' = [rl EXCEPT !.at = "post", !.pub = pub, !.proc = proc, !.err = err] /\ rl \in Reloads
  BY Zenon DEF Outcome, CIInv, CTypes
<1>2. /\ rl'.by = rl.by /\ rl'.at = "post" /\ rl'.config = rl.config /\ rl'.points = rl.points /\ rl'.cand = rl.cand
      /\ rl'.old = rl.old /\ rl'.weights = rl.weights /\ rl'.pub = pub /\ rl'.proc = proc
  BY <1>1, Zenon DEF Reloads
<1>3. Drifts(rl, ed, watch, file, wrote) => Drifts(rl', ed, watch, file, wrote)
  BY <1>2, Zenon DEF Drifts, SConfig, SPoints, SWeights, CCaptured, CLoaded, CWithPolicy, CWithIOPolicy
<1>. QED
  BY <1>2, <1>3, Zenon

\* The policies are loaded and confirmed.
LEMMA SLoads ==
    ASSUME CIInv, SIInv, LoadPolicy \/ Confirm \/ LoadIOPolicy
    PROVE  SIInv'
<1>0. UNCHANGED <<file, wrote, ed>> /\ rl \in Reloads
  BY Zenon DEF LoadPolicy, Confirm, LoadIOPolicy, At, disk, CIInv, CTypes
<1>1. rl.at \in {"policy", "confirm", "iopolicy"} /\ rl.at \notin {"apply", "publish", "post"} /\ rl.at \in SWeights
  BY Zenon DEF LoadPolicy, Confirm, LoadIOPolicy, At, SConfig, SPoints, SWeights, CCaptured, CLoaded
<1>2. watch.state \notin NoWatcher /\ Running(rl, runtime, watch, ed, file, wrote)
  BY <1>1, SBusy, Zenon
<1>3. ~ed.clash => Drifts(rl, ed, watch, file, wrote)
  BY <1>2, Zenon DEF Running
<1>4. rl.cand \in Places(file, rl, runtime, ed, wrote) /\ rl.old \in Places(file, rl, runtime, ed, wrote)
  BY Zenon DEF Places
<1>5. ASSUME NEW err, Refuse(err)
      PROVE  SIInv'
  <2>1. Outcome(FALSE, FALSE, err) /\ UNCHANGED <<watch, runtime>>
    BY <1>5, Zenon DEF Refuse, Quiet
  <2>2. /\ rl'.at = "post" /\ rl'.cand = rl.cand /\ rl'.old = rl.old /\ ~rl'.pub /\ ~rl'.proc
        /\ Drifts(rl, ed, watch, file, wrote) => Drifts(rl', ed, watch, file, wrote)
    BY <1>1, <2>1, SOutcome, Zenon
  <2>. QED
    BY <1>0, <1>1, <1>2, <1>3, <1>4, <2>1, <2>2, SQuiet, Zenon
<1>6. ASSUME Quiet, rl'.at \notin {"apply", "publish", "post"}, rl'.cand = rl.cand,
             rl'.old = rl.old, ~ed.clash => Drifts(rl', ed, watch, file, wrote)
      PROVE  SIInv'
  BY <1>0, <1>1, <1>2, <1>4, <1>6, SQuiet, Zenon DEF Quiet
<1>7. CASE LoadPolicy
  <2>1. CASE Quiet /\ rl.at = "policy" /\ rl' = [rl EXCEPT !.at = "confirm", !.policy = file["points"]]
    <3>1. /\ rl'.by = rl.by /\ rl'.at = "confirm" /\ rl'.config = rl.config /\ rl'.policy = file["points"]
          /\ rl'.points = rl.points /\ rl'.cand = rl.cand /\ rl'.old = rl.old /\ rl'.weights = rl.weights
      BY <1>0, <2>1, Zenon DEF Reloads
    <3>3. ~ed.clash => Drifts(rl', ed, watch, file, wrote)
      BY <1>3, <2>1, <3>1, Zenon DEF Drifts, SConfig, SPoints, SWeights, CCaptured, CLoaded, CWithPolicy, CWithIOPolicy
    <3>. QED
      BY <1>6, <2>1, <3>1, <3>3, Zenon
  <2>. QED
    BY <1>5, <1>7, <2>1, Zenon DEF LoadPolicy, At
<1>8. CASE Confirm
  <2>1. CASE Quiet /\ rl.at = "confirm" /\ rl' = [rl EXCEPT !.at = "iopolicy"]
    <3>1. /\ rl'.by = rl.by /\ rl'.at = "iopolicy" /\ rl'.config = rl.config /\ rl'.policy = rl.policy
          /\ rl'.points = rl.points /\ rl'.cand = rl.cand /\ rl'.old = rl.old /\ rl'.weights = rl.weights
      BY <1>0, <2>1, Zenon DEF Reloads
    <3>3. ~ed.clash => Drifts(rl', ed, watch, file, wrote)
      BY <1>3, <2>1, <3>1, Zenon DEF Drifts, SConfig, SPoints, SWeights, CCaptured, CLoaded, CWithPolicy, CWithIOPolicy
    <3>. QED
      BY <1>6, <2>1, <3>1, <3>3, Zenon
  <2>. QED
    BY <1>5, <1>8, <2>1, Zenon DEF Confirm, At
<1>9. CASE LoadIOPolicy
  <2> DEFINE o == IF rl.cand.io THEN file["weights"] ELSE Nothing
  <2>1. CASE Quiet /\ rl.at = "iopolicy" /\ rl' = [rl EXCEPT !.at = "reconcile", !.iopolicy = o]
    <3>1. /\ rl'.by = rl.by /\ rl'.at = "reconcile" /\ rl'.config = rl.config /\ rl'.policy = rl.policy
          /\ rl'.points = rl.points /\ rl'.cand = rl.cand /\ rl'.old = rl.old /\ rl'.weights = rl.weights
          /\ rl.cand.io => rl'.iopolicy = file["weights"]
      BY <1>0, <2>1, Zenon DEF Reloads
    <3>3. ~ed.clash => Drifts(rl', ed, watch, file, wrote)
      BY <1>3, <2>1, <3>1, Zenon DEF Drifts, SConfig, SPoints, SWeights, CCaptured, CLoaded, CWithPolicy, CWithIOPolicy
    <3>. QED
      BY <1>6, <2>1, <3>1, <3>3, Zenon
  <2>. QED
    BY <1>5, <1>9, <2>1, Zenon DEF LoadIOPolicy, At
<1>. QED
  BY <1>7, <1>8, <1>9, Zenon

\* The configuration that a reload holds to is the captured one.
LEMMA SConfigHolds ==
    ASSUME CIInv, rl.at \in CCaptured, Unchanged("config")
    PROVE  file["config"].data.id = rl.config
<1>0. OnDisk(file, wrote) /\ ReadOnce(rl, ed, file, wrote) /\ "config" \in Files
  BY Zenon DEF CIInv, Files
<1>1. CASE Bound
  <2>1. file["config"].obj = ed.rev.config
    BY <1>1, Zenon DEF Unchanged, Object
  <2>2. wrote[ed.rev.config].data.id = rl.config
    BY <1>0, <1>1, Zenon DEF ReadOnce, Bound
  <2>. QED
    BY <1>0, <2>1, <2>2, Zenon DEF OnDisk, Made
<1>2. CASE ~Bound
  BY <1>2, Zenon DEF Unchanged, Data
<1>. QED
  BY <1>1, <1>2, Zenon

\* A confirmation that fails has found a file that left the recorded content.
LEMMA SGone ==
    ASSUME CIInv, SIInv, rl.at \in {"apply", "publish"}, ~ed.clash, ~watch.partial, ~CompositeHolds
    PROVE  Mis(file, watch, InForce(rl, runtime).io)
<1> SUFFICES ASSUME ~Mis(file, watch, InForce(rl, runtime).io)
             PROVE  FALSE
  BY Zenon
<1>1. Running(rl, runtime, watch, ed, file, wrote) /\ rl.at # "post"
  BY SBusy, Zenon
<1>2. Drifts(rl, ed, watch, file, wrote) /\ InStep(rl, runtime, watch, file)
  BY <1>1, Zenon DEF Running
<1>3. Settled(rl, runtime, watch)
  BY <1>1, <1>2, Zenon DEF InStep
<1>4. /\ rl.at \in SConfig /\ rl.at \in SPoints /\ rl.at \in SWeights /\ rl.at \in CWithPolicy
      /\ rl.at \in CWithIOPolicy /\ rl.at \in CLoaded
  BY Zenon DEF SConfig, SPoints, SWeights, CCaptured, CLoaded, CWithPolicy, CWithIOPolicy
<1>5. ~Behind(file["config"].data.id, watch.config) /\ ~Behind(file["points"].data.id, watch.points)
  BY Zenon DEF Mis
<1>6. /\ file["config"].data.id = rl.config /\ (Bound => file["config"].obj = ed.rev.config)
      /\ file["points"].data.id = rl.points /\ (Bound => file["points"].obj = ed.rev.points)
      /\ file["points"].obj = rl.policy.obj
  BY <1>2, <1>4, <1>5, Zenon DEF Drifts, Lost, Bound
<1>7. rl.cand.id = rl.config
  BY <1>4, <1>6, Zenon DEF CIInv, ReadOnce
<1>8. InForce(rl, runtime).id = rl.cand.id
  BY <1>3, <1>5, <1>6, <1>7, Zenon DEF Settled, Behind
<1>9. InForce(rl, runtime).io = rl.cand.io
  <2>1. InForce(rl, runtime) \in Places(file, rl, runtime, ed, wrote) /\ rl.cand \in Places(file, rl, runtime, ed, wrote)
    BY Zenon DEF Places, InForce
  <2>. QED
    BY <1>8, <2>1, Zenon DEF SIInv, Determined
<1>10. rl.cand.io => file["weights"].data.id = rl.weights /\ file["weights"].obj = rl.iopolicy.obj
  BY <1>2, <1>4, <1>9, Zenon DEF Drifts, Lost, Mis
<1>11. PointsSourceHolds /\ (rl.cand.io => WeightsSourceHolds)
  BY <1>6, <1>10, Zenon DEF PointsSourceHolds, WeightsSourceHolds, Object
<1>12. Unchanged("config") /\ Unchanged("points") /\ Unchanged("weights")
  BY <1>6, <1>10, Zenon DEF Unchanged, Object, Data
<1>. QED
  BY <1>11, <1>12, Zenon DEF CompositeHolds, SourcesHold, Files

\* The old configuration is put back.
LEMMA SRestores ==
    ASSUME CIInv, SIInv, rl.at \in {"apply", "publish"}, ~CompositeHolds,
           NEW err, Outcome(FALSE, FALSE, err), NEW config, config = InForce(rl, runtime), Restore(config),
           UNCHANGED <<file, wrote, ed, watch>>
    PROVE  SIInv'
<1>0. rl.at \in SWeights /\ watch.state \notin NoWatcher /\ Running(rl, runtime, watch, ed, file, wrote) /\ runtime \in Runtimes
  BY SBusy, Zenon DEF SConfig, SPoints, SWeights, CCaptured, CLoaded, CIInv, CTypes
<1>1. /\ rl'.at = "post" /\ rl'.cand = rl.cand /\ rl'.old = rl.old /\ ~rl'.pub /\ ~rl'.proc
      /\ Drifts(rl, ed, watch, file, wrote) => Drifts(rl', ed, watch, file, wrote)
  BY <1>0, SOutcome, Zenon
<1>2. /\ runtime'.config = config /\ runtime'.points = runtime.points /\ runtime'.weights = runtime.weights
  BY <1>0, Zenon DEF Restore, Runtimes
<1>3. InForce(rl', runtime') = InForce(rl, runtime)
  BY <1>1, <1>2, Zenon DEF InForce
<1>4. ~ed.clash /\ ~watch.partial => InStep(rl', runtime', watch, file)
  <2> SUFFICES ASSUME ~ed.clash, ~watch.partial
               PROVE  InStep(rl', runtime', watch, file)
    BY Zenon
  <2>1. Mis(file, watch, InForce(rl, runtime).io)
    BY SGone, Zenon
  <2>2. InStep(rl, runtime, watch, file)
    BY <1>0, Zenon DEF Running
  <2>. QED
    BY <1>2, <1>3, <2>1, <2>2, Zenon DEF InStep
<1>5. Running(rl', runtime', watch, ed, file, wrote)
  BY <1>0, <1>1, <1>3, <1>4, Zenon DEF Running
<1>6. Determined(Places(file', rl', runtime', ed', wrote'), wrote')
  <2>1. \A c : Alike(c, c)
    BY Zenon DEF Alike
  <2>2. /\ rl.cand \in Places(file, rl, runtime, ed, wrote) /\ rl.old \in Places(file, rl, runtime, ed, wrote)
        /\ config \in Places(file, rl, runtime, ed, wrote) /\ ed.original \in Places(file, rl, runtime, ed, wrote)
    BY Zenon DEF Places, InForce
  <2>. QED
    BY <1>1, <1>2, <2>1, <2>2, SSame, Zenon
<1>. QED
  BY <1>0, <1>5, <1>6, Zenon DEF SIInv

\* A forward failure, or the units follow the candidate's map.
LEMMA SReconciles ==
    ASSUME CIInv, SIInv, Reconcile
    PROVE  SIInv'
<1>0. /\ UNCHANGED <<file, wrote, ed, watch>> /\ rl.at = "reconcile" /\ rl \in Reloads /\ runtime \in Runtimes
      /\ rl.at \in SWeights
  BY Zenon DEF Reconcile, At, disk, CIInv, CTypes, SConfig, SPoints, SWeights, CCaptured, CLoaded
<1>1. watch.state \notin NoWatcher /\ Running(rl, runtime, watch, ed, file, wrote)
  BY <1>0, SBusy, Zenon
<1>2. /\ rl.cand \in Places(file, rl, runtime, ed, wrote) /\ rl.old \in Places(file, rl, runtime, ed, wrote)
      /\ runtime.config \in Places(file, rl, runtime, ed, wrote) /\ ed.original \in Places(file, rl, runtime, ed, wrote)
      /\ \A c : Alike(c, c)
  BY Zenon DEF Places, Alike
<1>3. CASE /\ rl' = [rl EXCEPT !.at = "apply", !.old = runtime.config]
           /\ runtime' = [runtime EXCEPT !.kernel = rl.policy.data.id]
  <2>1. /\ runtime'.config = runtime.config /\ runtime'.points = runtime.points
        /\ runtime'.weights = runtime.weights /\ runtime'.kernel = rl.policy.data.id
    BY <1>0, <1>3, Zenon DEF Runtimes
  <2>2. /\ rl'.by = rl.by /\ rl'.at = "apply" /\ rl'.config = rl.config /\ rl'.points = rl.points /\ rl'.weights = rl.weights
        /\ rl'.cand = rl.cand /\ rl'.policy = rl.policy /\ rl'.iopolicy = rl.iopolicy
        /\ rl'.old = runtime.config
    BY <1>0, <1>3, Zenon DEF Reloads
  <2>3. InForce(rl', runtime') = InForce(rl, runtime)
    BY <1>0, <2>1, <2>2, Zenon DEF InForce
  <2>4. Drifts(rl, ed, watch, file, wrote) => Drifts(rl', ed, watch, file, wrote)
    BY <1>0, <2>2, Zenon DEF Drifts, SConfig, SPoints, SWeights, CCaptured, CLoaded, CWithPolicy, CWithIOPolicy
  <2>5. InStep(rl, runtime, watch, file) => InStep(rl', runtime', watch, file)
    BY <1>0, <2>1, <2>2, <2>3, Zenon DEF InStep, Settled
  <2>6. Running(rl', runtime', watch, ed, file, wrote)
    BY <1>0, <1>1, <2>1, <2>2, <2>3, <2>4, <2>5, Zenon DEF Running
  <2>7. Determined(Places(file', rl', runtime', ed', wrote'), wrote')
    BY <1>0, <1>2, <2>1, <2>2, SSame, Zenon
  <2>. QED
    BY <1>0, <1>1, <2>6, <2>7, Zenon DEF SIInv
<1>4. CASE Outcome(FALSE, FALSE, "failed") /\ UNCHANGED runtime
  <2>1. /\ rl'.at = "post" /\ rl'.cand = rl.cand /\ rl'.old = rl.old /\ ~rl'.pub /\ ~rl'.proc
        /\ Drifts(rl, ed, watch, file, wrote) => Drifts(rl', ed, watch, file, wrote)
    BY <1>0, <1>4, SOutcome, Zenon
  <2>2. ~ed.clash => Drifts(rl', ed, watch, file, wrote)
    BY <1>1, <2>1, Zenon DEF Running
  <2>. QED
    BY <1>0, <1>1, <1>2, <1>4, <2>1, <2>2, SQuiet, Zenon
<1>5. CASE Outcome(FALSE, TRUE, "failed") /\ runtime' = [runtime EXCEPT !.kernel = 0]
  <2>1. /\ rl'.at = "post" /\ rl'.cand = rl.cand /\ rl'.old = rl.old /\ ~rl'.pub /\ rl'.proc
        /\ Drifts(rl, ed, watch, file, wrote) => Drifts(rl', ed, watch, file, wrote)
    BY <1>0, <1>5, SOutcome, Zenon
  <2>2. /\ runtime'.config = runtime.config /\ runtime'.points = runtime.points
        /\ runtime'.weights = runtime.weights
    BY <1>0, <1>5, Zenon DEF Runtimes
  <2>3. InForce(rl', runtime') = InForce(rl, runtime)
    BY <1>0, <2>1, <2>2, Zenon DEF InForce
  <2>4. InStep(rl, runtime, watch, file) => InStep(rl', runtime', watch, file)
    BY <2>1, <2>2, <2>3, Zenon DEF InStep
  <2>5. Running(rl', runtime', watch, ed, file, wrote)
    BY <1>0, <1>1, <2>1, <2>3, <2>4, Zenon DEF Running
  <2>6. Determined(Places(file', rl', runtime', ed', wrote'), wrote')
    BY <1>0, <1>2, <2>1, <2>2, SSame, Zenon
  <2>. QED
    BY <1>0, <1>1, <2>5, <2>6, Zenon DEF SIInv
<1>. QED
  BY <1>3, <1>4, <1>5, Zenon DEF Reconcile

\* Every component takes the candidate.
LEMMA SApplies ==
    ASSUME CIInv, SIInv, Apply
    PROVE  SIInv'
<1>0. /\ UNCHANGED <<file, wrote, ed, watch>> /\ rl.at = "apply" /\ rl \in Reloads /\ runtime \in Runtimes
      /\ rl.old = runtime.config /\ rl.cand \in Real
  BY Zenon DEF Apply, At, disk, CIInv, CTypes, Applied, ReadOnce, CLoaded
<1>1. watch.state \notin NoWatcher /\ Running(rl, runtime, watch, ed, file, wrote)
  BY <1>0, SBusy, Zenon
<1>2. CASE ~CompositeHolds
  <2>1. Outcome(FALSE, FALSE, ConfirmError) /\ Restore(runtime.config)
    BY <1>2, Zenon DEF Apply
  <2>2. runtime.config = InForce(rl, runtime)
    BY <1>0, Zenon DEF InForce
  <2>. QED
    BY <1>0, <1>2, <2>1, <2>2, SRestores, Zenon
<1>3. CASE CompositeHolds
  <2> DEFINE config == ApplyReloadLifecycle(rl.cand)
  <2>1. /\ runtime' = [runtime EXCEPT !.config = config]
        /\ \E err : rl' = [rl EXCEPT !.at = "publish", !.err = err]
    BY <1>3, Zenon DEF Apply, ApplyEffectiveConfig
  <2>2. Alike(config, rl.cand)
    <3>1. config = [rl.cand EXCEPT !.frozen = runtime.config.frozen]
      BY Zenon DEF ApplyReloadLifecycle
    <3>. QED
      BY <1>0, <3>1, Zenon DEF Alike, Real
  <2> HIDE DEF config
  <2>3. /\ runtime'.config = config /\ runtime'.points = runtime.points
        /\ runtime'.weights = runtime.weights /\ runtime'.kernel = runtime.kernel
    BY <1>0, <2>1, Zenon DEF Runtimes
  <2>4. /\ rl'.by = rl.by /\ rl'.at = "publish" /\ rl'.config = rl.config /\ rl'.points = rl.points /\ rl'.weights = rl.weights
        /\ rl'.cand = rl.cand /\ rl'.policy = rl.policy /\ rl'.iopolicy = rl.iopolicy
        /\ rl'.old = rl.old
    BY <1>0, <2>1, Zenon DEF Reloads
  <2>5. InForce(rl', runtime') = InForce(rl, runtime)
    BY <1>0, <2>4, Zenon DEF InForce
  <2>6. Drifts(rl, ed, watch, file, wrote) => Drifts(rl', ed, watch, file, wrote)
    BY <1>0, <2>4, Zenon DEF Drifts, SConfig, SPoints, SWeights, CCaptured, CLoaded, CWithPolicy, CWithIOPolicy
  <2>7. InStep(rl, runtime, watch, file) => InStep(rl', runtime', watch, file)
    BY <1>0, <2>3, <2>4, <2>5, Zenon DEF InStep, Settled
  <2>8. Running(rl', runtime', watch, ed, file, wrote)
    BY <1>0, <1>1, <2>3, <2>4, <2>5, <2>6, <2>7, Zenon DEF Running
  <2>9. Determined(Places(file', rl', runtime', ed', wrote'), wrote')
    <3>1. /\ rl.cand \in Places(file, rl, runtime, ed, wrote) /\ rl.old \in Places(file, rl, runtime, ed, wrote)
          /\ ed.original \in Places(file, rl, runtime, ed, wrote) /\ \A c : Alike(c, c)
      BY Zenon DEF Places, Alike
    <3>. QED
      BY <1>0, <2>2, <2>3, <2>4, <3>1, SSame, Zenon
  <2>. QED
    BY <1>0, <1>1, <2>8, <2>9, Zenon DEF SIInv
<1>. QED
  BY <1>2, <1>3, Zenon

\* The candidate is published.
LEMMA SPublishes ==
    ASSUME CIInv, SIInv, Publish
    PROVE  SIInv'
<1>0. /\ UNCHANGED <<file, wrote, ed, watch>> /\ rl.at = "publish" /\ rl \in Reloads /\ runtime \in Runtimes
      /\ runtime.config.id = rl.cand.id /\ runtime.config.io = rl.cand.io /\ rl.at \in SWeights
      /\ {"config", "points", "weights"} \subseteq Files
  BY Zenon DEF Publish, At, disk, CIInv, CTypes, Applied, SConfig, SPoints, SWeights, CCaptured, CLoaded, Files
<1>1. watch.state \notin NoWatcher /\ Running(rl, runtime, watch, ed, file, wrote)
  BY <1>0, SBusy, Zenon
<1>2. CASE ~CompositeHolds
  <2>1. Outcome(FALSE, FALSE, ConfirmError) /\ Restore(rl.old)
    BY <1>2, Zenon DEF Publish
  <2>2. rl.old = InForce(rl, runtime)
    BY <1>0, Zenon DEF InForce
  <2>. QED
    BY <1>0, <1>2, <2>1, <2>2, SRestores, Zenon
<1>3. CASE CompositeHolds
  <2>1. /\ Outcome(TRUE, TRUE, rl.err)
        /\ runtime' = [runtime EXCEPT !.points = rl.policy.data.id, !.weights = rl.iopolicy.data.id]
    BY <1>3, Zenon DEF Publish
  <2>2. /\ rl'.at = "post" /\ rl'.config = rl.config /\ rl'.points = rl.points /\ rl'.cand = rl.cand
        /\ rl'.old = rl.old /\ rl'.weights = rl.weights /\ rl'.pub /\ rl'.proc
        /\ Drifts(rl, ed, watch, file, wrote) => Drifts(rl', ed, watch, file, wrote)
    BY <1>0, <2>1, SOutcome, Zenon
  <2>3. /\ runtime'.config = runtime.config /\ runtime'.points = rl.policy.data.id
        /\ runtime'.weights = rl.iopolicy.data.id /\ runtime'.kernel = runtime.kernel
    BY <1>0, <2>1, Zenon DEF Runtimes
  <2>4. /\ rl.at \in CCaptured /\ rl.at \in CLoaded /\ rl.at \in SPoints /\ rl.at \in CWithPolicy /\ rl.at \in CWithIOPolicy
    BY <1>0, Zenon DEF SConfig, SPoints, SWeights, CCaptured, CLoaded, CWithPolicy, CWithIOPolicy
  <2>5. file["config"].data.id = rl.config
    BY <1>0, <1>3, <2>4, SConfigHolds, Zenon DEF CompositeHolds, SourcesHold
  <2>6. rl.policy.data.id = file["points"].data.id
    <3>1. Made(wrote, rl.policy) /\ Object("points") = rl.policy.obj
      BY <1>3, <2>4, Zenon DEF CIInv, ReadOnce, CompositeHolds, PointsSourceHolds
    <3>. QED
      BY <1>0, <3>1, CSameObject, Zenon DEF Data
  <2>7. rl.cand.io => rl.iopolicy.data.id = file["weights"].data.id
    <3>1. rl.cand.io => Made(wrote, rl.iopolicy) /\ Object("weights") = rl.iopolicy.obj
      BY <1>3, <2>4, Zenon DEF CIInv, ReadOnce, CompositeHolds, WeightsSourceHolds
    <3>. QED
      BY <1>0, <3>1, CSameObject, Zenon DEF Data
  <2>8. InForce(rl', runtime') = runtime.config
    BY <2>2, <2>3, Zenon DEF InForce
  <2>9. ASSUME ~ed.clash PROVE Adopted(rl', runtime', file)
    <3>1. Drifts(rl, ed, watch, file, wrote) /\ runtime.kernel = rl.policy.data.id
      BY <1>0, <1>1, <2>9, Zenon DEF Running
    <3>2. rl.cand.id = rl.config
      BY <2>4, <2>5, <2>9, Zenon DEF CIInv, ReadOnce
    <3>3. file["points"].data.id = rl.points
      <4>1. Unchanged("points")
        BY <1>0, <1>3, Zenon DEF CompositeHolds, SourcesHold
      <4>2. CASE Bound
        <5>1. file["points"].obj = ed.rev.points
          BY <4>1, <4>2, Zenon DEF Unchanged, Object
        <5>2. wrote[ed.rev.points].data.id = rl.points
          BY <2>4, <3>1, <4>2, Zenon DEF Drifts, Bound
        <5>. QED
          BY <1>0, <5>1, <5>2, Zenon DEF CIInv, OnDisk, Made
      <4>3. CASE ~Bound
        BY <4>1, <4>3, Zenon DEF Unchanged, Data
      <4>. QED
        BY <4>2, <4>3, Zenon
    <3>. QED
      BY <1>0, <2>2, <2>3, <2>6, <2>7, <3>1, <3>2, <3>3, Zenon DEF Adopted
  <2>10. InStep(rl', runtime', watch, file)
    <3>1. runtime.config.io => Behind(file["weights"].data.id, watch.weights) \/ runtime'.weights = watch.weights
      BY <1>0, <2>3, <2>7, Zenon DEF Behind
    <3>. QED
      BY <2>2, <2>8, <3>1, Zenon DEF InStep
  <2>11. Running(rl', runtime', watch, ed, file, wrote)
    BY <1>1, <2>2, <2>9, <2>10, Zenon DEF Running
  <2>12. Determined(Places(file', rl', runtime', ed', wrote'), wrote')
    <3>1. /\ rl.cand \in Places(file, rl, runtime, ed, wrote) /\ rl.old \in Places(file, rl, runtime, ed, wrote)
          /\ runtime.config \in Places(file, rl, runtime, ed, wrote)
          /\ ed.original \in Places(file, rl, runtime, ed, wrote) /\ \A c : Alike(c, c)
      BY Zenon DEF Places, Alike
    <3>. QED
      BY <1>0, <2>2, <2>3, <3>1, SSame, Zenon
  <2>. QED
    BY <1>0, <1>1, <2>11, <2>12, Zenon DEF SIInv
<1>. QED
  BY <1>2, <1>3, Zenon

\* The digests that a reload records.
LEMMA SRecords ==
    ASSUME watch \in Watches, rl \in Reloads, NEW confirmed \in BOOLEAN, NEW w, w = Recorded(confirmed)
    PROVE  /\ w \in Watches /\ w.state = watch.state /\ w.io = (IF rl.pub THEN rl.cand.io ELSE watch.io)
           /\ ~confirmed \/ ~rl.proc =>
                /\ w.config = watch.config /\ w.points = watch.points /\ w.weights = watch.weights
                /\ w.partial = watch.partial
           /\ confirmed /\ rl.proc =>
                /\ w.config = rl.config /\ w.points = rl.points /\ w.partial = ~rl.pub
                /\ w.weights = IF w.io THEN rl.weights ELSE watch.weights
<1>1. /\ rl.cand.io \in BOOLEAN /\ rl.config \in Nat /\ rl.points \in Nat /\ rl.weights \in Nat /\ rl.pub \in BOOLEAN
  <2>1. rl.cand \in Contents
    BY Zenon DEF Reloads
  <2>2. rl.cand.io \in BOOLEAN
    <3>1. CASE rl.cand \in Real
      BY <3>1, Zenon DEF Real
    <3>2. CASE rl.cand = Absent
      BY <3>2 DEF Absent
    <3>. QED
      BY <2>1, <3>1, <3>2, Zenon DEF Contents
  <2>. QED
    BY <2>2, Zenon DEF Reloads
<1> DEFINE io == rl.cand.io
           v == IF rl.pub THEN [watch EXCEPT !.io = io, !.hasio = io] ELSE watch
<1>2. /\ v \in Watches /\ v.state = watch.state /\ v.io = (IF rl.pub THEN rl.cand.io ELSE watch.io)
      /\ v.config = watch.config /\ v.points = watch.points /\ v.weights = watch.weights
      /\ v.partial = watch.partial
  <2>1. CASE rl.pub
    <3>1. v = [watch EXCEPT !.io = io, !.hasio = io] /\ io \in BOOLEAN
      BY <1>1, <2>1, Zenon
    <3>2. io = rl.cand.io
      BY Zenon
    <3> HIDE DEF io, v
    <3>3. /\ v \in Watches /\ v.state = watch.state /\ v.io = io
          /\ v.config = watch.config /\ v.points = watch.points /\ v.weights = watch.weights
          /\ v.partial = watch.partial
      BY <3>1, Zenon DEF Watches
    <3>. QED
      BY <2>1, <3>2, <3>3, Zenon
  <2>2. CASE ~rl.pub
    BY <2>2, Zenon
  <2>. QED
    BY <2>1, <2>2, Zenon
<1>3. CASE ~confirmed \/ ~rl.proc
  <2>1. w = v
    BY <1>3, Zenon DEF Recorded
  <2>. QED
    BY <1>2, <1>3, <2>1, Zenon
<1>4. CASE confirmed /\ rl.proc
  <2> DEFINE partial == ~rl.pub
             weights == IF v.io THEN rl.weights ELSE v.weights
             hasio == v.hasio \/ v.io
  <2>1. w = [v EXCEPT !.config = rl.config, !.points = rl.points, !.partial = partial, !.weights = weights,
                      !.hasio = hasio]
    BY <1>4, Zenon DEF Recorded
  <2> HIDE DEF v
  <2>2. partial \in BOOLEAN /\ weights \in Nat /\ hasio \in BOOLEAN
    BY <1>1, <1>2, Zenon DEF Watches
  <2>3. weights = (IF v.io THEN rl.weights ELSE watch.weights) /\ partial = ~rl.pub
    BY <1>2, Zenon
  <2> HIDE DEF partial, weights, hasio
  <2>4. /\ w \in Watches /\ w.state = v.state /\ w.io = v.io /\ w.config = rl.config /\ w.points = rl.points
        /\ w.partial = partial /\ w.weights = weights
    BY <1>1, <1>2, <2>1, <2>2, Zenon DEF Watches
  <2>. QED
    BY <1>2, <1>4, <2>3, <2>4, Zenon
<1>. QED
  BY <1>3, <1>4, Zenon

\* Bookkeeping and answer.
LEMMA SFinishes ==
    ASSUME CIInv, SIInv, Finish
    PROVE  SIInv'
<1>0. /\ UNCHANGED <<file, wrote, ed, runtime>> /\ rl.at = "post" /\ rl' = NoReload /\ rl \in Reloads
      /\ watch \in Watches /\ Len(wrote) \in Nat
  BY DEF Finish, At, disk, CIInv, CTypes, SIInv
<1>1. watch.state \notin NoWatcher /\ Running(rl, runtime, watch, ed, file, wrote)
  BY <1>0, SBusy, Zenon
<1> DEFINE confirmed == IF Bound THEN SourcesHold ELSE file["config"].data.id = rl.config
<1>2. watch' = Recorded(confirmed)
  BY Zenon DEF Finish, Data
<1>3. confirmed \in BOOLEAN
  BY Zenon DEF SourcesHold
<1>4. ASSUME ~ed.clash, ~confirmed
      PROVE  Mis(file, watch, runtime.config.io)
  <2>1. Drifts(rl, ed, watch, file, wrote) /\ rl.at \in SConfig /\ rl.at \in SPoints
    BY <1>0, <1>1, <1>4, Zenon DEF Running, SConfig, SPoints
  <2>2. \/ Lost(file["config"].data.id, rl.config, watch.config)
        \/ Lost(file["points"].data.id, rl.points, watch.points)
    <3>1. CASE Bound
      <4>1. file["config"].obj # ed.rev.config \/ file["points"].obj # ed.rev.points
        BY <1>4, <3>1, Zenon DEF SourcesHold, Unchanged, Files, Object
      <4>. QED
        BY <2>1, <3>1, <4>1, Zenon DEF Drifts, Bound
    <3>2. CASE ~Bound
      BY <1>4, <2>1, <3>2, Zenon DEF Drifts
    <3>. QED
      BY <3>1, <3>2, Zenon
  <2>. QED
    BY <2>2, Zenon DEF Lost, Mis
<1> HIDE DEF confirmed
<1>5. /\ watch' \in Watches /\ watch'.state = watch.state /\ watch'.io = (IF rl.pub THEN rl.cand.io ELSE watch.io)
      /\ ~confirmed \/ ~rl.proc =>
                /\ watch'.config = watch.config /\ watch'.points = watch.points /\ watch'.weights = watch.weights
                /\ watch'.partial = watch.partial
      /\ confirmed /\ rl.proc =>
                /\ watch'.config = rl.config /\ watch'.points = rl.points /\ watch'.partial = ~rl.pub
                /\ watch'.weights = IF watch'.io THEN rl.weights ELSE watch.weights
  BY <1>0, <1>2, <1>3, SRecords, Zenon
<1>6. rl'.at = "idle" /\ rl'.cand = Absent /\ rl'.old = Absent
  BY <1>0, Zenon DEF NoReload
<1>7. InForce(rl, runtime) = runtime.config /\ InForce(rl', runtime) = runtime.config
  BY <1>0, <1>6, Zenon DEF InForce
<1>8. ASSUME ~ed.clash
      PROVE  /\ watch'.config \in 1 .. Len(wrote) /\ watch'.points <= Len(wrote) /\ watch'.weights <= Len(wrote)
             /\ watch'.io = runtime.config.io
             /\ Drifts(rl', ed, watch', file, wrote)
             /\ ~watch'.partial => InStep(rl', runtime, watch', file)
  <2>1. /\ watch.config \in 1 .. Len(wrote) /\ watch.points <= Len(wrote) /\ watch.weights <= Len(wrote)
        /\ ~rl.pub => watch.io = runtime.config.io
        /\ Drifts(rl, ed, watch, file, wrote)
        /\ rl.pub => Adopted(rl, runtime, file)
        /\ ~watch.partial => InStep(rl, runtime, watch, file)
    BY <1>0, <1>1, <1>7, <1>8, Zenon DEF Running
  <2>2. rl.config \in 1 .. Len(wrote) /\ rl.points \in 1 .. Len(wrote) /\ rl.weights <= Len(wrote)
    BY <1>0, <2>1, Zenon DEF Drifts, SConfig, SPoints, SWeights
  <2>3. watch'.config \in 1 .. Len(wrote) /\ watch'.points <= Len(wrote) /\ watch'.weights <= Len(wrote)
    <3>1. rl.points <= Len(wrote)
      BY <2>2
    <3>. QED
      BY <1>5, <2>1, <2>2, <3>1, Zenon
  <2>4. watch'.io = runtime.config.io
    BY <1>5, <2>1, Zenon DEF Adopted
  <2>5. Drifts(rl', ed, watch', file, wrote)
    BY <1>6, Zenon DEF Drifts, SConfig, SPoints, SWeights, CCaptured, CLoaded, CWithPolicy, CWithIOPolicy
  <2>6. ASSUME ~watch'.partial
        PROVE  InStep(rl', runtime, watch', file)
    <3>1. CASE confirmed /\ rl.proc
      <4>1. rl.pub /\ Adopted(rl, runtime, file)
        BY <1>5, <2>1, <2>6, <3>1, Zenon
      <4>2. Settled(rl', runtime, watch')
        BY <1>5, <1>6, <1>7, <3>1, <4>1, Zenon DEF Settled, Adopted
      <4>3. runtime.config.io => Behind(file["weights"].data.id, watch'.weights) \/ runtime.weights = watch'.weights
        BY <1>5, <3>1, <4>1, Zenon DEF Behind, Adopted
      <4>. QED
        BY <1>7, <4>2, <4>3, Zenon DEF InStep
    <3>2. CASE ~confirmed \/ ~rl.proc
      <4>1. InStep(rl, runtime, watch, file)
        BY <1>5, <2>1, <2>6, <3>2, Zenon
      <4>2. /\ watch'.config = watch.config /\ watch'.points = watch.points /\ watch'.weights = watch.weights
        BY <1>5, <3>2, Zenon
      <4>3. \/ ~rl.proc \/ Mis(file, watch, runtime.config.io)
        BY <1>4, <1>8, <3>2, Zenon
      <4>4. Settled(rl, runtime, watch) => Settled(rl', runtime, watch')
        BY <1>0, <1>6, <1>7, <4>2, Zenon DEF Settled
      <4>5. Mis(file, watch, runtime.config.io) => Mis(file, watch', runtime.config.io)
        BY <4>2, Zenon DEF Mis
      <4>. QED
        BY <1>7, <4>1, <4>2, <4>3, <4>4, <4>5, Zenon DEF InStep
    <3>. QED
      BY <1>3, <3>1, <3>2, Zenon
  <2>. QED
    BY <2>3, <2>4, <2>5, <2>6, Zenon
<1>9. Running(rl', runtime, watch', ed, file, wrote)
  BY <1>6, <1>7, <1>8, Zenon DEF Running
<1>10. Determined(Places(file', rl', runtime', ed', wrote'), wrote')
  <2>1. /\ Absent \in Places(file, rl, runtime, ed, wrote) /\ runtime.config \in Places(file, rl, runtime, ed, wrote)
        /\ ed.original \in Places(file, rl, runtime, ed, wrote) /\ \A c : Alike(c, c)
    BY Zenon DEF Places, Alike
  <2>. QED
    BY <1>0, <1>6, <2>1, SSame, Zenon
<1>. QED
  BY <1>0, <1>1, <1>5, <1>9, <1>10, Zenon DEF SIInv

\* The digests are the same.
LEMMA SSameDigests ==
    ASSUME NEW w, NEW v, w.config = v.config, w.points = v.points, w.weights = v.weights, w.io = v.io,
           w.partial = v.partial, Running(rl, runtime, w, ed, file, wrote)
    PROVE  Running(rl, runtime, v, ed, file, wrote)
<1>1. Drifts(rl, ed, w, file, wrote) => Drifts(rl, ed, v, file, wrote)
  BY Zenon DEF Drifts
<1>2. InStep(rl, runtime, w, file) => InStep(rl, runtime, v, file)
  BY Zenon DEF InStep, Settled, Mis
<1>. QED
  BY <1>1, <1>2, Zenon DEF Running

\* The watcher begins with the digests of the files, if it begins.
LEMMA SBegins ==
    ASSUME CIInv, SIInv, NewWatcher
    PROVE  SIInv'
<1>0. /\ UNCHANGED <<file, wrote, rl, runtime, ed, waiting>> /\ Untouched /\ watch \in Watches
      /\ Determined(Places(file, rl, runtime, ed, wrote), wrote)
  BY Zenon DEF NewWatcher, disk, SIInv, NoWatcher
<1>1. /\ rl = NoReload /\ runtime.config = Plain(1) /\ runtime.points = 1 /\ runtime.weights = 1
      /\ runtime.kernel = 1
  BY <1>0, Zenon DEF Untouched
<1>2. runtime.config.io = TRUE /\ runtime.config.id = 1
  BY <1>1 DEF Plain
<1>3. /\ \A f \in Files : file[f].data.id \in Nat /\ file[f].data.id <= Len(wrote)
      /\ file["config"].data # Absent => file["config"].data.id \in 1 .. Len(wrote)
      /\ {"config", "points", "weights"} \subseteq Files
  BY CEdits, CData, Zenon DEF OnDisk, Files
<1>4. CASE file["config"].data = Absent
  <2>1. watch' = [watch EXCEPT !.state = "none"]
    BY <1>4, Zenon DEF NewWatcher, Data
  <2>2. watch' \in Watches /\ watch'.state = "none"
    BY <1>0, <2>1, Zenon DEF Watches
  <2>. QED
    BY <1>0, <2>2, Zenon DEF SIInv, Untouched, NoWatcher
<1>5. CASE file["config"].data # Absent
  <2> DEFINE hasio == runtime.config.io /\ Data("weights") # Absent
             partial == Early
             config == file["config"].data.id
             points == file["points"].data.id
             weights == file["weights"].data.id
  <2>1. watch' = [watch EXCEPT !.state = "running", !.config = config, !.points = points, !.io = TRUE,
                               !.weights = weights, !.hasio = hasio, !.partial = partial]
    BY <1>2, <1>5, Zenon DEF NewWatcher, Data
  <2>2. /\ hasio \in BOOLEAN /\ partial \in BOOLEAN /\ config \in Nat /\ points \in Nat /\ weights \in Nat
        /\ config \in 1 .. Len(wrote) /\ points <= Len(wrote) /\ weights <= Len(wrote)
    BY <1>3, <1>5, Zenon DEF Early
  <2>3. ~partial => config = 1 /\ points = 1 /\ weights = 1
    BY <1>1, <1>2, Zenon DEF Early, Data
  <2> HIDE DEF hasio, partial, config, points, weights
  <2>4. /\ watch' \in Watches /\ watch'.state = "running" /\ watch'.config = config /\ watch'.points = points
        /\ watch'.io = TRUE /\ watch'.weights = weights /\ watch'.partial = partial
    BY <1>0, <2>1, <2>2, Zenon DEF Watches
  <2>5. rl.at = "idle" /\ InForce(rl, runtime) = runtime.config
    BY <1>1, CStart, Zenon DEF InForce
  <2>6. Drifts(rl, ed, watch', file, wrote)
    BY <2>5, Zenon DEF Drifts, SConfig, SPoints, SWeights, CCaptured, CLoaded, CWithPolicy, CWithIOPolicy
  <2>7. ~watch'.partial => InStep(rl, runtime, watch', file)
    BY <1>1, <1>2, <2>3, <2>4, <2>5, Zenon DEF InStep, Settled
  <2>8. Running(rl, runtime, watch', ed, file, wrote)
    BY <1>2, <2>2, <2>4, <2>5, <2>6, <2>7, Zenon DEF Running
  <2>. QED
    BY <1>0, <2>4, <2>8, Zenon DEF SIInv, NoWatcher
<1>. QED
  BY <1>4, <1>5, Zenon

\* The lifecycle and the gate.
LEMMA SGates ==
    ASSUME CIInv, SIInv, \/ NewWatcher \/ Stop \/ StopReturns \/ LoopRequest
                         \/ \E c \in Callers : GiveUp(c) \/ \E force \in BOOLEAN : TakeGate(c, force)
    PROVE  SIInv'
<1>1. ASSUME UNCHANGED <<file, wrote, rl, runtime, ed, watch>>, watch.state \notin NoWatcher
      PROVE  SIInv'
  BY <1>1, Zenon DEF SIInv
<1>2. CASE Stop \/ StopReturns
  <2>1. UNCHANGED <<file, wrote, rl, runtime, ed>> /\ watch.state \notin NoWatcher
    BY <1>2, Zenon DEF Stop, StopReturns, disk, NoWatcher
  <2>2. \E s \in {"stopping", "stopped"} : watch' = [watch EXCEPT !.state = s]
    BY <1>2, Zenon DEF Stop, StopReturns
  <2>3. /\ watch' \in Watches /\ watch'.state \notin NoWatcher /\ watch'.config = watch.config /\ watch'.points = watch.points
        /\ watch'.weights = watch.weights /\ watch'.io = watch.io /\ watch'.partial = watch.partial
    BY <2>2, Zenon DEF SIInv, Watches, NoWatcher
  <2>4. Running(rl, runtime, watch', ed, file, wrote)
    BY <2>1, <2>3, SBusy, SSameDigests, Zenon
  <2>. QED
    BY <2>1, <2>3, <2>4, Zenon DEF SIInv
<1>3. CASE LoopRequest
  <2>1. UNCHANGED <<file, wrote, rl, runtime, ed, watch>> /\ watch.state \notin NoWatcher
    BY <1>3, Zenon DEF LoopRequest, disk, NoWatcher
  <2>. QED
    BY <1>1, <2>1, Zenon
<1>4. ASSUME NEW c \in Callers, GiveUp(c)
      PROVE  SIInv'
  <2>1. UNCHANGED <<file, wrote, rl, runtime, ed, watch>> /\ waiting # {}
    BY <1>4, Zenon DEF GiveUp, disk
  <2>. QED
    BY <1>1, <2>1, SBusy, Zenon
<1>5. ASSUME NEW c \in Callers, NEW force \in BOOLEAN, TakeGate(c, force)
      PROVE  SIInv'
  <2>1. UNCHANGED <<file, wrote, runtime, ed, watch>> /\ waiting # {} /\ rl = NoReload
    BY <1>5, Zenon DEF TakeGate, disk
  <2>2. watch.state \notin NoWatcher
    BY <2>1, SBusy, Zenon
  <2>3. CASE UNCHANGED rl
    BY <1>1, <2>1, <2>2, <2>3, Zenon
  <2>4. CASE rl' = [NoReload EXCEPT !.by = c, !.at = "config", !.force = force]
    <3>1. rl'.at = "config" /\ rl'.cand = Absent /\ rl'.old = Absent
      BY <2>4, Zenon DEF NoReload
    <3>2. Drifts(rl', ed, watch, file, wrote)
      BY <3>1, Zenon DEF Drifts, SConfig, SPoints, SWeights, CCaptured, CLoaded, CWithPolicy, CWithIOPolicy
    <3>3. Absent \in Places(file, rl, runtime, ed, wrote) /\ rl.at = "idle"
      BY <2>1, CStart, Zenon DEF Places
    <3>. QED
      BY <2>1, <2>2, <3>1, <3>2, <3>3, SQuiet, Zenon
  <2>. QED
    BY <1>5, <2>3, <2>4, Zenon DEF TakeGate
<1>. QED
  BY <1>2, <1>3, <1>4, <1>5, SBegins, Zenon

\* The editor moves on without touching a file.
LEMMA SMoves ==
    ASSUME CIInv, SIInv, watch.state \notin NoWatcher, UNCHANGED <<file, wrote, rl, runtime, watch>>,
           ed.clash => ed'.clash, ed'.at = "reloading" => rl.by # "editor",
           ed'.original \in Places(file, rl, runtime, ed, wrote)
    PROVE  SIInv'
<1>1. Running(rl, runtime, watch, ed, file, wrote)
  BY SBusy, Zenon
<1>2. Drifts(rl, ed, watch, file, wrote) => Drifts(rl, ed', watch, file, wrote)
  BY Zenon DEF Drifts
<1>3. Running(rl, runtime, watch, ed', file, wrote)
  BY <1>1, <1>2, Zenon DEF Running
<1>4. Determined(Places(file', rl', runtime', ed', wrote'), wrote')
  <2>1. /\ rl.cand \in Places(file, rl, runtime, ed, wrote) /\ rl.old \in Places(file, rl, runtime, ed, wrote)
        /\ runtime.config \in Places(file, rl, runtime, ed, wrote) /\ \A c : Alike(c, c)
    BY Zenon DEF Places, Alike
  <2>. QED
    BY <2>1, SSame, Zenon
<1>. QED
  BY <1>3, <1>4, Zenon DEF SIInv

\* Nothing that a replacement brings was there before, unless it is taken back.
LEMMA SStored ==
    ASSUME CIInv, SIInv, UNCHANGED <<rl, runtime>>, NEW f \in Files, NEW c \in Contents,
           c.id = Number \/ c \in Places(file, rl, runtime, ed, wrote), c.id <= Number, Store(f, c),
           ed'.original = ed.original
    PROVE  Determined(Places(file', rl', runtime', ed', wrote'), wrote')
<1> DEFINE P == Places(file, rl, runtime, ed, wrote)
           Q == Places(file', rl', runtime', ed', wrote')
<1>1. /\ Determined(P, wrote) /\ Len(wrote) \in Nat /\ \A d \in P : d.id \in Nat
  BY SPlaces, Zenon DEF SIInv
<1>2. /\ Len(wrote') = Len(wrote) + 1 /\ file'[f].data = c /\ \A g \in Files \ {f} : file'[g] = file[g]
  <2>1. /\ Len(wrote') = Len(wrote) + 1 /\ file'[f] = [data |-> c, obj |-> Len(wrote) + 1]
        /\ \A g \in Files \ {f} : file'[g] = file[g]
    BY CEdits, CStores, Zenon
  <2>. QED
    BY <2>1
<1>8. \A k \in 1 .. Len(wrote') : (k \in 1 .. Len(wrote) /\ wrote'[k] = wrote[k]) \/ wrote'[k].data = c
  <2>1. /\ Len(wrote') = Len(wrote) + 1 /\ wrote'[Len(wrote) + 1].data = c
        /\ \A k \in 1 .. Len(wrote) : wrote'[k] = wrote[k]
    BY CEdits, CStores, Zenon
  <2>2. \A k \in 1 .. Len(wrote') : k \in 1 .. Len(wrote) \/ k = Len(wrote) + 1
    BY <1>1, <2>1
  <2>. QED
    BY <2>1, <2>2, Zenon
<1>3. Len(wrote) <= Len(wrote') /\ Len(wrote') \in Nat /\ Number = Len(wrote')
  BY <1>1, <1>2 DEF Number
<1>4. \A d \in Q : d \in P \/ d = c
  <2>1. \A g \in Files : file'[g].data \in P \/ file'[g].data = c
    BY <1>2, Zenon DEF Places
  <2>2. \A k \in 1 .. Len(wrote') : wrote'[k].data \in P \/ wrote'[k].data = c
    BY <1>8, Zenon DEF Places
  <2>3. {rl.cand, rl.old, runtime.config, ed.original, Absent} \subseteq P
    BY Zenon DEF Places
  <2> HIDE DEF P
  <2>. QED
    BY <2>1, <2>2, <2>3, Zenon DEF Places
<1>5. c \in P \/ (c.id \in Nat /\ c.id > Len(wrote) /\ Len(wrote') = c.id)
  <2>1. Number \in Nat /\ Number > Len(wrote)
    BY <1>1 DEF Number
  <2>. QED
    BY <1>3, <2>1, Zenon
<1>6. \A d \in P : Alike(d, d)
  BY Zenon DEF Alike
<1> HIDE DEF P, Q
<1>7. Determined(Q, wrote')
  <2>1. CASE c \in P
    <3>1. \A d \in Q : \E e \in P : Alike(d, e)
      BY <1>4, <1>6, <2>1, Zenon
    <3>. QED
      BY <1>1, <1>3, <3>1, SDetermined, Zenon
  <2>2. CASE c.id \in Nat /\ c.id > Len(wrote) /\ Len(wrote') = c.id
    BY <1>1, <1>4, <2>2, SDeterminedNew, Zenon
  <2>. QED
    BY <1>5, <2>1, <2>2, Zenon
<1>. QED
  BY <1>7, Zenon DEF Q

\* A file is as it was, or has left the recorded content, w, and the captured one, r.
Leaves(d, e, r, w, log) == e = d \/ (Behind(e.data.id, w) /\ (r \in 1 .. Len(log) => Lost(e.data.id, r, w)))

\* A file gets content that is neither recorded nor captured.
LEMMA SStores ==
    ASSUME CIInv, SIInv, watch.state \notin NoWatcher, UNCHANGED <<rl, runtime, watch>>, NEW f \in Files, NEW c \in Contents,
           c.id = Number \/ c \in Places(file, rl, runtime, ed, wrote), c.id <= Number,
           c.id = 0 \/ (c.id # watch[f] /\ (rl[f] \in 1 .. Len(wrote) => c.id # rl[f])),
           Store(f, c), ed'.original = ed.original, ed.clash => ed'.clash,
           ed'.at = "reloading" /\ rl.by = "editor" => ed.at = "reloading" /\ ed'.rev = ed.rev
    PROVE  SIInv'
<1>0. Number = Len(wrote) + 1 /\ Len(wrote) \in Nat
  BY CEdits DEF Number
<1>1. Determined(Places(file', rl', runtime', ed', wrote'), wrote')
  BY <1>0, SStored, Zenon
<1>2. /\ Len(wrote') = Len(wrote) + 1 /\ \A k \in 1 .. Len(wrote) : wrote'[k] = wrote[k]
      /\ file'[f] = [data |-> c, obj |-> Len(wrote) + 1]
      /\ \A g \in Files \ {f} : file'[g] = file[g]
  BY <1>0, CEdits, CStores, Zenon
<1>3. \A k \in 1 .. Len(wrote) : k \in 1 .. Len(wrote')
  BY <1>0, <1>2
<1>4. \A k \in Nat : k <= Len(wrote) => k <= Len(wrote')
  BY <1>0, <1>2
<1>5. Behind(c.id, watch[f])
  BY Zenon DEF Behind
<1>6. rl[f] \in 1 .. Len(wrote) => c.id # rl[f]
  <2>1. \A k \in 1 .. Len(wrote) : k # 0
    BY <1>0
  <2>. QED
    BY <2>1, Zenon
<1>7. file'[f].data = c
  BY <1>2
<1>8. \A g \in Files : Leaves(file[g], file'[g], rl[g], watch[g], wrote)
  <2> SUFFICES ASSUME NEW g \in Files
               PROVE  Leaves(file[g], file'[g], rl[g], watch[g], wrote)
    BY Zenon
  <2>1. CASE g = f
    BY <1>5, <1>6, <1>7, <2>1, Zenon DEF Leaves, Lost
  <2>2. CASE g # f
    BY <1>2, <2>2, Zenon DEF Leaves
  <2>. QED
    BY <2>1, <2>2, Zenon
<1>9. Running(rl, runtime, watch, ed, file, wrote) /\ watch.points \in Nat /\ watch.weights \in Nat /\ rl.weights \in Nat
  BY SBusy, Zenon DEF SIInv, Watches, CIInv, CTypes, Reloads
<1>10. {"config", "points", "weights"} \subseteq Files
  BY Zenon DEF Files
<1> DEFINE dc == file["config"]
           dp == file["points"]
           dw == file["weights"]
           ec == file'["config"]
           ep == file'["points"]
           ew == file'["weights"]
<1>11. /\ Leaves(dc, ec, rl.config, watch.config, wrote)
       /\ Leaves(dp, ep, rl.points, watch.points, wrote)
       /\ Leaves(dw, ew, rl.weights, watch.weights, wrote)
  BY <1>8, <1>10, Zenon
<1>12. ASSUME ~ed'.clash
       PROVE  /\ watch.config \in 1 .. Len(wrote') /\ watch.points <= Len(wrote') /\ watch.weights <= Len(wrote')
              /\ ~(rl.at = "post" /\ rl.pub) => watch.io = InForce(rl, runtime).io
              /\ Drifts(rl, ed', watch, file', wrote')
              /\ rl.at = "post" /\ rl.pub => Adopted(rl, runtime, file')
              /\ ~watch.partial => InStep(rl, runtime, watch, file')
  <2>1. /\ watch.config \in 1 .. Len(wrote) /\ watch.points <= Len(wrote) /\ watch.weights <= Len(wrote)
        /\ ~(rl.at = "post" /\ rl.pub) => watch.io = InForce(rl, runtime).io
        /\ Drifts(rl, ed, watch, file, wrote)
        /\ rl.at = "post" /\ rl.pub => Adopted(rl, runtime, file)
        /\ ~watch.partial => InStep(rl, runtime, watch, file)
    BY <1>9, <1>12, Zenon DEF Running
  <2>3. Drifts(rl, ed', watch, file', wrote')
    <3>1. rl.at \in SConfig =>
           /\ rl.config \in 1 .. Len(wrote')
           /\ \/ Lost(ec.data.id, rl.config, watch.config)
              \/ /\ ec.data.id = rl.config
                 /\ rl.by = "editor" /\ ed'.at = "reloading" => ec.obj = ed'.rev.config
      <4> SUFFICES ASSUME rl.at \in SConfig
                   PROVE  /\ rl.config \in 1 .. Len(wrote')
                          /\ \/ Lost(ec.data.id, rl.config, watch.config)
                             \/ /\ ec.data.id = rl.config
                                /\ rl.by = "editor" /\ ed'.at = "reloading" => ec.obj = ed'.rev.config
        BY Zenon
      <4>1. /\ rl.config \in 1 .. Len(wrote)
            /\ \/ Lost(dc.data.id, rl.config, watch.config)
               \/ /\ dc.data.id = rl.config
                  /\ rl.by = "editor" /\ ed.at = "reloading" => dc.obj = ed.rev.config
        BY <2>1, Zenon DEF Drifts
      <4> HIDE DEF dc, ec
      <4>. QED
        BY <1>3, <1>11, <4>1, Zenon DEF Leaves
    <3>2. rl.at \in SPoints =>
           /\ rl.points \in 1 .. Len(wrote')
           /\ \/ Lost(ep.data.id, rl.points, watch.points)
              \/ /\ ep.data.id = rl.points
                 /\ rl.by = "editor" /\ ed'.at = "reloading" => ep.obj = ed'.rev.points
           /\ rl.by = "editor" /\ ed'.at = "reloading" =>
                ed'.rev.points \in 1 .. Len(wrote') /\ wrote'[ed'.rev.points].data.id = rl.points
      <4> SUFFICES ASSUME rl.at \in SPoints
                   PROVE  /\ rl.points \in 1 .. Len(wrote')
                          /\ \/ Lost(ep.data.id, rl.points, watch.points)
                             \/ /\ ep.data.id = rl.points
                                /\ rl.by = "editor" /\ ed'.at = "reloading" => ep.obj = ed'.rev.points
                          /\ rl.by = "editor" /\ ed'.at = "reloading" =>
                               ed'.rev.points \in 1 .. Len(wrote') /\ wrote'[ed'.rev.points].data.id = rl.points
        BY Zenon
      <4>1. /\ rl.points \in 1 .. Len(wrote)
            /\ \/ Lost(dp.data.id, rl.points, watch.points)
               \/ /\ dp.data.id = rl.points
                  /\ rl.by = "editor" /\ ed.at = "reloading" => dp.obj = ed.rev.points
            /\ rl.by = "editor" /\ ed.at = "reloading" =>
                 ed.rev.points \in 1 .. Len(wrote) /\ wrote[ed.rev.points].data.id = rl.points
        BY <2>1, Zenon DEF Drifts
      <4> HIDE DEF dp, ep
      <4>2. ep = dp \/ Lost(ep.data.id, rl.points, watch.points)
        BY <1>11, <4>1, Zenon DEF Leaves
      <4>3. /\ rl.by = "editor" /\ ed'.at = "reloading" =>
                  ed.rev.points \in 1 .. Len(wrote') /\ wrote'[ed.rev.points].data.id = rl.points
        BY <1>2, <1>3, <4>1, Zenon
      <4>. QED
        BY <1>3, <4>1, <4>2, <4>3, Zenon
    <3>3. rl.at \in CWithPolicy =>
           \/ ep.obj = rl.policy.obj \/ Lost(ep.data.id, rl.points, watch.points)
      <4>1. rl.at \in CWithPolicy =>
              /\ rl.points \in 1 .. Len(wrote)
              /\ dp.obj = rl.policy.obj \/ Lost(dp.data.id, rl.points, watch.points)
        BY <2>1, Zenon DEF Drifts, SPoints, SConfig, CCaptured, CLoaded, CWithPolicy
      <4> HIDE DEF dp, ep
      <4>. QED
        BY <1>11, <4>1, Zenon DEF Leaves
    <3>4. rl.at \in SWeights => rl.weights <= Len(wrote')
      BY <1>4, <1>9, <2>1, Zenon DEF Drifts
    <3>5. rl.at \in SWeights /\ rl.cand.io =>
           /\ rl.weights \in 1 .. Len(wrote')
           /\ ew.data.id = rl.weights \/ Lost(ew.data.id, rl.weights, watch.weights)
      <4>1. rl.at \in SWeights /\ rl.cand.io =>
              /\ rl.weights \in 1 .. Len(wrote)
              /\ dw.data.id = rl.weights \/ Lost(dw.data.id, rl.weights, watch.weights)
        BY <2>1, Zenon DEF Drifts
      <4> HIDE DEF dw, ew
      <4>. QED
        BY <1>3, <1>11, <4>1, Zenon DEF Leaves
    <3>6. rl.at \in CWithIOPolicy /\ rl.cand.io =>
           \/ ew.obj = rl.iopolicy.obj \/ Lost(ew.data.id, rl.weights, watch.weights)
      <4>1. rl.at \in CWithIOPolicy /\ rl.cand.io =>
              /\ rl.weights \in 1 .. Len(wrote)
              /\ dw.obj = rl.iopolicy.obj \/ Lost(dw.data.id, rl.weights, watch.weights)
        BY <2>1, Zenon DEF Drifts, SWeights, SPoints, SConfig, CCaptured, CLoaded, CWithIOPolicy
      <4> HIDE DEF dw, ew
      <4>. QED
        BY <1>11, <4>1, Zenon DEF Leaves
    <3>. QED
      BY <3>1, <3>2, <3>3, <3>4, <3>5, <3>6, Zenon DEF Drifts
  <2>4. rl.at = "post" /\ rl.pub => Adopted(rl, runtime, file')
    <3>1. rl.at = "post" /\ rl.cand.io => rl.weights \in 1 .. Len(wrote)
      BY <2>1, Zenon DEF Drifts, SWeights, SPoints, SConfig
    <3>. QED
      BY <1>11, <2>1, <3>1, Zenon DEF Adopted, Leaves, Lost
  <2>5. ~watch.partial => InStep(rl, runtime, watch, file')
    <3>1. \A io : Mis(file, watch, io) => Mis(file', watch, io)
      BY <1>11, Zenon DEF Mis, Leaves
    <3>2. InStep(rl, runtime, watch, file) => InStep(rl, runtime, watch, file')
      BY <1>11, <3>1, Zenon DEF InStep, Leaves
    <3>. QED
      BY <2>1, <3>2, Zenon
  <2>. QED
    BY <1>3, <1>4, <1>9, <2>1, <2>3, <2>4, <2>5, Zenon
<1> HIDE DEF dc, dp, dw, ec, ep, ew
<1>13. Running(rl, runtime, watch, ed', file', wrote')
  BY <1>9, <1>12, Zenon DEF Running
<1>. QED
  BY <1>1, <1>13, Zenon DEF SIInv

\* A file gets recorded or captured content back.
LEMMA STakesBack ==
    ASSUME CIInv, SIInv, watch.state \notin NoWatcher, UNCHANGED <<rl, runtime, watch>>, NEW f \in Files, NEW c \in Contents,
           c.id = Number \/ c \in Places(file, rl, runtime, ed, wrote), c.id <= Number,
           Store(f, c), ed'.original = ed.original, ed.clash => ed'.clash, Unsettled => ed'.clash
    PROVE  SIInv'
<1>0. Len(wrote) \in Nat
  BY CEdits
<1>1. Determined(Places(file', rl', runtime', ed', wrote'), wrote')
  BY SStored, Zenon
<1>2. Len(wrote') = Len(wrote) + 1
  BY CEdits, CStores, Zenon
<1>4. Running(rl, runtime, watch, ed, file, wrote) /\ watch.points \in Nat /\ watch.weights \in Nat
  BY SBusy, Zenon DEF SIInv, Watches
<1>5. ASSUME ~ed'.clash
      PROVE  /\ watch.config \in 1 .. Len(wrote') /\ watch.points <= Len(wrote') /\ watch.weights <= Len(wrote')
             /\ ~(rl.at = "post" /\ rl.pub) => watch.io = InForce(rl, runtime).io
             /\ Drifts(rl, ed', watch, file', wrote')
             /\ rl.at = "post" /\ rl.pub => Adopted(rl, runtime, file')
             /\ ~watch.partial => InStep(rl, runtime, watch, file')
  <2>1. /\ watch.config \in 1 .. Len(wrote) /\ watch.points <= Len(wrote) /\ watch.weights <= Len(wrote)
        /\ ~(rl.at = "post" /\ rl.pub) => watch.io = InForce(rl, runtime).io
        /\ ~watch.partial => InStep(rl, runtime, watch, file)
    BY <1>4, <1>5, Zenon DEF Running
  <2>2. watch.config \in 1 .. Len(wrote') /\ watch.points <= Len(wrote') /\ watch.weights <= Len(wrote')
    BY <1>0, <1>2, <1>4, <2>1
  <2>3. rl = NoReload /\ watch.config = runtime.config.id /\ watch.points = runtime.points
        /\ runtime.kernel = runtime.points /\ (runtime.config.io => runtime.weights = watch.weights)
    BY <1>5, Zenon DEF Unsettled
  <2>4. rl.at = "idle" /\ InForce(rl, runtime) = runtime.config
    BY <2>3, CStart, Zenon DEF InForce
  <2>5. Drifts(rl, ed', watch, file', wrote')
    BY <2>4, Zenon DEF Drifts, SConfig, SPoints, SWeights, CCaptured, CLoaded, CWithPolicy, CWithIOPolicy
  <2>6. ~watch.partial => InStep(rl, runtime, watch, file')
    BY <2>3, <2>4, Zenon DEF InStep, Settled
  <2>. QED
    BY <2>1, <2>2, <2>4, <2>5, <2>6, Zenon
<1>6. Running(rl, runtime, watch, ed', file', wrote')
  BY <1>4, <1>5, Zenon DEF Running
<1>. QED
  BY <1>1, <1>6, Zenon DEF SIInv

\* Whatever is stored.
LEMMA SPuts ==
    ASSUME CIInv, SIInv, watch.state \notin NoWatcher, UNCHANGED <<rl, runtime, watch>>, NEW f \in Files, NEW c \in Contents,
           c.id = Number \/ c \in Places(file, rl, runtime, ed, wrote), c.id <= Number,
           Store(f, c), ed'.original = ed.original, ed.clash => ed'.clash, Clashes(f, c) => ed'.clash,
           ed'.at = "reloading" /\ rl.by = "editor" => ed.at = "reloading" /\ ed'.rev = ed.rev
    PROVE  SIInv'
<1>1. CASE c.id = 0 \/ (c.id # watch[f] /\ c.id # rl[f])
  BY <1>1, SStores, Zenon
<1>2. CASE c.id # 0 /\ (c.id = watch[f] \/ c.id = rl[f])
  <2>1. Unsettled => ed'.clash
    BY <1>2, CStart, Zenon DEF Clashes
  <2>. QED
    BY <2>1, STakesBack, Zenon
<1>. QED
  BY <1>1, <1>2, Zenon

\* A file is replaced from outside.
LEMMA SReplaces ==
    ASSUME CIInv, SIInv, NEW f \in Files, Replace(f)
    PROVE  SIInv'
<1>0. UNCHANGED <<rl, runtime, watch, waiting>>
  BY Zenon DEF Replace
<1>1. PICK c \in Fresh(f) \cup Earlier(f) \cup {Absent} :
          Store(f, c) /\ ed' = [ed EXCEPT !.clash = @ \/ Clashes(f, c)]
  BY Zenon DEF Replace
<1> DEFINE clash == ed.clash \/ Clashes(f, c)
<1>2. (ed.clash => clash) /\ (Clashes(f, c) => clash)
  BY Zenon
<1>3. ed' = [ed EXCEPT !.clash = clash]
  BY <1>1, Zenon
<1> HIDE DEF clash
<1>4. ed'.at = ed.at /\ ed'.original = ed.original /\ ed'.rev = ed.rev /\ ed'.clash = clash
  BY <1>3, CEdits, Zenon DEF Edits
<1>5. c \in Contents /\ c.id <= Number /\ (c.id = Number \/ c \in Places(file, rl, runtime, ed, wrote))
  <2>1. CASE c \in Fresh(f) \cup {Absent}
    <3>1. c.id = 0 => c = Absent
      BY <2>1, CFresh, Zenon DEF Contents, Real
    <3>. QED
      BY <2>1, <3>1, CFresh, Zenon DEF Places
  <2>2. CASE c \in Earlier(f)
    BY <2>2, CEarlier, Zenon DEF Places
  <2>. QED
    BY <2>1, <2>2, Zenon
<1>6. CASE watch.state \in NoWatcher
  <2>1. Untouched
    BY <1>6, Zenon DEF SIInv
  <2>2. Untouched'
    BY <1>0, <1>4, <2>1, Zenon DEF Untouched
  <2>3. Determined(Places(file', rl', runtime', ed', wrote'), wrote')
    BY <1>0, <1>1, <1>4, <1>5, SStored, Zenon
  <2>. QED
    BY <1>0, <1>6, <2>2, <2>3, Zenon DEF SIInv
<1>7. CASE watch.state \notin NoWatcher
  BY <1>0, <1>1, <1>2, <1>4, <1>5, <1>7, SPuts, Zenon
<1>. QED
  BY <1>6, <1>7, Zenon

\* The steps of the editor that leave the files alone.
LEMMA SEdits ==
    ASSUME CIInv, SIInv,
           \/ \E t \in {"config", "points"} : EdBegin(t)
           \/ EdCheck \/ EdRefuse \/ EdReadBack \/ EdPersisted \/ EdReload \/ EdReloaded \/ EdAgain \/ EdEnded
    PROVE  SIInv'
<1>0. UNCHANGED <<file, wrote, rl, runtime, watch>> /\ watch.state \notin NoWatcher
  <2>1. UNCHANGED <<file, wrote, rl, runtime, watch>>
    BY Zenon DEF EdBegin, EdCheck, EdRefuse, EdReadBack, EdPersisted, EdReload, EdReloaded, EdAgain, EdEnded,
           EdAt, Still, EdEnd, disk
  <2>2. ed.at # "idle" \/ watch.state \notin NoWatcher
    BY Zenon DEF EdBegin, EdCheck, EdRefuse, EdReadBack, EdPersisted, EdReload, EdReloaded, EdAgain, EdEnded, EdAt
  <2>. QED
    BY <2>1, <2>2, SBusy, Zenon
<1>1. /\ ed.original \in Places(file, rl, runtime, ed, wrote) /\ Absent \in Places(file, rl, runtime, ed, wrote)
      /\ \A f \in Files : file[f].data \in Places(file, rl, runtime, ed, wrote)
  BY Zenon DEF Places
<1>2. ASSUME NEW result \in Answers \cup {"refused", "pending_restart"}, NEW told \in Revisions,
             ed' = Ended(result, told)
      PROVE  SIInv'
  <2>1. ed'.at = "idle" /\ ed'.original = Absent /\ ed'.clash = ed.clash
    BY <1>2, CEdits, CEnded, Zenon
  <2>. QED
    BY <1>0, <1>1, <2>1, SMoves, Zenon
<1>3. ASSUME NEW step \in EdSteps, ed' = [ed EXCEPT !.at = step], step = "reloading" => rl.by # "editor"
      PROVE  SIInv'
  <2>1. ed'.at = step /\ ed'.original = ed.original /\ ed'.clash = ed.clash
    BY <1>3, CStepsOn, Zenon
  <2>. QED
    BY <1>0, <1>1, <1>3, <2>1, SMoves, Zenon
<1>4. NoEdit.told \in Revisions /\ Revision \in Revisions
  <2>1. "config" \in Files /\ "points" \in Files /\ file \in [Files -> Objects]
    BY CEdits, Zenon DEF Files
  <2>2. file["config"].obj \in Nat /\ file["points"].obj \in Nat
    BY <2>1, Zenon DEF Objects
  <2>3. Revision \in Revisions
    BY <2>2, Zenon DEF Revision, Object, Revisions
  <2>. QED
    BY <2>3, CStart, Zenon DEF Edits
<1>5. {"refused", "failed", "applied", "pending_restart"} \subseteq Answers \cup {"refused", "pending_restart"}
  BY Zenon DEF Answers
<1>6. {"write", "refuse", "withdraw", "reloading", "ended"} \subseteq EdSteps
  BY Zenon DEF EdSteps
<1>7. ASSUME NEW t \in {"config", "points"}, EdBegin(t)
      PROVE  SIInv'
  <2>1. ed' = [NoEdit EXCEPT !.at = "check", !.count = ed.count + 1, !.target = t, !.rev = Revision,
                            !.original = file[t].data, !.clash = ed.clash, !.unusable = ed.unusable]
    BY <1>7, Zenon DEF EdBegin, Data
  <2>2. ed'.at = "check" /\ ed'.original = file[t].data /\ ed'.clash = ed.clash
    BY <2>1, CStart, Zenon DEF Edits
  <2>3. file[t].data \in Places(file, rl, runtime, ed, wrote)
    BY <1>1, Zenon DEF Files
  <2>. QED
    BY <1>0, <2>2, <2>3, SMoves, Zenon
<1>8. CASE EdCheck
  <2>1. \E step \in {"write", "refuse"} : ed' = [ed EXCEPT !.at = step]
    BY <1>8, Zenon DEF EdCheck, EdStep
  <2>. QED
    BY <1>3, <1>6, <2>1, Zenon
<1>9. CASE EdRefuse \/ EdEnded
  <2>1. \E result \in {"refused", "failed"} : ed' = Ended(result, NoEdit.told)
    BY <1>9, Zenon DEF EdRefuse, EdEnded, EdEnd
  <2>. QED
    BY <1>2, <1>4, <1>5, <2>1, Zenon
<1>10. CASE EdReadBack \/ EdPersisted
  <2> DEFINE mine == [ed.rev EXCEPT ![ed.target] = ed.content]
             obj == Object(ed.target)
  <2>1. \/ EdStep("refuse") \/ EdStep("withdraw") \/ ed' = [ed EXCEPT !.at = "reload", !.rev = mine]
        \/ ed' = [ed EXCEPT !.at = "persisted", !.content = obj]
    BY <1>10, Zenon DEF EdReadBack, EdPersisted
  <2> HIDE DEF mine, obj
  <2>2. CASE ed' = [ed EXCEPT !.at = "reload", !.rev = mine] \/ ed' = [ed EXCEPT !.at = "persisted", !.content = obj]
    <3>1. ed'.at # "reloading" /\ ed'.original = ed.original /\ ed'.clash = ed.clash
      BY <2>2, CEdits, Zenon DEF Edits
    <3>. QED
      BY <1>0, <1>1, <3>1, SMoves, Zenon
  <2>3. CASE EdStep("refuse")
    BY <1>3, <1>6, <2>3, Zenon DEF EdStep
  <2>4. CASE EdStep("withdraw")
    BY <1>3, <1>6, <2>4, Zenon DEF EdStep
  <2>. QED
    BY <2>1, <2>2, <2>3, <2>4, Zenon
<1>11. CASE EdReload \/ EdAgain
  <2>1. rl.by # "editor" /\ \E step \in {"reloading", "ended"} : ed' = [ed EXCEPT !.at = step]
    BY <1>11, Zenon DEF EdReload, EdAgain, EdStep, Request
  <2>. QED
    BY <1>3, <1>6, <2>1, Zenon
<1>12. CASE EdReloaded
  <2>1. \/ ed' = [ed EXCEPT !.at = "undo", !.result = answer]
        \/ ed' = Ended("failed", NoEdit.told)
        \/ \E result \in {"applied", "pending_restart"} : ed' = Ended(result, Revision)
    BY <1>12, Zenon DEF EdReloaded, EdEnd
  <2>2. CASE ed' = [ed EXCEPT !.at = "undo", !.result = answer]
    <3>1. ed'.at = "undo" /\ ed'.original = ed.original /\ ed'.clash = ed.clash
      BY <2>2, CEdits, Zenon DEF Edits
    <3>. QED
      BY <1>0, <1>1, <3>1, SMoves, Zenon
  <2>. QED
    BY <1>2, <1>4, <1>5, <2>1, <2>2, Zenon
<1>. QED
  BY <1>7, <1>8, <1>9, <1>10, <1>11, <1>12, Zenon

\* The steps of the editor that may write.
LEMMA SWrites ==
    ASSUME CIInv, SIInv, EdWriteConfig \/ EdWritePoints \/ EdRestore \/ EdUndo
    PROVE  SIInv'
<1>0. UNCHANGED <<rl, runtime, watch>> /\ watch.state \notin NoWatcher
  <2>1. UNCHANGED <<rl, runtime, watch>> /\ ed.at # "idle"
    BY Zenon DEF EdWriteConfig, EdWritePoints, EdWrite, EdRestore, EdUndo, EdAt
  <2>. QED
    BY <2>1, SBusy, Zenon
<1>1. ed.original \in Places(file, rl, runtime, ed, wrote) /\ ed.target \in Files /\ ed.target \in {"config", "points"}
  BY CEdits, Zenon DEF Places
<1>2. ASSUME UNCHANGED <<file, wrote>>, ed'.at # "reloading", ed'.original = ed.original, ed.clash => ed'.clash
      PROVE  SIInv'
  BY <1>0, <1>1, <1>2, SMoves, Zenon
<1>3. ASSUME NEW patches, NEW unsynced \in {"restore", "refuse"}, EdWrite(patches, unsynced),
             \A c \in patches : c \in Real /\ c.id = Number
      PROVE  SIInv'
  <2>1. CASE EdStep("refuse") /\ UNCHANGED <<file, wrote>>
    <3>1. ed'.at = "refuse" /\ ed'.original = ed.original /\ ed'.clash = ed.clash
      BY <2>1, CEdits, Zenon DEF Edits, EdStep
    <3>. QED
      BY <1>2, <2>1, <3>1, Zenon
  <2>2. ASSUME NEW c \in patches, Store(ed.target, c), ed'.at # "reloading", ed'.original = ed.original,
               ed'.clash = ed.clash
        PROVE  SIInv'
    <3>1. c \in Contents /\ c.id = Number
      BY <1>3, Zenon DEF Contents
    <3>2. c.id <= Number /\ Number = Len(wrote) + 1 /\ Len(wrote) \in Nat
      BY <3>1, CEdits DEF Number
    <3>3. CASE ed.clash
      BY <1>0, <1>1, <2>2, <3>1, <3>2, <3>3, SPuts, Zenon
    <3>4. CASE ~ed.clash
      <4>1. watch.config \in 1 .. Len(wrote) /\ watch.points <= Len(wrote)
        BY <1>0, <3>4, SBusy, Zenon DEF Running
      <4>2. watch.config # Number /\ watch.points # Number /\ Number \notin 1 .. Len(wrote)
        BY <3>2, <4>1
      <4>3. c.id # watch[ed.target] /\ (rl[ed.target] \in 1 .. Len(wrote) => c.id # rl[ed.target])
        BY <1>1, <3>1, <4>2, Zenon
      <4>. QED
        BY <1>0, <1>1, <2>2, <3>1, <3>2, <4>3, SStores, Zenon
    <3>. QED
      BY <3>3, <3>4, Zenon
  <2>3. ASSUME NEW step \in {"readback", "restore", "refuse"}, NEW broken \in BOOLEAN,
               ed' = [ed EXCEPT !.at = step, !.content = Number, !.broken = broken]
        PROVE  ed'.at # "reloading" /\ ed'.original = ed.original /\ ed'.clash = ed.clash
    BY <2>3, CEdits, Zenon DEF Edits
  <2>4. ASSUME ed' = [ed EXCEPT !.at = "readback", !.content = Number]
        PROVE  ed'.at # "reloading" /\ ed'.original = ed.original /\ ed'.clash = ed.clash
    BY <2>4, CEdits, Zenon DEF Edits
  <2>5. "restore" \in {"readback", "restore", "refuse"} /\ "refuse" \in {"readback", "restore", "refuse"}
    BY Zenon
  <2>6. (\E c \in patches : Store(ed.target, c)) /\
          (ed' = [ed EXCEPT !.at = "readback", !.content = Number] \/
           ed' = [ed EXCEPT !.at = unsynced, !.content = Number, !.broken = TRUE]) => SIInv'
    BY <2>2, <2>3, <2>4, <2>5, Zenon
  <2>. QED
    BY <1>3, <2>1, <2>6, Zenon DEF EdWrite
<1>4. CASE EdWriteConfig \/ EdWritePoints
  <2>1. "restore" \in {"restore", "refuse"} /\ "refuse" \in {"restore", "refuse"}
    BY Zenon
  <2>2. CASE EdWriteConfig
    BY <1>3, <2>1, <2>2, CPatches, Zenon DEF EdWriteConfig
  <2>3. CASE EdWritePoints
    BY <1>3, <2>1, <2>3, CPatches, Zenon DEF EdWritePoints
  <2>. QED
    BY <1>4, <2>2, <2>3, Zenon
<1>5. ASSUME NEW clash, ed'.at # "reloading", ed'.original = ed.original, ed'.clash = clash, ed.clash => clash,
             file' # file /\ Clashes(ed.target, ed.original) => clash, TakeBack
      PROVE  SIInv'
  <2>1. CASE UNCHANGED disk
    BY <1>2, <1>5, <2>1, Zenon DEF disk
  <2>2. CASE Store(ed.target, ed.original)
    <3>1. file' # file /\ ed.original.id <= Number /\ ed.original \in Contents
      BY <2>2, CPutsBack, CEdits, Zenon
    <3>. QED
      BY <1>0, <1>1, <1>5, <2>2, <3>1, SPuts, Zenon
  <2>. QED
    BY <1>5, <2>1, <2>2, Zenon DEF TakeBack
<1>6. CASE EdRestore
  <2> DEFINE clash == ed.clash \/ (file' # file /\ Clashes(ed.target, ed.original))
             lost == ed.unusable \/ faults' # faults
  <2>1. (ed.clash => clash) /\ (file' # file /\ Clashes(ed.target, ed.original) => clash)
    BY Zenon
  <2>2. ed' = [ed EXCEPT !.at = "refuse", !.unusable = lost, !.clash = clash] /\ TakeBack
    BY <1>6, Zenon DEF EdRestore
  <2> HIDE DEF clash, lost
  <2>3. ed'.at = "refuse" /\ ed'.original = ed.original /\ ed'.clash = clash
    BY <2>2, CEdits, Zenon DEF Edits
  <2>. QED
    BY <1>5, <2>1, <2>2, <2>3, Zenon
<1>7. CASE EdUndo
  <2> DEFINE step == IF ed.at = "undo" /\ file' # file /\ faults' = faults THEN "again" ELSE "ended"
             result == IF ed.at = "withdraw" THEN "conflict" ELSE ed.result
             lost == ed.unusable \/ (ed.target = "config" /\ file' # file /\ ~(faults' = faults))
             broken == ed.broken \/ ~(faults' = faults)
             clash == ed.clash \/ (file' # file /\ Clashes(ed.target, ed.original))
  <2>1. ed' = [ed EXCEPT !.at = step, !.result = result, !.unusable = lost, !.broken = broken, !.clash = clash]
    BY <1>7, Zenon DEF EdUndo
  <2>2. step # "reloading" /\ (ed.clash => clash) /\ (file' # file /\ Clashes(ed.target, ed.original) => clash)
    BY Zenon
  <2> HIDE DEF step, result, lost, broken, clash
  <2>3. ed'.at = step /\ ed'.original = ed.original /\ ed'.clash = clash
    BY <2>1, CEdits, Zenon DEF Edits
  <2>4. CASE UNCHANGED disk
    BY <1>2, <2>2, <2>3, <2>4, Zenon DEF disk
  <2>5. CASE TakeBack
    BY <1>5, <2>2, <2>3, <2>5, Zenon
  <2>. QED
    BY <1>7, <2>4, <2>5, Zenon DEF EdUndo, Rollback
<1>. QED
  BY <1>4, <1>6, <1>7, Zenon

\* Nothing is recorded before NewWatcher.
LEMMA SInit ==
    ASSUME Init
    PROVE  SIInv
<1>1. watch \in Watches /\ watch.state = "new"
  BY Zenon DEF Init, Watches
<1>2. /\ rl = NoReload /\ waiting = {} /\ ed = NoEdit
      /\ file = [f \in Files |-> [data |-> Plain(1), obj |-> 1]]
      /\ wrote = <<[of |-> Files, data |-> Plain(1)]>>
      /\ runtime = [config |-> Plain(1), points |-> 1, weights |-> 1, kernel |-> 1]
  BY Zenon DEF Init
<1>3. Plain(1).id = 1 /\ Absent.id = 0
  BY Zenon DEF Plain, Absent
<1>4. /\ runtime.config = Plain(1) /\ runtime.points = 1 /\ runtime.weights = 1 /\ runtime.kernel = 1
  BY <1>2, Zenon
<1>5. \A f \in Files : file[f].data = Plain(1)
  BY <1>2, Zenon
<1>6. Untouched
  BY <1>2, <1>4, CStart, Zenon DEF Untouched
<1>7. Places(file, rl, runtime, ed, wrote) \subseteq {Plain(1), Absent}
  <2>1. rl.cand = Absent /\ rl.old = Absent /\ ed.original = Absent
    BY <1>2, CStart, Zenon DEF NoReload
  <2>2. \A k \in 1 .. Len(wrote) : wrote[k].data = Plain(1)
    BY <1>2
  <2>. QED
    BY <1>4, <1>5, <2>1, <2>2, Zenon DEF Places
<1>8. Len(wrote) = 1
  BY <1>2, Zenon
<1>9. Determined(Places(file, rl, runtime, ed, wrote), wrote)
  BY <1>3, <1>7, <1>8 DEF Determined
<1>. QED
  BY <1>1, <1>6, <1>9, Zenon DEF SIInv, NoWatcher

\* Every step keeps it.
LEMMA SStep ==
    ASSUME CIInv, SIInv, [Next]_vars
    PROVE  SIInv'
<1>1. CASE UNCHANGED vars
  <2>1. UNCHANGED <<file, wrote, watch, waiting, rl, runtime, ed>>
    BY <1>1, Zenon DEF vars
  <2>. QED
    BY <2>1, Zenon DEF SIInv, Untouched
<1>2. CASE Editor
  BY <1>2, SEdits, SWrites, Zenon
  DEF Editor, UpdateConfiguration, UpdateCPUPoints, FinishEditorPersistence
<1>3. CASE Reload
  BY <1>3, SCaptures, SLoads, SReconciles, SApplies, SPublishes, SFinishes, Zenon DEF Reload
<1>. QED
  BY <1>1, <1>2, <1>3, SGates, SReplaces, SEdits, Zenon DEF Next

\* What a reload skips as unchanged is what runs, however often the files were changed and
\* changed back, before NewWatcher has read them too: the recorded digests fall behind only
\* after a failed application (partial) or after recorded or captured content came back under
\* a reload or before what was recorded had been published (clash).
THEOREM SkippedContentRuns == Spec => []SkippedRuns
<1>1. Init => SIInv
  BY SInit, Zenon
<1>2. CIInv /\ SIInv /\ [Next]_vars => SIInv'
  BY SStep, Zenon
<1>3. CIInv /\ SIInv => SkippedRuns
  <2> SUFFICES ASSUME CIInv, SIInv, rl = NoReload, watch.state = "running", Loadable,
                      SameContent(Data("config").id, Data("points").id, Data("config").io, Data("weights").id),
                      ~watch.partial, ~ed.clash
               PROVE  Agrees
    BY Zenon DEF SkippedRuns
  <2>1. rl.at = "idle" /\ InForce(rl, runtime) = runtime.config
    BY CStart, Zenon DEF InForce
  <2>2. watch.io = runtime.config.io /\ InStep(rl, runtime, watch, file)
    BY <2>1, SBusy, Zenon DEF Running, NoWatcher
  <2>3. /\ file["config"].data.id = watch.config /\ file["points"].data.id = watch.points
        /\ watch.io = file["config"].data.io
        /\ file["config"].data.io => file["weights"].data.id = watch.weights
    BY Zenon DEF SameContent, Data
  <2>4. /\ file["config"].data \in Real /\ file["points"].data \in Real
        /\ file["config"].data.io => file["weights"].data \in Real
    <3>1. \A f \in Files : file[f].data # Absent => file[f].data \in Real
      <4>1. file \in [Files -> Objects] /\ OnDisk(file, wrote)
        BY CEdits, Zenon
      <4>2. \A f \in Files : /\ file[f].data \in Contents /\ file[f].data.id \in Nat
                             /\ file[f].data # Absent => file[f].data \in Real /\ file[f].data.id \in 1 .. Len(wrote)
        BY <4>1, CData, Zenon
      <4>. QED
        BY <4>2, SMTT(30)
    <3>2. /\ file["config"].data # Absent /\ file["points"].data # Absent
          /\ file["config"].data.io => file["weights"].data # Absent
      BY DEF Loadable, Data, Absent
    <3>. QED
      BY <3>1, <3>2, Zenon DEF Files
  <2>5. \A c \in Real : c.id # 0
    BY Zenon DEF Real
  <2>6. ~Mis(file, watch, runtime.config.io)
    BY <2>2, <2>3, <2>4, <2>5, Zenon DEF Mis, Behind
  <2>7. Settled(rl, runtime, watch)
    BY <2>1, <2>2, <2>6, Zenon DEF InStep
  <2>8. watch.config = runtime.config.id /\ watch.points = runtime.points /\ runtime.kernel = runtime.points
    BY <2>1, <2>7, Zenon DEF Settled
  <2>9. runtime.config.io => runtime.weights = file["weights"].data.id
    BY <2>1, <2>2, <2>3, <2>4, <2>5, Zenon DEF InStep, Behind
  <2>10. runtime.config = [file["config"].data EXCEPT !.frozen = runtime.config.frozen]
    <3> DEFINE c == runtime.config
               d == file["config"].data
    <3>1. c.ok = d.ok /\ c.io = d.io /\ c.id = d.id
      <4>1. c \in Places(file, rl, runtime, ed, wrote) /\ d \in Places(file, rl, runtime, ed, wrote)
        BY Zenon DEF Places, Files
      <4>. QED
        BY <2>3, <2>8, <4>1 DEF SIInv, Determined
    <3>2. d \in Real /\ c \in Contents
      BY <2>4, Zenon DEF CIInv, CTypes, Runtimes
    <3>3. d.id # 0
      BY <2>5, <3>2, Zenon
    <3> HIDE DEF c, d
    <3>4. c \in Real
      BY <3>1, <3>2, <3>3, CStart, Zenon DEF Contents
    <3>5. c = [d EXCEPT !.frozen = c.frozen]
      BY <3>1, <3>2, <3>4, Zenon DEF Real
    <3>. QED
      BY <3>5, Zenon DEF c, d
  <2>. QED
    BY <2>3, <2>8, <2>9, <2>10, Zenon DEF Agrees, Data
<1>. QED
  BY <1>1, <1>2, <1>3, ReloadInvariant, PTL DEF Spec
=============================================================================
