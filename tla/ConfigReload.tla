---------------------------- MODULE ConfigReload ----------------------------
(***************************************************************************)
(* Configuration reload: the watcher (config/watcher.go), the reloader     *)
(* (reloader/reloader.go) and the revision-bound editor (config/editor.go, *)
(* internal/cpupoints/editor.go, mcp/config_editor.go).                    *)
(*                                                                         *)
(* Three files are the sources of one composite epoch: the main            *)
(* configuration, the CPU Points map and, when the configuration selects   *)
(* weighted devices, the weighted-I/O map.  Anybody may replace a file     *)
(* between any two reads of it.  A reload captures the files, builds a     *)
(* candidate, confirms the files around every stage of its application and *)
(* records the digests it has processed; the watch loop, SIGHUP and the    *)
(* editor are serialised by one gate.                                      *)
(*                                                                         *)
(* A confirmation reads the files one after the other; it is one step here *)
(* because a file that still has its content at the last read had it at    *)
(* the first.                                                              *)
(***************************************************************************)
EXTENDS Naturals, Sequences

CONSTANTS
    MaxWrites,     \* replacements of a file from outside the daemon
    MaxFaults,     \* failed calls and writes
    MaxEdits,      \* editor requests
    MaxEvents      \* replacements, failures and edits together

VARIABLES
    file,      \* what each path holds: a content, and the object (inode) it is in
    writes,    \* replacements from outside so far
    wrote,     \* the replacements so far, the file and the content of each
    faults,
    watch,     \* Watcher: lifecycle and recorded digests
    waiting,   \* callers waiting at the reload gate
    answer,    \* what the editor's last reload returned
    rl,        \* the reload that holds the gate
    runtime,   \* what the daemon runs with
    ed         \* the editor request

disk == <<file, writes, wrote>>
vars == <<file, writes, wrote, faults, watch, waiting, answer, rl, runtime, ed>>

Files == {"config", "points", "weights"}
\* The watch loop and the signal handler queue at the gate one after the other.
Callers == {"daemon", "editor"}
NoWatcher == {"new", "none"}

\* A content: whether its parser and validator accept it and, for the main
\* configuration, whether it selects weighted devices and what it gives the
\* restart-required fields.
Content == [id : 0..MaxWrites + 2 * MaxEdits + 1, ok : BOOLEAN, io : BOOLEAN, frozen : 0..1]
Plain(id) == [id |-> id, ok |-> TRUE, io |-> TRUE, frozen |-> 0]
Absent == [id |-> 0, ok |-> FALSE, io |-> FALSE, frozen |-> 0]
Nothing == [data |-> Absent, obj |-> 0]

NoReload == [by |-> "nobody", at |-> "idle", force |-> FALSE, config |-> 0, points |-> 0,
             weights |-> 0, cand |-> Absent, policy |-> Nothing, iopolicy |-> Nothing,
             old |-> Absent, pub |-> FALSE, proc |-> FALSE, err |-> "none"]
NoEdit == [at |-> "idle", count |-> 0, target |-> "config", rev |-> [config |-> 0, points |-> 0],
           content |-> 0, original |-> Absent, result |-> "none", told |-> [config |-> 0, points |-> 0],
           clash |-> FALSE, broken |-> FALSE, unusable |-> FALSE]

Number == Len(wrote) + 1
Data(f) == file[f].data
Object(f) == file[f].obj
\* The composite revision: which objects the two edited sources are.
Revision == [config |-> Object("config"), points |-> Object("points")]

Quota == writes + faults + ed.count < MaxEvents
Fault == faults < MaxFaults /\ Quota /\ faults' = faults + 1

Init ==
    /\ file = [f \in Files |-> [data |-> Plain(1), obj |-> 1]]
    /\ writes = 0 /\ wrote = <<[of |-> Files, data |-> Plain(1)]>> /\ faults = 0
    /\ watch = [state |-> "new", config |-> 0, points |-> 0, weights |-> 0,
                io |-> FALSE, hasio |-> FALSE, partial |-> FALSE]
    /\ waiting = {} /\ answer = "none"
    /\ rl = NoReload
    /\ runtime = [config |-> Plain(1), points |-> 1, weights |-> 1, kernel |-> 1]
    /\ ed = NoEdit

-----------------------------------------------------------------------------
(* The file system.                                                        *)

Fresh(f) ==
    LET new == Plain(Number) IN
    {new, [new EXCEPT !.ok = FALSE]}
        \cup IF f = "config" THEN {[new EXCEPT !.io = FALSE], [new EXCEPT !.frozen = 1]} ELSE {}

\* Contents that somebody may put back.
Earlier(f) == {wrote[k].data : k \in {j \in 1..Len(wrote) : f \in wrote[j].of}}

Store(f, c) ==
    /\ wrote' = Append(wrote, [of |-> {f}, data |-> c])
    /\ file' = [file EXCEPT ![f] = [data |-> c, obj |-> Number]]

\* The recorded digests are not those of what runs, or a reload may be changing that.
Unsettled ==
    \/ rl # NoReload \/ watch.config # runtime.config.id \/ watch.points # runtime.points
    \/ runtime.kernel # runtime.points \/ (runtime.config.io /\ watch.weights # runtime.weights)

\* ed.clash remembers that at such a moment a file got back the content that the
\* watcher has recorded or that the reload has captured.
Clashes(f, c) == Unsettled /\ c # Absent /\ c.id \in {watch[f], rl[f]}

\* A package manager, an operator or a configuration tool replaces or removes a
\* file, or puts back what was there before.
Replace(f) ==
    /\ writes < MaxWrites /\ Quota /\ writes' = writes + 1
    /\ \E c \in Fresh(f) \cup Earlier(f) \cup {Absent} :
          /\ c # Data(f) /\ Store(f, c)
          /\ ed' = [ed EXCEPT !.clash = @ \/ Clashes(f, c)]
    /\ UNCHANGED <<faults, watch, waiting, answer, rl, runtime>>

-----------------------------------------------------------------------------
(* The watcher's lifecycle and its gate.                                   *)

\* The files are no longer what the daemon has loaded: partial remembers that the
\* recorded digests are of content that has not been published.
Early == \/ Data("config").id # runtime.config.id \/ Data("points").id # runtime.points
         \/ runtime.config.io /\ Data("weights").id # runtime.weights

\* The daemon goes on without a watcher when it cannot read the configuration.
NewWatcher ==
    /\ watch.state = "new"
    /\ watch' = IF Data("config") = Absent THEN [watch EXCEPT !.state = "none"]
                ELSE [watch EXCEPT !.state = "running", !.config = Data("config").id,
                                   !.points = Data("points").id, !.io = runtime.config.io,
                                   !.weights = IF runtime.config.io THEN Data("weights").id ELSE 0,
                                   !.hasio = runtime.config.io /\ Data("weights") # Absent,
                                   !.partial = Early]
    /\ UNCHANGED <<disk, faults, waiting, answer, rl, runtime, ed>>

Stop ==
    /\ watch.state = "running"
    /\ watch' = [watch EXCEPT !.state = "stopping"]
    /\ UNCHANGED <<disk, faults, waiting, answer, rl, runtime, ed>>

StopReturns ==
    /\ watch.state = "stopping" /\ waiting = {} /\ rl = NoReload
    /\ watch' = [watch EXCEPT !.state = "stopped"]
    /\ UNCHANGED <<disk, faults, waiting, answer, rl, runtime, ed>>

\* handleConfigChangeResult up to its select.
Tell(c, result) == answer' = IF c = "editor" THEN result ELSE answer

Request(c) ==
    /\ c \notin waiting /\ rl.by # c
    /\ IF watch.state = "running"
       THEN waiting' = waiting \cup {c} /\ Tell(c, "none")
       ELSE Tell(c, "stopped") /\ UNCHANGED waiting

\* The debounce timer of an event, the periodic check or SIGHUP.
LoopRequest ==
    /\ watch.state = "running"
    /\ Request("daemon")
    /\ UNCHANGED <<disk, faults, watch, rl, runtime, ed>>

\* The caller's context ends while it waits, or the watcher stops.
GiveUp(c) ==
    /\ c \in waiting
    /\ watch.state # "running" \/ c = "daemon" \/ ed.at = "reloading"
    /\ waiting' = waiting \ {c}
    /\ Tell(c, "stopped")
    /\ UNCHANGED <<disk, faults, watch, rl, runtime, ed>>

\* ForceReload, Reload and ReloadEditorRevision.
Forced(c) == IF c = "daemon" THEN BOOLEAN ELSE {ed.at = "reloading"}

\* Mutant: the token is not put back when the watcher has stopped meanwhile.
LeakyTakeGate(c, force) ==
    /\ c \in waiting /\ rl = NoReload /\ force \in Forced(c)
    /\ waiting' = waiting \ {c}
    /\ rl' = [NoReload EXCEPT !.by = c, !.force = force,
                              !.at = IF watch.state = "running" THEN "config" ELSE "leaked"]
    /\ UNCHANGED <<disk, faults, watch, answer, runtime, ed>>

TakeGate(c, force) ==
    /\ c \in waiting /\ rl = NoReload /\ force \in Forced(c)
    /\ waiting' = waiting \ {c}
    /\ IF watch.state = "running"
       THEN rl' = [NoReload EXCEPT !.by = c, !.at = "config", !.force = force] /\ UNCHANGED answer
       ELSE Tell(c, "stopped") /\ UNCHANGED rl
    /\ UNCHANGED <<disk, faults, watch, runtime, ed>>

-----------------------------------------------------------------------------
(* A reload: capture and candidate.                                        *)

Bound == rl.by = "editor" /\ ed.at = "reloading"

At(step) == rl.at = step /\ UNCHANGED <<disk, waiting, ed>>
Quiet == UNCHANGED <<faults, watch, answer, runtime>>

Return(result) ==
    /\ Tell(rl.by, result)
    /\ rl' = NoReload
    /\ UNCHANGED <<faults, watch, runtime>>

Cancelled == ((rl.by = "daemon" /\ rl.force) \/ Bound) /\ Return("stopped")

CaptureConfig ==
    /\ At("config")
    /\ \/ Cancelled
       \/ IF Data("config") = Absent THEN Return("failed")
          ELSE IF Bound /\ Object("config") # ed.rev.config THEN Return("conflict")
          ELSE rl' = [rl EXCEPT !.at = "points", !.config = Data("config").id] /\ Quiet

CapturePoints ==
    /\ At("points")
    /\ IF Data("points") = Absent THEN Return("failed")
       ELSE IF Bound /\ Object("points") # ed.rev.points THEN Return("conflict")
       ELSE rl' = [rl EXCEPT !.at = "load", !.points = Data("points").id] /\ Quiet

\* LoadAndValidate reads the file again.
LoadCandidate ==
    /\ At("load")
    /\ IF ~Data("config").ok THEN Return("failed")
       ELSE rl' = [rl EXCEPT !.at = "weights", !.cand = Data("config")] /\ Quiet

\* The digests captured by this reload against the recorded ones.
SameContent(config, points, io, weights) ==
    /\ config = watch.config /\ points = watch.points /\ watch.io = io
    /\ io => watch.hasio /\ weights = watch.weights

CaptureWeights ==
    /\ At("weights")
    /\ LET weights == IF rl.cand.io THEN Data("weights").id ELSE 0 IN
       IF rl.cand.io /\ Data("weights") = Absent THEN Return("failed")
       ELSE IF ~rl.force /\ SameContent(rl.config, rl.points, rl.cand.io, weights) THEN Return("same")
       ELSE rl' = [rl EXCEPT !.at = "recheck", !.weights = weights] /\ Quiet

Recheck ==
    /\ At("recheck")
    /\ \/ Cancelled
       \/ IF Data("config").id # rl.config THEN Return("failed")
          ELSE rl' = [rl EXCEPT !.at = "policy"] /\ Quiet

-----------------------------------------------------------------------------
(* A reload: OnConfigCandidate.                                            *)

\* Mutant: only the policy loaders confirm what they have read.
TrustingUnchanged(f) == TRUE

Unchanged(f) ==
    IF Bound THEN f = "weights" \/ Object(f) = ed.rev[f]
    ELSE (f = "weights" /\ ~rl.cand.io) \/ Data(f).id = rl[f]

\* confirmSources, and confirmCompositeSources with the objects the policies
\* were read from.
SourcesHold == \A f \in Files : Unchanged(f)
PointsSourceHolds == Object("points") = rl.policy.obj
WeightsSourceHolds == Object("weights") = rl.iopolicy.obj
CompositeHolds == SourcesHold /\ PointsSourceHolds /\ (rl.cand.io => WeightsSourceHolds)

Moved == \E f \in {"config", "points"} : Data(f) # Absent /\ Object(f) # ed.rev[f]
ConfirmError == IF Bound /\ Moved THEN "conflict" ELSE "failed"

Outcome(pub, proc, err) == rl' = [rl EXCEPT !.at = "post", !.pub = pub, !.proc = proc, !.err = err]
Refuse(err) == Outcome(FALSE, FALSE, err) /\ Quiet

LoadPolicy ==
    /\ At("policy")
    /\ IF ~Data("points").ok THEN Refuse("failed")
       ELSE rl' = [rl EXCEPT !.at = "confirm", !.policy = file["points"]] /\ Quiet

Confirm ==
    /\ At("confirm")
    /\ IF ~SourcesHold \/ ~PointsSourceHolds THEN Refuse(ConfirmError)
       ELSE rl' = [rl EXCEPT !.at = "iopolicy"] /\ Quiet

LoadIOPolicy ==
    /\ At("iopolicy")
    /\ IF rl.cand.io /\ ~Data("weights").ok THEN Refuse("failed")
       ELSE rl' = [rl EXCEPT !.at = "reconcile",
                             !.iopolicy = IF rl.cand.io THEN file["weights"] ELSE Nothing] /\ Quiet

\* Under the epoch barrier from here on.  A preflight refusal has changed
\* nothing; a later failure may have changed some units.
Reconcile ==
    /\ At("reconcile")
    /\ UNCHANGED <<watch, answer>>
    /\ \/ /\ rl' = [rl EXCEPT !.at = "apply", !.old = runtime.config]
          /\ runtime' = [runtime EXCEPT !.kernel = rl.policy.data.id]
          /\ UNCHANGED faults
       \/ Fault /\ Outcome(FALSE, FALSE, "failed") /\ UNCHANGED runtime
       \/ Fault /\ Outcome(FALSE, TRUE, "failed") /\ runtime' = [runtime EXCEPT !.kernel = 0]

\* ReconcileCPUPointsPolicy(old, old), whose own failure leaves units mixed.
Restore(config) ==
    \/ UNCHANGED faults /\ runtime' = [runtime EXCEPT !.config = config, !.kernel = runtime.points]
    \/ Fault /\ runtime' = [runtime EXCEPT !.config = config, !.kernel = 0]

\* The restart-required fields keep their effective value.
ApplyReloadLifecycle(cand) == [cand EXCEPT !.frozen = runtime.config.frozen]

\* Every component takes the configuration, whatever another one reports.
ApplyEffectiveConfig(cand) == runtime' = [runtime EXCEPT !.config = ApplyReloadLifecycle(cand)]

Apply ==
    /\ At("apply")
    /\ UNCHANGED <<watch, answer>>
    /\ IF ~CompositeHolds THEN Outcome(FALSE, FALSE, ConfirmError) /\ Restore(runtime.config)
       ELSE /\ ApplyEffectiveConfig(rl.cand)
            /\ \/ /\ UNCHANGED faults
                  /\ rl' = [rl EXCEPT !.at = "publish",
                        !.err = IF rl.cand # ApplyReloadLifecycle(rl.cand) THEN "restart" ELSE "none"]
               \/ Fault /\ rl' = [rl EXCEPT !.at = "publish", !.err = "failed"]

Publish ==
    /\ At("publish")
    /\ UNCHANGED <<watch, answer>>
    /\ IF ~CompositeHolds THEN Outcome(FALSE, FALSE, ConfirmError) /\ Restore(rl.old)
       ELSE /\ runtime' = [runtime EXCEPT !.points = rl.policy.data.id,
                                          !.weights = rl.iopolicy.data.id]
            /\ Outcome(TRUE, TRUE, rl.err) /\ UNCHANGED faults

-----------------------------------------------------------------------------
(* A reload: bookkeeping and answer.                                       *)

Answer(err) == CASE err = "none" -> "applied" [] err = "restart" -> "pending" [] OTHER -> err

\* Mutant: the digests are recorded without regard to the outcome.
EagerRecorded(confirmed) ==
    [watch EXCEPT !.config = rl.config, !.points = rl.points, !.weights = rl.weights,
                  !.io = rl.cand.io, !.hasio = rl.cand.io]

Recorded(confirmed) ==
    LET w == IF rl.pub THEN [watch EXCEPT !.io = rl.cand.io, !.hasio = rl.cand.io] ELSE watch IN
    IF ~confirmed \/ ~rl.proc THEN w
    ELSE [w EXCEPT !.config = rl.config, !.points = rl.points, !.partial = ~rl.pub,
                   !.weights = IF w.io THEN rl.weights ELSE @, !.hasio = @ \/ w.io]

Finish ==
    /\ At("post")
    /\ LET confirmed == IF Bound THEN SourcesHold ELSE Data("config").id = rl.config
           err == IF confirmed \/ rl.err = "conflict" THEN rl.err ELSE ConfirmError IN
       /\ watch' = Recorded(confirmed)
       /\ Tell(rl.by, Answer(err))
       /\ rl' = NoReload
    /\ UNCHANGED <<faults, runtime>>

Reload == \/ CaptureConfig \/ CapturePoints \/ LoadCandidate \/ CaptureWeights \/ Recheck
          \/ LoadPolicy \/ Confirm \/ LoadIOPolicy \/ Reconcile \/ Apply \/ Publish \/ Finish

-----------------------------------------------------------------------------
(* The editor.                                                             *)

EdAt(step) == ed.at = step /\ UNCHANGED <<watch, rl, runtime>>
Still == UNCHANGED <<disk, faults, waiting, answer>>
EdStep(step) == ed' = [ed EXCEPT !.at = step]
Ended(result, told) ==
    [NoEdit EXCEPT !.count = ed.count, !.target = ed.target, !.content = ed.content, !.result = result,
                   !.told = told, !.clash = ed.clash, !.broken = ed.broken, !.unusable = ed.unusable]
EdEnd(result) == ed' = Ended(result, NoEdit.told) /\ answer' = "none" /\ UNCHANGED <<disk, faults, waiting>>

\* BuildEditorSnapshot: both sources are read and validated.
Snapshot == Data("config").ok /\ Data("points").ok

\* beginEditorUpdate and the preparation of a valid patch of the snapshot the
\* client was given; a stale or an invalid one is refused without effect.
EdBegin(target) ==
    /\ EdAt("idle") /\ watch.state \notin NoWatcher /\ ed.count < MaxEdits /\ Quota /\ Snapshot
    /\ ed' = [NoEdit EXCEPT !.at = "check", !.count = ed.count + 1, !.target = target, !.rev = Revision,
                            !.original = Data(target), !.clash = ed.clash, !.unusable = ed.unusable]
    /\ Still

\* Persist and PersistCPUPointsEditorCandidate, under the persistence gate: the
\* sources are confirmed, the backup of the main configuration is written and
\* the sources are confirmed again.
MayPersist == ~ed.unusable /\ Revision = ed.rev

EdCheck ==
    /\ EdAt("check")
    /\ EdStep(IF MayPersist THEN "write" ELSE "refuse")
    /\ Still

\* revisionOrFailure reads the sources once more.
EdRefuse ==
    /\ EdAt("refuse")
    /\ EdEnd(IF Snapshot /\ Revision # ed.rev THEN "refused" ELSE "failed")

\* What a valid patch turns the source into; it is parsed and validated
\* before it is written.
Patched == [Plain(Number) EXCEPT !.io = ed.original.io, !.frozen = ed.original.frozen]
ConfigPatches == {Patched, [Patched EXCEPT !.frozen = 1]}
PointsPatches == {Patched}

\* An error before the rename leaves the file alone; one after it leaves the
\* new content, which Persist restores for the main configuration and leaves
\* for the map; broken remembers that a write of this request has failed.
EdWrite(patches, unsynced) ==
    /\ EdAt("write") /\ UNCHANGED <<writes, waiting, answer>>
    /\ \/ Fault /\ EdStep("refuse") /\ UNCHANGED <<file, wrote>>
       \/ \E c \in patches :
             /\ Store(ed.target, c)
             /\ \/ UNCHANGED faults /\ ed' = [ed EXCEPT !.at = "readback", !.content = Number]
                \/ Fault /\ ed' = [ed EXCEPT !.at = unsynced, !.content = Number, !.broken = TRUE]

EdWriteConfig == ed.target = "config" /\ EdWrite(ConfigPatches, "restore")
EdWritePoints == ed.target = "points" /\ EdWrite(PointsPatches, "refuse")

\* TakeBack writes the captured bytes again; its write may fail before or after
\* the rename.  A main configuration of which it cannot tell whether it is back
\* for good is not written any more (unusable).
TakeBack ==
    \/ Store(ed.target, ed.original) /\ UNCHANGED <<writes, faults>>
    \/ Store(ed.target, ed.original) /\ Fault /\ UNCHANGED writes
    \/ Fault /\ UNCHANGED disk

EdRestore ==
    /\ EdAt("restore") /\ TakeBack
    /\ ed' = [ed EXCEPT !.at = "refuse", !.unusable = @ \/ faults' # faults,
                        !.clash = @ \/ (file' # file /\ Clashes(ed.target, ed.original))]
    /\ UNCHANGED <<waiting, answer>>

\* The end of Persist compares contents; the object it finds is the one persisted.
EdReadBack ==
    /\ EdAt("readback")
    /\ IF Data(ed.target).id # ed.content THEN EdStep("refuse")
       ELSE ed' = [ed EXCEPT !.at = "persisted", !.content = Object(ed.target)]
    /\ Still

\* The first snapshot of finishEditorPersistence.
EdPersisted ==
    /\ EdAt("persisted")
    /\ LET mine == [ed.rev EXCEPT ![ed.target] = ed.content] IN
       IF ~Snapshot \/ Revision # mine THEN EdStep("withdraw")
       ELSE ed' = [ed EXCEPT !.at = "reload", !.rev = mine]
    /\ Still

EdReload ==
    /\ EdAt("reload") /\ Request("editor") /\ EdStep("reloading")
    /\ UNCHANGED <<disk, faults>>

\* A final snapshot names the revision the client is told has been applied.
EdReloaded ==
    /\ EdAt("reloading") /\ answer # "none"
    /\ IF answer \notin {"applied", "pending"}
       THEN ed' = [ed EXCEPT !.at = "undo", !.result = answer] /\ Still
       ELSE IF ~Snapshot THEN EdEnd("failed")
       ELSE /\ ed' = Ended(IF answer = "applied" THEN "applied" ELSE "pending_restart", Revision)
            /\ answer' = "none" /\ UNCHANGED <<disk, faults, waiting>>

\* Mutant: nothing is taken back.
NoRollback == UNCHANGED <<disk, faults>>

\* Rollback: the captured bytes, while the path still has the object written.
Rollback ==
    \/ Object(ed.target) # ed.content /\ UNCHANGED <<disk, faults>>
    \/ Object(ed.target) = ed.content /\ TakeBack

EdUndo ==
    /\ EdAt("undo") \/ EdAt("withdraw")
    /\ Rollback
    /\ LET back == file' # file
           sure == faults' = faults IN
       ed' = [ed EXCEPT !.at = IF @ = "undo" /\ back /\ sure THEN "again" ELSE "ended",
                        !.result = IF ed.at = "withdraw" THEN "conflict" ELSE @,
                        !.unusable = @ \/ (ed.target = "config" /\ back /\ ~sure),
                        !.broken = @ \/ ~sure,
                        !.clash = @ \/ (back /\ Clashes(ed.target, ed.original))]
    /\ UNCHANGED <<waiting, answer>>

\* After a successful rollback the restored content is reloaded.
EdAgain ==
    /\ EdAt("again") /\ Request("editor") /\ EdStep("ended")
    /\ UNCHANGED <<disk, faults>>

EdEnded ==
    /\ EdAt("ended") /\ "editor" \notin waiting /\ rl.by # "editor"
    /\ EdEnd(IF ed.result = "conflict" /\ Snapshot THEN "refused" ELSE "failed")

FinishEditorPersistence == EdPersisted \/ EdReload \/ EdReloaded \/ EdUndo \/ EdAgain \/ EdEnded
UpdateConfiguration == EdWriteConfig \/ EdRestore
UpdateCPUPoints == EdWritePoints
Editor == EdCheck \/ EdRefuse \/ EdReadBack \/ UpdateConfiguration \/ UpdateCPUPoints \/ FinishEditorPersistence

Next == \/ NewWatcher \/ Stop \/ StopReturns \/ LoopRequest
        \/ \E c \in Callers : GiveUp(c) \/ \E force \in BOOLEAN : TakeGate(c, force)
        \/ \E f \in Files : Replace(f)
        \/ \E t \in {"config", "points"} : EdBegin(t)
        \/ Reload \/ Editor

\* A goroutine that can run does, and the periodic check comes again and again;
\* a gate that is put back again and again is had by every waiter in the end
\* (receivers of a channel are served in order).
Fairness == /\ WF_vars(Reload) /\ WF_vars(Editor) /\ WF_vars(LoopRequest)
            /\ WF_vars(StopReturns \/ NewWatcher) /\ SF_vars(TakeGate("daemon", FALSE))
            /\ SF_vars(\E force \in BOOLEAN : TakeGate("editor", force))

Spec == Init /\ [][Next]_vars /\ Fairness
=============================================================================
