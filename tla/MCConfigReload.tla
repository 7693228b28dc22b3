--------------------------- MODULE MCConfigReload ---------------------------
(* Configuration reload for TLC.                                           *)
EXTENDS ConfigReload

\* What the daemon runs with is what the files say, the restart-required
\* fields apart.
Agrees ==
    /\ runtime.config = [Data("config") EXCEPT !.frozen = runtime.config.frozen]
    /\ runtime.points = Data("points").id /\ runtime.kernel = runtime.points
    /\ runtime.config.io => runtime.weights = Data("weights").id

Loadable == Data("config").ok /\ Data("points").ok /\ (Data("config").io => Data("weights").ok)

\* What f held after n replacements.
Held(f, n) ==
    wrote[CHOOSE k \in 1..n : f \in wrote[k].of /\ \A j \in k + 1..n : f \notin wrote[j].of].data.id

\* Whatever is published as one epoch was on disk at one instant: the
\* configuration, the CPU Points map and the weighted-I/O map of the runtime
\* were the contents of the three files at the same time, whatever was
\* replaced or put back while the candidate was built.  It is not stated after
\* a reload has had the content it captured put back under it (ed.clash).
OneInstant ==
    (rl.at # "publish" /\ ~ed.clash) =>
        \E n \in 1..Len(wrote) :
            /\ runtime.config.id = Held("config", n) /\ runtime.points = Held("points", n)
            /\ runtime.config.io => runtime.weights = Held("weights", n)

\* What the watcher takes for already processed is what runs: whenever an
\* unforced reload would find nothing new on disk, the daemon runs with the
\* files' content, however often the files were changed and changed back.  The
\* two exceptions are named in the state: partial, until a reload publishes,
\* after a failed application or an edit before NewWatcher; and clash.
SkippedRuns ==
    (/\ rl = NoReload /\ watch.state = "running" /\ Loadable
     /\ SameContent(Data("config").id, Data("points").id, Data("config").io, Data("weights").id))
        => Agrees \/ watch.partial \/ ed.clash

\* A refused edit leaves its file without the content it wrote: rollback runs
\* on every path that ends in a refusal, whatever failed in the reload, unless
\* a write of the request itself failed.
RefusedLeavesNothing ==
    (ed.at = "idle" /\ ed.result = "refused" /\ ed.content > 0 /\ ~ed.broken)
        => Object(ed.target) # ed.content

\* The same without exception, as checkConfigChange's comment has it ("compares
\* the current content with the last processed version"): what is on disk and
\* recorded as processed is what runs, after an editor's rollback too.
RollbackTakesBack ==
    (/\ rl = NoReload /\ watch.state = "running" /\ Loadable
     /\ SameContent(Data("config").id, Data("points").id, Data("config").io, Data("weights").id))
        => Agrees

\* When nobody changes the files any more, an edit in progress is answered, a
\* Stop in progress returns, and a watcher that still runs brings the daemon to
\* the files' content for good if they can be loaded at all.
Settles ==
    <>[](/\ ed.at = "idle" /\ watch.state \in {"none", "running", "stopped"}
         /\ (watch.state = "running" /\ Loadable) => Agrees \/ watch.partial \/ ed.clash)
=============================================================================
