------------------------------ MODULE Collector ------------------------------
(***************************************************************************)
(* The metrics collector: what a scan reports of one process to the        *)
(* decision and to the observation stream, the EMA that each stream keeps, *)
(* the cache observers share, and the configuration that changes under     *)
(* them (metrics/collector.go).                                            *)
(*                                                                         *)
(* Time is in half seconds, and counted as the ages of what depends on it. *)
(* A behaviour follows one counter of one process, its CPU or its I/O:     *)
(* they are sampled together and share no state.  The process may end, and *)
(* another may be given its PID.                                           *)
(***************************************************************************)
EXTENDS Integers, FiniteSets

CONSTANTS
    Observers,        \* callers of GetAllUserMetrics: metrics refresh, MCP
    Policies,         \* process exclusion lists
    TTL,              \* METRICS_CACHE_TTL
    MaxWork, MaxIncarnations, MaxUpdates   \* bounds of the model

VARIABLES
    counter,   \* the counter followed
    proc,      \* the process behind the PID: its start time (0: none) and work
    stream,    \* the sampling state of each stream
    cache,     \* the cached user metrics: their age and their configuration
    cfg,       \* the collector's configuration
    gate,      \* the holder of userMetricsScan: nobody or one caller
    caller,    \* what each caller is doing
    ghost      \* what the decision stream reported of the incarnation sampled

vars == <<counter, proc, stream, cache, cfg, gate, caller, ghost>>

None == [none |-> TRUE]
Streams == {"decision", "observation"}
Counters == {"cpu", "io"}
Callers == Observers \cup {"cycle"}
SampleInterval == 2       \* one second

\* newUserMetricsSamplingState.
NewSamplingState == [base |-> None, ema |-> {}]

Idle == [pc |-> "idle", since |-> 0, got |-> 0, stale |-> FALSE]
Uncounted == [start |-> 0, first |-> 0, sum |-> 0, age |-> 0, blind |-> FALSE]

Init ==
    /\ counter \in Counters
    /\ proc = [start |-> 1, work |-> 0, born |-> 1]
    /\ stream = [s \in Streams |-> NewSamplingState]
    /\ cache = None
    /\ cfg = [epoch |-> 1, policy |-> CHOOSE p \in Policies : TRUE]
    /\ gate = {}
    /\ caller = [c \in Callers |-> Idle]
    /\ ghost = Uncounted

-----------------------------------------------------------------------------
(* One sample of one counter. *)

Baseline(start) == [start |-> start, work |-> proc.work, age |-> 0]

\* monotonicCounterDelta.
Delta(b) == IF proc.work < b.work THEN 0 ELSE proc.work - b.work

\* updateProcessCPUSample: another start time drops the baseline, a start time
\* that could not be read (0) does not; a sample within a second of the last
\* one reports nothing and leaves the baseline where it is.
CPUSample(b, start) ==
    LET kept == IF b # None /\ b.start # 0 /\ start # 0 /\ b.start # start THEN None ELSE b
    IN IF kept = None THEN [base |-> Baseline(start), delta |-> 0]
       ELSE IF kept.age < SampleInterval THEN [base |-> kept, delta |-> 0]
       ELSE [base |-> Baseline(IF start # 0 THEN start ELSE kept.start), delta |-> Delta(kept)]

\* updateProcessIOSample, and discardProcessIOBaseline when the counters or the
\* start time cannot be read.
IOSample(b, start) ==
    IF start = 0 THEN [base |-> None, delta |-> 0]
    ELSE [base |-> Baseline(start),
          delta |-> IF b # None /\ b.start = start THEN Delta(b) ELSE 0]

\* What the reports add up to for the incarnation sampled, beside its work when
\* it was first sampled, the last sample that was a second after the one before,
\* and whether some start time could not be read.
Counted(g, b, r, start) ==
    LET unknown == start = 0 \/ (b # None /\ b.start = 0)
    IN IF g.start # proc.start
       THEN [start |-> proc.start, first |-> proc.work, sum |-> r.delta, age |-> 0, blind |-> unknown]
       ELSE [g EXCEPT !.sum = @ + r.delta, !.blind = @ \/ unknown,
                      !.age = IF @ >= SampleInterval THEN 0 ELSE @]

\* calculateEMA and calculateEnforceableEMA: the average remembers every policy
\* that selected a value it was built from.
EMA(st, policy) == st.ema \cup {policy}

\* The mutant samples both streams against one baseline.
SharedSampled(s, policy, start) ==
    LET b == stream["decision"].base
        r == IF counter = "cpu" THEN CPUSample(b, start) ELSE IOSample(b, start)
    IN /\ stream' = [t \in Streams |->
             [base |-> r.base, ema |-> IF t = s THEN EMA(stream[t], policy) ELSE stream[t].ema]]
       /\ ghost' = IF s = "decision" THEN Counted(ghost, b, r, start) ELSE ghost

\* The process as collectAllUserMetrics samples it.
Sampled(s, policy, start) ==
    LET b == stream[s].base
        r == IF counter = "cpu" THEN CPUSample(b, start) ELSE IOSample(b, start)
    IN /\ stream' = [stream EXCEPT ![s] = [base |-> r.base, ema |-> EMA(@, policy)]]
       /\ ghost' = IF s = "decision" THEN Counted(ghost, b, r, start) ELSE ghost

\* The process is seen but its times cannot be read: it counts for nothing in the
\* average and its baseline is kept.
Unread(s, policy) ==
    /\ stream' = [stream EXCEPT ![s].ema = EMA(stream[s], policy)]
    /\ UNCHANGED ghost

\* retainProcessBaselines and retainEMAUsers: a completed scan that did not see
\* the process forgets it, even when it was only unreadable.
Pruned(s) ==
    /\ stream' = [stream EXCEPT ![s] = NewSamplingState]
    /\ ghost' = IF s = "decision" THEN [ghost EXCEPT !.blind = TRUE] ELSE ghost

\* The start time of a process may be unreadable, and the process itself.
Processes(s, policy) ==
    \/ proc.start # 0 /\ \E start \in {proc.start, 0} : Sampled(s, policy, start)
    \/ proc.start # 0 /\ Unread(s, policy)
    \/ Pruned(s)

\* getAllUserMetricsFallback: the samples from a listing of /proc, or no metrics
\* when it cannot be read, and then nothing is forgotten.
Fallback(s, policy) == Processes(s, policy) \/ UNCHANGED <<stream, ghost>>

\* collectAllUserMetrics samples what gopsutil lists or, when that fails, falls
\* back: the fallback can do whatever the first listing does.
Scan(s, policy) == Fallback(s, policy)

-----------------------------------------------------------------------------
(* The cache. *)

\* getFromCache.
Cached == cache # None /\ cache.age <= TTL

\* setInCache: the few keys of the collector never reach MAX_CACHE_SIZE.
Stored(epoch) == cache' = [age |-> 0, epoch |-> epoch]

\* cleanupCacheAt.
CleanupCache ==
    /\ cache # None /\ ~Cached
    /\ cache' = None
    /\ UNCHANGED <<counter, proc, stream, cfg, gate, caller, ghost>>

-----------------------------------------------------------------------------
(* Callers. *)

Move(c, r) == caller' = [caller EXCEPT ![c] = r]

\* The caller returns with metrics collected under configuration epoch; they
\* are stale if it called under a later one.
Answered(epoch, since) == [Idle EXCEPT !.stale = epoch < since]

\* getAllUserMetricsCached: a hit, or a wait for the scan gate.
Observe(o) ==
    /\ caller[o].pc = "idle"
    /\ Move(o, IF Cached THEN Answered(cache.epoch, cfg.epoch)
               ELSE [Idle EXCEPT !.pc = "wait", !.since = cfg.epoch])
    /\ UNCHANGED <<counter, proc, stream, cache, cfg, gate, ghost>>

\* Another caller may have filled the cache while this one waited.
ObserveEnter(o) ==
    /\ caller[o].pc = "wait" /\ gate = {}
    /\ IF Cached
       THEN Move(o, Answered(cache.epoch, caller[o].since)) /\ UNCHANGED gate
       ELSE Move(o, [caller[o] EXCEPT !.pc = "scan", !.got = cfg.epoch]) /\ gate' = {o}
    /\ UNCHANGED <<counter, proc, stream, cache, cfg, ghost>>

ObserveScan(o) ==
    /\ caller[o].pc = "scan"
    /\ Scan("observation", cfg.policy)
    /\ Stored(caller[o].got)
    /\ Move(o, Answered(caller[o].got, caller[o].since)) /\ gate' = {}
    /\ UNCHANGED <<counter, proc, cfg>>

\* GetAllUserMetricsForDecision: never cached, serialized with every scan.
DecisionEnter ==
    /\ caller["cycle"].pc = "idle" /\ gate = {}
    /\ gate' = {"cycle"} /\ Move("cycle", [Idle EXCEPT !.pc = "scan"])
    /\ UNCHANGED <<counter, proc, stream, cache, cfg, ghost>>

DecisionScan ==
    /\ caller["cycle"].pc = "scan"
    /\ Scan("decision", cfg.policy)
    /\ gate' = {} /\ Move("cycle", Idle)
    /\ UNCHANGED <<counter, proc, cache, cfg>>

\* resetEnforceableEMA of both streams.
ResetEnforceableEMA == stream' = [s \in Streams |-> [stream[s] EXCEPT !.ema = {}]]

\* The mutant does not wait for a scan in progress.
UngatedUpdateConfig(p) ==
    /\ cfg.epoch <= MaxUpdates
    /\ cfg' = [epoch |-> cfg.epoch + 1, policy |-> p]
    /\ IF p # cfg.policy THEN ResetEnforceableEMA ELSE UNCHANGED stream
    /\ cache' = None
    /\ UNCHANGED <<counter, proc, gate, caller, ghost>>

\* UpdateConfig, inside the scan gate.  An observer that finds the cache between
\* the new configuration and the cleared cache is answered before the update
\* returns; the model puts that answer before the update.
UpdateConfig(p) ==
    /\ gate = {} /\ cfg.epoch <= MaxUpdates
    /\ cfg' = [epoch |-> cfg.epoch + 1, policy |-> p]
    /\ IF p # cfg.policy THEN ResetEnforceableEMA ELSE UNCHANGED stream
    /\ cache' = None
    /\ UNCHANGED <<counter, proc, gate, caller, ghost>>

-----------------------------------------------------------------------------
(* The host. *)

\* An age is told apart up to the interval it is compared with.
Older(age, limit) == IF age < limit THEN age + 1 ELSE age

Tick ==
    /\ stream' = [s \in Streams |-> IF stream[s].base = None THEN stream[s]
                     ELSE [stream[s] EXCEPT !.base.age = Older(@, SampleInterval)]]
    /\ cache' = IF cache = None THEN None ELSE [cache EXCEPT !.age = Older(@, TTL + 1)]
    /\ ghost' = [ghost EXCEPT !.age = Older(@, SampleInterval)]
    /\ UNCHANGED <<counter, proc, cfg, gate, caller>>

Work ==
    /\ proc.start # 0 /\ proc.work < MaxWork
    /\ proc' = [proc EXCEPT !.work = @ + 1]
    /\ UNCHANGED <<counter, stream, cache, cfg, gate, caller, ghost>>

\* The process ends; its PID may be reused before the next scan.
Exit ==
    /\ proc.start # 0
    /\ proc' = [proc EXCEPT !.start = 0, !.work = 0]
    /\ UNCHANGED <<counter, stream, cache, cfg, gate, caller, ghost>>

Spawn ==
    /\ proc.start = 0 /\ proc.born < MaxIncarnations
    /\ proc' = [start |-> proc.born + 1, work |-> 0, born |-> proc.born + 1]
    /\ UNCHANGED <<counter, stream, cache, cfg, gate, caller, ghost>>

Next ==
    \/ \E o \in Observers : Observe(o) \/ ObserveEnter(o) \/ ObserveScan(o)
    \/ \E p \in Policies : UpdateConfig(p)
    \/ DecisionEnter \/ DecisionScan \/ CleanupCache
    \/ Tick \/ Work \/ Exit \/ Spawn

Spec == Init /\ [][Next]_vars

-----------------------------------------------------------------------------
\* What the control cycle is told of a process never exceeds what the process did: no
\* work is reported twice, nor a dead process's under its successor's name.
NoOvercount ==
  ghost.start = proc.start /\ proc.start # 0 => ghost.sum <= proc.work

\* Each stream's average holds only usage selected by the process policy in
\* force: a reload forgets the others in both streams.
EMAOwnPolicy == \A s \in Streams : stream[s].ema \subseteq {cfg.policy}

\* A caller is never answered from a configuration older than the one in force
\* when it called, however long the scan that filled the cache took.
FreshAnswers ==
  /\ \A o \in Observers : ~caller[o].stale
  /\ cache # None => cache.epoch = cfg.epoch

\* Observers do not take work from the control cycle: a decision scan a second
\* after the last one reports everything the process did in between.
DecisionSeesWorkStep ==
  /\ ghost' # ghost /\ ghost.start = proc.start
  /\ ~ghost'.blind /\ ghost.age >= SampleInterval
  => ghost'.first + ghost'.sum = proc.work

\* What a caller is told of a process is something the process did, under the
\* policy and the configuration in force when it called.
UsageIsTrue == NoOvercount /\ EMAOwnPolicy /\ FreshAnswers
=============================================================================
