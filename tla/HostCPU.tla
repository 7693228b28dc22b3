------------------------------- MODULE HostCPU -------------------------------
(***************************************************************************)
(* Host-wide CPU usage from the counters of /proc/stat: a sample for the   *)
(* control cycle and a cached one for observers, each against the baseline *)
(* of its own stream (metrics/collector.go).                               *)
(***************************************************************************)
EXTENDS Integers

CONSTANTS
    Observers,              \* callers of GetObservationHostCPUUsage
    DecisionGap, ObservationGap,   \* fallbackCPUSampleMaxGap, observationCPUSampleMaxGap
    TTL,                    \* METRICS_CACHE_TTL
    MaxTime, MaxResets      \* bounds of the model

VARIABLES
    host,     \* the kernel's counters
    now,
    base,     \* the last reading of each stream
    cache,    \* when the observers' sample was stored, or NoSample
    caller,   \* what each caller has read and not yet put into its stream
    sample,   \* the sample that the last step produced
    truth     \* per stream: when and of which counters its last reading was

vars == <<host, now, base, cache, caller, sample, truth>>

Streams == {"decision", "observation"}
Callers == Observers \cup {"cycle"}
StreamOf(c) == IF c = "cycle" THEN "decision" ELSE "observation"
NoSample == [none |-> TRUE]
Storing == [storing |-> TRUE]
MaxGap(s) == IF s = "decision" THEN DecisionGap ELSE ObservationGap

Unavailable(reason) == [available |-> FALSE, reason |-> reason, busy |-> 0, of |-> 0, age |-> 0]

Init ==
    /\ host = [total |-> 1, idle |-> 0, resets |-> 0]
    /\ now = 0
    /\ base = [s \in Streams |-> NoSample]
    /\ cache = NoSample
    /\ caller = [c \in Callers |-> NoSample]
    /\ sample = NoSample
    /\ truth = [s \in Streams |-> NoSample]

\* hostCPUSamplingState.update, of the reading r with the clock at at.
Update(p, r, at, gap) ==
    LET total == r.total - p.total
        idle == r.idle - p.idle
        age == at - p.at
    IN IF p = NoSample THEN Unavailable("baseline")
       ELSE IF age < 0 \/ (gap > 0 /\ age > gap) THEN Unavailable("stale")
       ELSE IF total < 0 \/ idle < 0 THEN Unavailable("counter_reset")
       ELSE IF total = 0 THEN Unavailable("no_delta")
       ELSE IF idle > total THEN Unavailable("counter_reset")
       ELSE [available |-> TRUE, reason |-> "none", busy |-> total - idle, of |-> total, age |-> age]

Reading == [total |-> host.total, idle |-> host.idle, read |-> now, resets |-> host.resets]

Cached == cache # NoSample /\ now - cache.at <= TTL

\* An observer keeps what it got in the cache.
Answered(c) == IF c = "cycle" THEN NoSample ELSE Storing

\* GetDecisionHostCPUUsage by the control cycle, GetObservationHostCPUUsage by an
\* observer that finds nothing in the cache.  No gate: observers may miss it
\* together.  When /proc/stat cannot be read the baseline stays.
ReadCounters(c) ==
    /\ caller[c] = NoSample
    /\ c # "cycle" => ~Cached
    /\ \/ caller' = [caller EXCEPT ![c] = Reading] /\ sample' = NoSample
       \/ caller' = [caller EXCEPT ![c] = Answered(c)] /\ sample' = Unavailable("read_failure")
    /\ UNCHANGED <<host, now, base, cache, truth>>

\* The clock is read and the state locked some time after the counters were read,
\* so that one caller may overtake another.  The baseline always moves.
UpdateSample(c) ==
    LET r == caller[c]
        s == StreamOf(c)
    IN  /\ r \notin {NoSample, Storing}
        /\ \E at \in r.read..now :
              /\ sample' = Update(base[s], r, at, MaxGap(s))
              /\ base' = [base EXCEPT ![s] = [total |-> r.total, idle |-> r.idle, at |-> at]]
        /\ truth' = [truth EXCEPT ![s] = r]
        /\ caller' = [caller EXCEPT ![c] = Answered(c)]
        /\ UNCHANGED <<host, now, cache>>

StoreObservation(c) ==
    /\ caller[c] = Storing
    /\ cache' = [at |-> now] /\ caller' = [caller EXCEPT ![c] = NoSample]
    /\ sample' = NoSample
    /\ UNCHANGED <<host, now, base, truth>>

\* Time passes, busy or idle.
Tick ==
    /\ now < MaxTime
    /\ now' = now + 1
    /\ \E idle \in 0..1 : host' = [host EXCEPT !.total = @ + 1, !.idle = @ + idle]
    /\ sample' = NoSample
    /\ UNCHANGED <<base, cache, caller, truth>>

\* The counters start over, or one of them goes back.
Reset ==
    /\ host.resets < MaxResets
    /\ \E t \in 0..1 : host' = [total |-> t, idle |-> 0, resets |-> host.resets + 1]
    /\ sample' = NoSample
    /\ UNCHANGED <<now, base, cache, caller, truth>>

Next ==
    \/ Tick \/ Reset
    \/ \E c \in Callers : ReadCounters(c) \/ UpdateSample(c) \/ StoreObservation(c)

Spec == Init /\ [][Next]_vars

-----------------------------------------------------------------------------
\* A percentage is published only for the stream's own interval: it is what the
\* host did between two readings of that stream, the later of which is the
\* caller's own, whatever the other stream read meanwhile and however callers of
\* one stream overtake each other, unless the counters started over in between.
OwnIntervalStep ==
  \A c \in Callers :
     LET r == caller[c]
         p == truth[StreamOf(c)]
     IN  (r \notin {NoSample, Storing} /\ caller'[c] # r /\ sample'.available) =>
            /\ sample'.of > 0 /\ sample'.busy \in 0..sample'.of
            /\ p # NoSample /\ sample'.age \in 0..MaxGap(StreamOf(c))
            /\ p.resets = r.resets =>
                 /\ p.read <= r.read
                 /\ sample'.of = r.total - p.total
                 /\ sample'.busy = sample'.of - (r.idle - p.idle)
=============================================================================
