----------------------------- MODULE UserSeries -----------------------------
(***************************************************************************)
(* The per-user series a control cycle publishes: the decision sample's     *)
(* snapshot of every user, the removal of the absent ones and the workload  *)
(* patterns (metrics/prometheus.go, metrics/cpu_points_prometheus.go,       *)
(* state/pattern_detector.go and the two stages of state/control_cycle.go). *)
(*                                                                          *)
(* A series is keyed by uid and user name, and the name is what the lookup  *)
(* answers when it is asked: the user's, or the uid itself when the lookup  *)
(* fails.  One I/O counter stands for the four, one gauge for the usage     *)
(* gauges, one state label for the bounded labels of CPU Points.  Time goes *)
(* in half hours.                                                           *)
(***************************************************************************)
EXTENDS Integers, FiniteSets

CONSTANTS Uids,
          History,      \* PATTERN_HISTORY_HOURS
          MinSamples,   \* PATTERN_MIN_SAMPLES
          MaxTime,      \* bound: half hours
          MaxIO         \* bound: I/O of a user

VARIABLES user,      \* per uid: present, the I/O of its live processes, all it did
          exp,       \* PrometheusExporter: the series and the maps beside them
          cycle,     \* the control cycle
          detector,  \* PatternDetector.userStats and lastPatternAnalysis
          cfg,       \* AUTODETECT_PATTERNS and the users the filters admit
          now,
          gap,       \* per uid: the I/O of a live process was once unreadable
          follow     \* the kind of series this behaviour follows; the others stay empty

vars == <<user, exp, cycle, detector, cfg, now, gap, follow>>

Names == {"name", "uid"}
Keys == Uids \X Names
Patterns == {"unknown", "batch_night"}
Lifecycles == {"applied", "released"}
Hour(t) == t \div 2

Init ==
    /\ user = [u \in Uids |-> [present |-> FALSE, live |-> 0, done |-> 0]]
    /\ exp = [tracked |-> {}, gauges |-> {}, io |-> [k \in Keys |-> 0], counters |-> {},
              prevIO |-> [k \in Keys |-> 0], labels |-> [k \in Keys |-> {}],
              patterns |-> [k \in Keys |-> {}], prevPatterns |-> [k \in Keys |-> "none"]]
    /\ cycle = [pc |-> "idle", sample |-> {}, todo |-> {}]
    /\ detector = [hours |-> [u \in Uids |-> {}], last |-> -3]
    /\ cfg = [auto |-> TRUE, eligible |-> Uids]
    /\ follow \in {"usage", "state", "pattern"}
    /\ now = 0 /\ gap = [u \in Uids |-> FALSE]

-----------------------------------------------------------------------------
(* The users and the operator.  A cycle works on its sample, so that the     *)
(* users move between two cycles.                                            *)

Login(u) == /\ cycle.pc = "idle" /\ ~user[u].present
            /\ user' = [user EXCEPT ![u].present = TRUE]
            /\ UNCHANGED <<exp, cycle, detector, cfg, now, gap, follow>>

Work(u) == /\ follow = "usage" /\ cycle.pc = "idle" /\ user[u].present /\ user[u].done < MaxIO
           /\ user' = [user EXCEPT ![u].live = @ + 1, ![u].done = @ + 1]
           /\ UNCHANGED <<exp, cycle, detector, cfg, now, gap, follow>>

\* A process ends with its counters; the last one takes the user away.
Exit(u) == /\ cycle.pc = "idle" /\ user[u].present
           /\ \E live \in 0..user[u].live, stays \in BOOLEAN :
                /\ stays \/ live = 0
                /\ user' = [user EXCEPT ![u].live = live, ![u].present = stays]
           /\ UNCHANGED <<exp, cycle, detector, cfg, now, gap, follow>>

Reconfigure == /\ follow = "pattern" /\ cycle.pc = "idle"
               /\ cfg' \in [auto : BOOLEAN, eligible : SUBSET Uids]
               /\ UNCHANGED <<user, exp, cycle, detector, now, gap, follow>>

Tick == /\ follow = "pattern" /\ now < MaxTime /\ now' = now + 1
        /\ UNCHANGED <<user, exp, cycle, detector, cfg, gap, follow>>

-----------------------------------------------------------------------------
(* updatePrometheusDecisionUserMetrics: every user of the sample, and the    *)
(* users of leased slices without processes, then the removal of the rest.   *)

CycleStart ==
    /\ cycle.pc = "idle"
    /\ \E leased \in SUBSET Uids :
          LET sample == {u \in Uids : user[u].present} \cup leased
          IN cycle' = [pc |-> "publish", sample |-> sample, todo |-> sample]
    /\ UNCHANGED <<user, exp, detector, cfg, now, gap, follow>>

\* getUsername: the account's name or, when every lookup fails, the uid.
getUsername(u) == Names

\* The states a snapshot may carry; none is no CPU Points snapshot.
States == IF follow = "state" THEN {{}} \cup {{l} : l \in Lifecycles} ELSE {{}}

\* updateUser: the state labels of the key are replaced; no lifecycle, no series.
updateUser(e, k, lifecycle) == [e EXCEPT !.labels[k] = lifecycle]

\* UpdateUserSnapshot of a user whose processes could not be observed: only the
\* CPU Points series stay.
Unobserved(k, lifecycle) ==
    updateUser([exp EXCEPT !.tracked = @ \cup {k}, !.gauges = @ \ {k},
                           !.counters = @ \ {k}, !.io[k] = 0, !.prevIO[k] = 0,
                           !.patterns[k] = @ \ {exp.prevPatterns[k]},
                           !.prevPatterns[k] = "none"], k, lifecycle)

\* Mutant: the I/O the sample reports is added as it stands when it decreased.
EagerIncrease(k, observed) == IF observed >= exp.prevIO[k] THEN observed - exp.prevIO[k]
                              ELSE observed

\* What the I/O counter of a key grows by: nothing when the sum over the live
\* processes has decreased.
Increase(k, observed) == IF observed >= exp.prevIO[k] THEN observed - exp.prevIO[k] ELSE 0

Observed(k, observed, lifecycle) ==
    updateUser([exp EXCEPT !.tracked = @ \cup {k}, !.gauges = @ \cup {k},
                           !.counters = @ \cup {k}, !.io[k] = @ + Increase(k, observed),
                           !.prevIO[k] = observed], k, lifecycle)

\* UpdateUserSnapshot.  The I/O of a process may be unreadable in a sample; bound:
\* one sample per user.
UpdateUserSnapshot(u) ==
    /\ cycle.pc = "publish" /\ u \in cycle.todo
    /\ cycle' = [cycle EXCEPT !.todo = @ \ {u}]
    /\ \E name \in getUsername(u), lifecycle \in States :
          LET k == <<u, name>> IN
          \/ exp' = Unobserved(k, lifecycle) /\ UNCHANGED gap
          \/ \E observed \in {user[u].live} \cup (IF gap[u] THEN {} ELSE {0}) :
                /\ exp' = Observed(k, observed, lifecycle)
                /\ gap' = [gap EXCEPT ![u] = @ \/ observed < user[u].live]
    /\ UNCHANGED <<user, detector, cfg, now, follow>>

Gone(k) == k[1] \notin cycle.sample

\* CleanupUserMetrics: every series and baseline of a tracked key whose uid is
\* not in the sample.
CleanupUserMetrics ==
    /\ cycle.pc = "publish" /\ cycle.todo = {}
    /\ LET gone == {k \in exp.tracked : Gone(k)}
           Cut(f, none) == [k \in Keys |-> IF k \in gone THEN none ELSE f[k]]
       IN exp' = [exp EXCEPT !.tracked = @ \ gone, !.gauges = @ \ gone,
                             !.counters = @ \ gone, !.io = Cut(@, 0),
                             !.prevIO = Cut(@, 0), !.labels = Cut(@, {}),
                             !.patterns = [k \in Keys |-> IF k \in gone
                                              THEN @[k] \ {exp.prevPatterns[k]} ELSE @[k]],
                             !.prevPatterns = Cut(@, "none")]
    /\ cycle' = [cycle EXCEPT !.pc = "patterns"]
    /\ UNCHANGED <<user, detector, cfg, now, gap, follow>>

-----------------------------------------------------------------------------
(* stageWorkloadPatternDetection. *)

\* Update: the eligible users of the sample get a bucket of the hour.  RetainUsers:
\* the others lose theirs.
Retained ==
    [u \in Uids |-> IF u \notin cfg.eligible THEN {}
                    ELSE IF u \in cycle.sample /\ user[u].present
                         THEN detector.hours[u] \cup {Hour(now)} ELSE detector.hours[u]]

\* Cleanup: the buckets before the oldest hour of the history go.
Cleanup(hours) == [u \in Uids |-> {h \in hours[u] : h >= Hour(now) - (History - 1)}]

\* Analyze: a user with history has a pattern, which is unknown for a short one.
Analyze(hours) ==
    {r \in [{u \in Uids : hours[u] # {}} -> Patterns] :
        \A u \in DOMAIN r : Cardinality(hours[u]) < MinSamples => r[u] = "unknown"}

\* UpdateUserWorkloadPattern: the previous pattern's series goes.
UpdateUserWorkloadPattern(e, k, pattern) ==
    [e EXCEPT !.patterns[k] = (@ \ {e.prevPatterns[k]}) \cup {pattern},
              !.prevPatterns[k] = pattern]

\* The patterns of the analysis, published one user after the other.
Publish(e, result, name) ==
    LET Named(k) == k[1] \in DOMAIN result /\ name[k[1]] = k[2]
        Updated(k) == UpdateUserWorkloadPattern(e, k, result[k[1]])
    IN [e EXCEPT !.patterns = [k \in Keys |-> IF Named(k) THEN Updated(k).patterns[k] ELSE @[k]],
                 !.prevPatterns = [k \in Keys |-> IF Named(k) THEN Updated(k).prevPatterns[k]
                                                  ELSE @[k]]]

\* The stage: without autodetection the history goes; the analysis runs once an
\* hour.
stageWorkloadPatternDetection ==
    /\ cycle.pc = "patterns" /\ cycle' = [pc |-> "idle", sample |-> cycle.sample, todo |-> {}]
    /\ IF ~cfg.auto \/ follow # "pattern"
       THEN detector' = [detector EXCEPT !.hours = [u \in Uids |-> {}]] /\ UNCHANGED exp
       ELSE IF now - detector.last <= 2
       THEN detector' = [detector EXCEPT !.hours = Retained] /\ UNCHANGED exp
       ELSE /\ detector' = [hours |-> Cleanup(Retained), last |-> now]
            /\ \E result \in Analyze(Cleanup(Retained)), name \in [Uids -> Names] :
                  exp' = Publish(exp, result, name)
    /\ UNCHANGED <<user, cfg, now, gap, follow>>

Next == \/ \E u \in Uids : Login(u) \/ Work(u) \/ Exit(u) \/ UpdateUserSnapshot(u)
        \/ Reconfigure \/ Tick \/ CycleStart \/ CleanupUserMetrics
        \/ stageWorkloadPatternDetection

Spec == Init /\ [][Next]_vars

-----------------------------------------------------------------------------
\* Between the publication and the next sample, every usage, I/O and CPU Points
\* series is of a uid the decision sample holds, under whatever names it was
\* published (CleanupUserMetrics).
SeriesAreSampled ==
    cycle.pc # "publish" =>
       \A k \in Keys : k \in exp.gauges \cup exp.counters \/ exp.labels[k] # {}
          => k[1] \in cycle.sample

\* A key has at most one state label and at most one pattern at any moment, and
\* the pattern it has is the one the exporter will remove (updateUser,
\* UpdateUserWorkloadPattern).
OneLabel ==
    \A k \in Keys : /\ Cardinality(exp.labels[k]) <= 1
                    /\ exp.patterns[k] = {exp.prevPatterns[k]} \ {"none"}

\* An I/O counter never shows more than the user has done, through the exit of
\* processes and the removal and return of the series, unless the I/O of a live
\* process was unreadable in some sample (UpdateUserSnapshot).
IOIsDone == \A k \in Keys : gap[k[1]] \/ exp.io[k] <= user[k[1]].done

\* The history of a user spans at most one hour more than PATTERN_HISTORY_HOURS,
\* whenever the cycles run (Cleanup, once an hour).
HistoryBounded == \A u \in Uids : Cardinality(detector.hours[u]) <= History + 1
=============================================================================
