------------------------------ MODULE Samplers ------------------------------
(***************************************************************************)
(* What is measured: the usage of processes, the usage of the host, and    *)
(* the series of users.  The three share no state with each other.         *)
(***************************************************************************)
EXTENDS Naturals

CONSTANTS   \* of each component, under the letter of its instance below
    cObservers, cPolicies, cTTL, cMaxWork, cMaxIncarnations, cMaxUpdates,
    hObservers, hDecisionGap, hObservationGap, hTTL, hMaxTime, hMaxResets,
    uUids, uHistory, uMinSamples, uMaxTime, uMaxIO

\* The control cycle is not an observer; lifetimes, gaps and hours are numbers.
ASSUME CollectorAssumption == cTTL \in Nat /\ "cycle" \notin cObservers
ASSUME HostCPUAssumption == hDecisionGap \in Nat \ {0} /\ hObservationGap \in Nat \ {0}
ASSUME UserSeriesAssumption == uHistory \in Nat \ {0}

VARIABLES
    cCounter, cProc, cStream, cCache, cCfg, cGate, cCaller, cGhost,
    hHost, hNow, hBase, hCache, hCaller, hSample, hTruth,
    uUser, uExp, uCycle, uDetector, uCfg, uNow, uGap, uFollow

C == INSTANCE Collector WITH Observers <- cObservers, Policies <- cPolicies, TTL <- cTTL,
    MaxWork <- cMaxWork, MaxIncarnations <- cMaxIncarnations, MaxUpdates <- cMaxUpdates,
    counter <- cCounter, proc <- cProc, stream <- cStream, cache <- cCache,
    cfg <- cCfg, gate <- cGate, caller <- cCaller, ghost <- cGhost

H == INSTANCE HostCPU WITH Observers <- hObservers, DecisionGap <- hDecisionGap,
    ObservationGap <- hObservationGap, TTL <- hTTL, MaxTime <- hMaxTime,
    MaxResets <- hMaxResets, host <- hHost, now <- hNow, base <- hBase,
    cache <- hCache, caller <- hCaller, sample <- hSample, truth <- hTruth

U == INSTANCE UserSeries WITH Uids <- uUids, History <- uHistory, MinSamples <- uMinSamples,
    MaxTime <- uMaxTime, MaxIO <- uMaxIO, user <- uUser, exp <- uExp, cycle <- uCycle, detector <- uDetector,
    cfg <- uCfg, now <- uNow, gap <- uGap, follow <- uFollow

-----------------------------------------------------------------------------
\* What a caller is told of a process is something the process did, once, under
\* its own start time, selected by the policy in force when it called: no scan,
\* cache entry or average of an earlier configuration answers (UpdateConfig).
UsageIsTrue == C!UsageIsTrue

\* Observers and the control cycle do not take samples from each other: a decision
\* scan a second after the last one reports everything a process did in between,
\* and a host percentage is over the interval since the same stream's last reading.
StreamsAreSeparate ==
    [][C!DecisionSeesWorkStep]_(C!vars) /\ [][H!OwnIntervalStep]_(H!vars)

\* The series of users are those of the sample, each with one label, their I/O
\* counters never show more than was done, through exits, removal and return, and
\* the history behind the patterns is bounded (CleanupUserMetrics, updateUser,
\* UpdateUserSnapshot).
SeriesAreTrue ==
    U!SeriesAreSampled /\ U!OneLabel /\ U!IOIsDone /\ U!HistoryBounded
=============================================================================
