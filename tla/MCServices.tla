----------------------------- MODULE MCServices -----------------------------
(***************************************************************************)
(* The parts around the control of limits, for TLC: the start of the       *)
(* daemon, the blackout schedule, the CPU Points policy and the live       *)
(* capacity, the samplers, the per-user series, the two servers, the       *)
(* history database and the logger.  They share no state with each other,  *)
(* so one run explores each of them by itself: the focus, chosen at the    *)
(* start, is the component that moves.                                     *)
(***************************************************************************)
EXTENDS Services, Samplers, Housekeeping, FiniteSets

CONSTANTS
    dUids, dRetention, dMaxDay, dMaxBatches, dMaxStarts

VARIABLES
    focus,      \* the component that moves
    pSource, pPolicy, pPlan,
    kOnline, kHotplugs, kRevision, kState, kCaller, kSeen,
    dFiles, dDisk, dTx, dMgr, dClock, dGhost

boot == <<sBoot, sDeclared, sHost, sLeases, sStarts>>
blackout == <<bSpec, bFrames, bHour>>
points == <<pSource, pPolicy, pPlan>>
capacity == <<kOnline, kHotplugs, kRevision, kState, kCaller, kSeen>>
start == <<boot, blackout, points, capacity>>
collector == <<cCounter, cProc, cStream, cCache, cCfg, cGate, cCaller, cGhost>>
hostCPU == <<hHost, hNow, hBase, hCache, hCaller, hSample, hTruth>>
series == <<uUser, uExp, uCycle, uDetector, uCfg, uNow, uGap, uFollow>>
exporter == <<eExp, eRuns, eCaller, eCtx>>
mcp == <<mSrv, mGate, mOnce, mServing, mCaller, mStarts, mCancelled>>
database == <<dFiles, dDisk, dTx, dMgr, dClock, dGhost>>
logger == <<lActive, lCopies, lLog, lRot, lDue, lGhost>>
samplers == <<collector, hostCPU, series>>
servers == <<exporter, mcp>>
stores == <<database, logger>>
allVars == <<focus, start, samplers, servers, stores>>

\* Windows within a day, across midnight and up to it, on every day, in the week,
\* at its ends, and days and hours that the parse refuses.
Windows == [days : {<<>>, <<<<1, 5>>>>, <<<<0>>, <<6>>>>, <<<<6>>>>, <<<<5, 2>>>>, <<<<3>>, <<7>>>>},
            hours : {<<8, 18>>, <<22, 6>>, <<0, 24>>, <<22, 0>>, <<6, 6>>}]

Schedules == {<<>>} \cup {<<w>> : w \in Windows}
                \cup {<<[days |-> <<<<6>>>>, hours |-> <<22, 6>>], w>> : w \in Windows}

(* The policy: ten points stand for the thousand of the code, a weight of 20
   for the largest of the kernel and 127 for the largest 64-bit integer. *)
Inputs == [reserve : {0, 4}, root : {1, 3}, bestEffort : {1, 2, 8}]
Marker == [kind |-> "marker"]
Unread == [kind |-> "unread"]
Entry(name, p) == [kind |-> "entry", name |-> name, points |-> p]
Maps == {<<>>, <<Marker>>, <<Unread>>, <<Marker, [kind |-> "skipped"], Entry("a", 2)>>,
         <<Marker, Entry("a", 1), Marker>>, <<Marker, Unread>>, <<Marker, Entry("a", 0)>>}
        \cup {<<Marker, Entry("a", p)>> : p \in {4, 8, 10}}
        \cup {<<Marker, Entry("a", p), Entry(n, q)>> :
                 p \in {1, 3, 5}, q \in {1, 2, 4}, n \in {"a", "b"}}

\* NSS answers a name with its own identity, with root's, with one that another
\* name has too, or with none (no name is empty).
Identities == {[name |-> "a", uid |-> 1], [name |-> "a", uid |-> 0], [name |-> "b", uid |-> 2],
               [name |-> "b", uid |-> 1], [name |-> "", uid |-> 1]}

P == INSTANCE PointsPlan WITH TotalPoints <- 10, Period <- 20, MinQuota <- 2,
    MaxUint <- 127, MaxWeight <- 20, MaxReserve <- 9, MaxEntries <- 2, Inputs <- Inputs,
    Maps <- Maps, Services <- [{"a", "b"} -> Identities], Uids <- 0..4, Counts <- {1, 6, 7},
    source <- pSource, policy <- pPolicy, plan <- pPlan

\* One CPU, five, the same CPU twice, and more than a quota can be derived from.
K == INSTANCE LiveCapacity WITH TotalPoints <- 10, Period <- 20, MinQuota <- 2,
    MaxUint <- 127, Callers <- {1, 2}, Pools <- {7}, MaxRevision <- 3, MaxHotplugs <- 2,
    Lists <- {<<<<0, 0>>>>, <<<<0, 1>>, <<3, 5>>>>, <<<<0, 1>>, <<1, 1>>>>, <<<<0, 7>>>>},
    online <- kOnline, hotplugs <- kHotplugs, revision <- kRevision, state <- kState,
    caller <- kCaller, seen <- kSeen

D == INSTANCE Database WITH Uids <- dUids, Retention <- dRetention, MaxDay <- dMaxDay,
    MaxBatches <- dMaxBatches, MaxStarts <- dMaxStarts, files <- dFiles, disk <- dDisk, tx <- dTx, mgr <- dMgr,
    clock <- dClock, ghost <- dGhost

\* A component that does not move starts in one of its states.
ServicesInit ==
    /\ focus \in {"start", "blackout", "points", "capacity", "collector", "hostCPU", "series", "exporter", "mcp",
                  "database", "logger"}
    /\ focus # "start" => sDeclared = CHOOSE d \in S!Declarations : TRUE
    /\ focus # "start" => sHost = CHOOSE h \in S!Hosts : TRUE
    /\ S!Init
    /\ focus # "start" => ~sLeases
    /\ focus # "blackout" => bSpec = <<>>
    /\ B!Init
    /\ focus # "points" => pSource = CHOOSE c \in P!Sources : TRUE
    /\ P!Init
    /\ focus # "capacity" => kOnline = <<<<0, 0>>>>
    /\ K!Init
    /\ focus # "collector" => cCounter = CHOOSE c \in C!Counters : TRUE
    /\ C!Init /\ H!Init
    /\ focus # "series" => uFollow = "state"
    /\ U!Init /\ E!Init
    /\ M!Init
    /\ focus # "mcp" => mSrv.transport = "http"
    /\ focus # "database" => dDisk = D!Empty
    /\ D!Init /\ L!Init

ServicesNext ==
    \/ /\ focus = "start" /\ S!Next
       /\ UNCHANGED <<focus, blackout, points, capacity, samplers, servers, stores>>
    \/ /\ focus = "blackout" /\ B!Next
       /\ UNCHANGED <<focus, boot, points, capacity, samplers, servers, stores>>
    \/ /\ focus = "points" /\ P!Next
       /\ UNCHANGED <<focus, boot, blackout, capacity, samplers, servers, stores>>
    \/ /\ focus = "capacity" /\ K!Next
       /\ UNCHANGED <<focus, boot, blackout, points, samplers, servers, stores>>
    \/ /\ focus = "collector" /\ C!Next
       /\ UNCHANGED <<focus, start, hostCPU, series, servers, stores>>
    \/ /\ focus = "hostCPU" /\ H!Next
       /\ UNCHANGED <<focus, start, collector, series, servers, stores>>
    \/ /\ focus = "series" /\ U!Next
       /\ UNCHANGED <<focus, start, collector, hostCPU, servers, stores>>
    \/ focus = "exporter" /\ E!Next /\ UNCHANGED <<focus, start, samplers, mcp, stores>>
    \/ focus = "mcp" /\ M!Next /\ UNCHANGED <<focus, start, samplers, exporter, stores>>
    \/ focus = "database" /\ D!Next /\ UNCHANGED <<focus, start, samplers, servers, logger>>
    \/ focus = "logger" /\ L!Next /\ UNCHANGED <<focus, start, samplers, servers, database>>

ServicesSpec == ServicesInit /\ [][ServicesNext]_allVars

\* What tells states apart (the VIEW).  Policies are only compared with the one in
\* force and the host's observers are interchangeable; nothing reads the age of a
\* baseline of the I/O counter, what the ghost holds of a process that is gone, nor
\* the host's sample once the step that took it is over.
Ageless(st) == IF st.base = C!None THEN st ELSE [st EXCEPT !.base.age = 0]
Nameless(st) == [st EXCEPT !.ema = {p = cCfg.policy : p \in @}]
CollectorView ==
    <<cCounter, cProc, cCache, cCfg.epoch, cGate, cCaller,
      [s \in C!Streams |-> Nameless(IF cCounter = "io" THEN Ageless(cStream[s]) ELSE cStream[s])],
      IF cProc.start # 0 /\ cGhost.start = cProc.start THEN cGhost ELSE C!Uncounted>>
ObserversView ==
    {<<hCaller[o], Cardinality({p \in hObservers : hCaller[p] = hCaller[o]})>> : o \in hObservers}
ServicesView == <<focus, start, CollectorView, hHost, hNow, hBase, hCache, hCaller["cycle"], ObserversView,
                  hTruth, series, servers, stores>>

-----------------------------------------------------------------------------
\* A plan gives every class at least its points of the host, whoever else is
\* active, and is refused only when no exact scale could do so (loadContent,
\* PlanFlatTopology: "no smaller exact scale can do so").
PlanIsExact == focus = "points" => P!PointsAreHonoured /\ P!RefusalIsForced

\* Of refreshes that overlap the newest wins, each is answered with what the list
\* of online CPUs said at some moment of the call, and the quota kept is the
\* pool's exact share of it, with no carry lost in 64 bits (publish,
\* floorScaledQuota).
CapacityIsCurrent == focus = "capacity" => K!NewestWins /\ K!AnswerIsFresh /\ K!QuotaIsExact

\* Through writes, crashes, migrations and retention the history is whole samples,
\* holds whatever was reported as written for as long as it is to be kept, never
\* reuses an identifier, is private once open, and is refused at a start only if it
\* cannot be upgraded.
HistoryIsWhole ==
    focus = "database" => /\ D!WholeSamples /\ D!WrittenIsStored /\ D!FreshIds
                          /\ D!OpenIsPrivate /\ D!RefusedForGood
=============================================================================
