------------------------ MODULE DecisionEngineProofs ------------------------
(***************************************************************************)
(* The decision engine: a release waits for MIN_ACTIVE_TIME and an         *)
(* activation for I/O alone for IO_THRESHOLD_DURATION, for any users and   *)
(* durations.  And the samplers that feed it: the usage of processes and   *)
(* of the host is true, for any number of observers, processes and updates.*)
(***************************************************************************)
EXTENDS MCDecisionEngine, Samplers, TLAPS

\* An age that is unset or a number of ticks.
Elapsed == Nat \cup {Unset}

\* The families' own bookkeeping.
Accounted(l) == (l.users = {} <=> l.cpuAge = Unset) /\ (~l.resources <=> l.resAge = Unset)

\* What the two families of limits keep.
LimitRecords == [users : SUBSET Users, cpuAge : Elapsed, cpuRequested : BOOLEAN,
                 resources : BOOLEAN, resAge : Elapsed, resRequested : BOOLEAN]

\* The inductive invariant: the ages that makeDecision compares are those of the
\* episodes they belong to.
DEInv ==
    /\ limits \in LimitRecords
    /\ Accounted(limits)
    /\ onset \in [{"cpu", "resources"} -> Elapsed]
    /\ onset["cpu"] = limits.cpuAge /\ onset["resources"] = limits.resAge
    /\ ioOver \in Elapsed /\ ioRun \in Elapsed
    /\ IODuration > 0 => ioOver = ioRun
    /\ run \in {Idle, Sampling, Maintain, Deactivate}
               \cup {Activate(reason) : reason \in SUBSET {"cpu", "ram", "io"}}
    /\ DurationsKept

\* What a reconciliation may leave of the CPU family: enforcing nothing and
\* without an activation time, or enforcing since the time it had, which is the
\* present when it enforced nothing before.
CPUStep(l, k) ==
    /\ k \in LimitRecords /\ Accounted(k)
    /\ k.cpuAge = IF k.users = {} THEN Unset ELSE IF l.users = {} THEN 0 ELSE l.cpuAge
    /\ k.resources = l.resources /\ k.resAge = l.resAge

\* The same for RAM and I/O.
ResourceStep(l, k) ==
    /\ k \in LimitRecords /\ Accounted(k)
    /\ k.users = l.users /\ k.cpuAge = l.cpuAge
    /\ k.resAge = IF ~k.resources THEN Unset ELSE IF ~l.resources THEN 0 ELSE l.resAge

\* What a stage of the control cycle may make of the families' bookkeeping.
Follows(l, k) ==
    /\ k \in LimitRecords /\ Accounted(k)
    /\ k.cpuAge = IF k.users = {} THEN Unset ELSE IF l.users = {} THEN 0 ELSE l.cpuAge
    /\ k.resAge = IF ~k.resources THEN Unset ELSE IF ~l.resources THEN 0 ELSE l.resAge

\* The steps of a CPU Points reconciliation.
LEMMA CPUFollows ==
    ASSUME NEW l \in LimitRecords, Accounted(l)
    PROVE  CPUStep(l, RestoredCPU(l)) /\ \A k \in ReconciledCPU(l) : CPUStep(l, k)
<1>1. CPUStep(l, l)
  BY Zenon DEF CPUStep, Accounted
<1>2. CPUStep(l, RestoredCPU(l))
  BY Zenon DEF RestoredCPU, LimitRecords, Elapsed, Accounted, CPUStep, Unset
<1>3. ASSUME NEW users \in (SUBSET Users) \ {{}}
      PROVE  CPUStep(l, Published(l, users))
  <2>1. /\ Published(l, users).users = users
        /\ Published(l, users).cpuAge = IF l.users = {} THEN 0 ELSE l.cpuAge
        /\ Published(l, users).resources = l.resources
        /\ Published(l, users).resAge = l.resAge
    BY Zenon DEF Published, LimitRecords
  <2>2. Published(l, users) \in LimitRecords
    <3>1. (IF l.users = {} THEN 0 ELSE l.cpuAge) \in Elapsed
      BY Zenon DEF LimitRecords, Elapsed
    <3>. QED
      BY <3>1, Zenon DEF Published, LimitRecords
  <2>. QED
    <3>1. 0 # Unset
      BY DEF Unset
    <3>0. users # {}
      BY Zenon
    <3>2. Accounted(Published(l, users))
      BY <2>1, <3>0, <3>1, Zenon DEF Accounted
    <3>. QED
      BY <2>1, <2>2, <3>0, <3>2, Zenon DEF CPUStep
<1>. QED
  BY <1>1, <1>2, <1>3, Zenon DEF ReconciledCPU

\* The steps of a reconciliation of RAM and I/O limits.
LEMMA ResourcesFollow ==
    ASSUME NEW l \in LimitRecords, Accounted(l)
    PROVE  ResourceStep(l, RestoredResources(l)) /\ \A k \in ReconciledResources(l) : ResourceStep(l, k)
<1>1. ResourceStep(l, l)
  BY Zenon DEF ResourceStep, Accounted
<1>2. ASSUME NEW active \in BOOLEAN, NEW requested \in BOOLEAN
      PROVE  ResourceStep(l, [Refreshed(l, active) EXCEPT !.resRequested = requested])
  <2> DEFINE age == IF ~active THEN Unset ELSE IF l.resources THEN l.resAge ELSE 0
             k == [Refreshed(l, active) EXCEPT !.resRequested = requested]
  <2> HIDE DEF k
  <2>1. age \in Elapsed
    BY Zenon DEF LimitRecords, Elapsed
  <2>2. /\ k.users = l.users /\ k.cpuAge = l.cpuAge /\ k.resources = active /\ k.resAge = age
        /\ k \in LimitRecords
    BY <2>1, Zenon DEF Refreshed, LimitRecords, k
  <2>3. 0 # Unset
    BY DEF Unset
  <2> HIDE DEF age
  <2>4. Accounted(k)
    <3>1. k.users = {} <=> k.cpuAge = Unset
      BY <2>2, Zenon DEF Accounted
    <3>2. ~k.resources <=> k.resAge = Unset
      BY <2>2, <2>3, Zenon DEF Accounted, age
    <3>. QED
      BY <3>1, <3>2, Zenon DEF Accounted
  <2>5. age = IF ~k.resources THEN Unset ELSE IF ~l.resources THEN 0 ELSE l.resAge
    BY <2>2, Zenon DEF age
  <2>6. ResourceStep(l, k)
    BY <2>2, <2>4, <2>5, Zenon DEF ResourceStep
  <2>. QED
    BY <2>6, Zenon DEF k
<1>3. ResourceStep(l, RestoredResources(l))
  BY <1>2, Zenon DEF RestoredResources
<1>. QED
  BY <1>1, <1>2, <1>3 DEF ReconciledResources

\* Every outcome of a step that may change the limits.
LEMMA OutcomesFollow ==
    ASSUME NEW l \in LimitRecords, Accounted(l), NEW k,
           \/ k = l
           \/ k \in Verified(l)
           \/ k \in Deactivated(l)
           \/ \E decision \in {"ACTIVATE", "DEACTIVATE", "MAINTAIN"} : k \in Executed(l, decision)
           \/ \E cpu, resources \in BOOLEAN : k \in Activated(l, cpu, resources)
    PROVE  Follows(l, k)
<1>1. ASSUME NEW m, CPUStep(l, m) \/ ResourceStep(l, m) PROVE Follows(l, m)
  BY <1>1, Zenon DEF CPUStep, ResourceStep, Follows, Accounted
<1>2. CASE k \in {l, NoLimits}
  <2>1. NoLimits \in LimitRecords
    BY Zenon DEF NoLimits, LimitRecords, Elapsed
  <2>. QED
    <3>1. Follows(l, NoLimits)
      BY <2>1, Zenon DEF Follows, Accounted, NoLimits
    <3>2. Follows(l, l)
      BY Zenon DEF Follows, Accounted
    <3>. QED
      BY <1>2, <3>1, <3>2, Zenon
<1>3. CASE k \in Verified(l)
  BY <1>1, <1>2, <1>3, CPUFollows, Zenon DEF Verified
<1>4. ASSUME NEW cpu \in BOOLEAN, NEW resources \in BOOLEAN, k \in Activated(l, cpu, resources)
      PROVE  Follows(l, k)
  <2> DEFINE asked == [l EXCEPT !.cpuRequested = cpu, !.resRequested = resources]
             afterCPU == IF cpu THEN ReconciledCPU(asked) ELSE {asked, RestoredCPU(asked)}
  <2>1. /\ asked \in LimitRecords
        /\ asked.users = l.users /\ asked.cpuAge = l.cpuAge
        /\ asked.resources = l.resources /\ asked.resAge = l.resAge
    BY Zenon DEF LimitRecords
  <2>2. PICK x \in afterCPU : k \in IF resources THEN ReconciledResources(x) ELSE {x, RestoredResources(x)}
    BY <1>4, Zenon DEF Activated
  <2> HIDE DEF asked
  <2>3. Accounted(asked)
    BY <2>1, Zenon DEF Accounted
  <2>4. CPUStep(asked, asked)
    BY <2>1, <2>3, Zenon DEF CPUStep, Accounted
  <2>5. CPUStep(asked, x)
    BY <2>1, <2>2, <2>3, <2>4, CPUFollows, Zenon
  <2>6. x \in LimitRecords /\ Accounted(x)
    BY <2>5, Zenon DEF CPUStep
  <2>7. ResourceStep(x, x)
    BY <2>6, Zenon DEF ResourceStep, Accounted
  <2>8. ResourceStep(x, k)
    BY <2>2, <2>6, <2>7, ResourcesFollow, Zenon
  <2>. QED
    BY <2>1, <2>5, <2>8, Zenon DEF CPUStep, ResourceStep, Follows
<1>5. ASSUME NEW decision \in {"ACTIVATE", "DEACTIVATE", "MAINTAIN"}, k \in Executed(l, decision)
      PROVE  Follows(l, k)
  <2>1. CASE decision = "ACTIVATE"
    BY <1>4, <1>5, <2>1 DEF Executed
  <2>2. CASE decision = "DEACTIVATE"
    BY <1>2, <1>5, <2>2 DEF Executed, Deactivated
  <2>3. CASE decision = "MAINTAIN"
    BY <1>1, <1>2, <1>5, <2>3, ResourcesFollow DEF Executed
  <2>. QED
    BY <2>1, <2>2, <2>3, Zenon
<1>. QED
  BY <1>2, <1>3, <1>4, <1>5, Zenon DEF Deactivated

-----------------------------------------------------------------------------
(* The steps.                                                              *)

\* A step that ends the cycle, or that finds none, and moves the limits.
LEMMA LimitsMove ==
    ASSUME DEInv, HStep
    PROVE  DEInv'
<1>1. /\ UNCHANGED <<ioRun, ioOver>>
      /\ run' \in {Idle, Sampling}
      /\ onset' = [f \in DOMAIN onset |-> Onset(onset[f], f)]
  BY Zenon DEF HStep, StartCycle, ExecuteDecision, CheckBlackout, CancelCycle, ForceActivateLimits,
         ForceDeactivateLimits, trackers
<1>2. run \notin {Idle, Sampling} => run.decision \in {"ACTIVATE", "DEACTIVATE", "MAINTAIN"}
  BY DEF DEInv, Maintain, Deactivate, Activate
<1>3. Follows(limits, limits')
  <2>1. \/ limits' = limits
        \/ limits' \in Verified(limits)
        \/ limits' \in Deactivated(limits)
        \/ \E decision \in {"ACTIVATE", "DEACTIVATE", "MAINTAIN"} : limits' \in Executed(limits, decision)
        \/ \E cpu, resources \in BOOLEAN : limits' \in Activated(limits, cpu, resources)
    BY <1>2, Zenon DEF HStep, StartCycle, ExecuteDecision, CheckBlackout, CancelCycle, ForceActivateLimits,
         ForceDeactivateLimits
  <2>. QED
    BY Zenon, <2>1, OutcomesFollow DEF DEInv
<1>4. /\ onset' \in [{"cpu", "resources"} -> Elapsed]
      /\ onset'["cpu"] = limits'.cpuAge /\ onset'["resources"] = limits'.resAge
  BY <1>1, <1>3, Zenon DEF DEInv, Onset, Families, Follows, LimitRecords
<1>5. DurationsKept'
  BY <1>1 DEF DurationsKept, Idle, Sampling, Deactivate, Activate
<1>. QED
  BY <1>1, <1>3, <1>4, <1>5, Zenon DEF DEInv, Follows

\* makeDecision's I/O tracker follows the samples.
LEMMA IOFollows ==
    ASSUME DEInv, NEW s \in Sample, makeDecision(s), NEW r,
           r = IF s.io = "over" THEN Started(ioRun) ELSE Unset
    PROVE  /\ r \in Elapsed /\ ioOver' \in Elapsed
           /\ IODuration > 0 => ioOver' = r
           /\ s.io = "over" => r >= 0
<1>1. \A age \in Elapsed : Started(age) \in Nat
  BY Zenon DEF Elapsed, Started
<1>2. ioOver \in Elapsed /\ ioRun \in Elapsed /\ Unset \in Elapsed /\ Nat \subseteq Elapsed
  BY Zenon DEF DEInv, Elapsed
<1>3. r \in Elapsed /\ (s.io = "over" => r \in Nat)
  BY <1>1, <1>2, Zenon
<1>4. IOTracked(s) \in Elapsed
  BY <1>1, <1>2, Zenon DEF IOTracked
<1>5. ioOver' = IOTracked(s) \/ (ioOver' = Unset /\ s.io # "over")
  <2>1. CASE WaitForIO(s) \/ Hold(s) \/ Refuse(s) \/ Exceed(s)
    BY <2>1, Zenon DEF WaitForIO, Hold, Refuse, Exceed
  <2>2. CASE CoolDown(s)
    BY <2>2, Zenon DEF CoolDown, AllBelow
  <2>3. CASE Normal(s)
    BY <2>3, Zenon DEF Normal, IOPending
  <2>. QED
    BY <2>1, <2>2, <2>3, Zenon DEF makeDecision
<1>6. ioOver' \in Elapsed
  BY <1>2, <1>4, <1>5, Zenon
<1>7. IODuration > 0 => ioOver' = r
  BY <1>5, Zenon DEF IOTracked, DEInv
<1>. QED
  BY <1>3, <1>6, <1>7

\* A release is decided only for families that have enforced long enough.
LEMMA ReleaseHeld ==
    ASSUME DEInv, NEW s, CoolDown(s)
    PROVE  /\ limits.users # {} => limits.cpuAge >= MinActive
           /\ limits.resources => limits.resAge >= MinActive
<1>1. /\ limits.cpuAge \in Elapsed /\ limits.resAge \in Elapsed
      /\ limits.users # {} => limits.cpuAge \in Nat
      /\ limits.resources => limits.resAge \in Nat
      /\ MinActive \in Nat
  BY DurationsAssumption, Zenon DEF DEInv, LimitRecords, Elapsed, Accounted
<1>2. ~(Newest(limits) # Unset /\ Newest(limits) < MinActive)
  BY Zenon DEF CoolDown, Held
<1>. QED
  BY <1>1, <1>2 DEF Newest, DEInv, Accounted, Unset, Elapsed

\* An activation for I/O alone comes after IO_THRESHOLD_DURATION.
LEMMA ActivationHeld ==
    ASSUME DEInv, NEW s \in Sample, Exceed(s), run' = Activate({"io"}), NEW r,
           r = IF s.io = "over" THEN Started(ioRun) ELSE Unset,
           IODuration > 0 => ioOver' = r,
           s.io = "over" => r >= 0
    PROVE  r >= IODuration
<1>1. Maintain # Activate({"io"})
  BY Zenon DEF Maintain, Activate
<1>2. Activate(Reasons(s)) = Activate({"io"})
  BY <1>1, Zenon DEF Exceed
<1>3. Reasons(s) = {"io"}
  BY <1>2, Zenon DEF Activate
<1>4. IOExceeded(s)
  BY <1>3, Zenon DEF Reasons
<1>5. IODuration \in Nat
  BY DurationsAssumption, Zenon
<1>. QED
  BY <1>4, <1>5 DEF IOExceeded, Exceed

\* makeDecision keeps the invariant.
LEMMA DecisionStep ==
    ASSUME DEInv, NEW s \in MCSamples, HDecision(s)
    PROVE  DEInv'
<1>1. s \in Sample /\ makeDecision(s)
  BY Zenon DEF MCSamples, HDecision, MakeDecision
<1>2. /\ UNCHANGED <<limits, onset>>
      /\ ioRun' = IF s.io = "over" THEN Started(ioRun) ELSE Unset
  BY Zenon DEF HDecision, MakeDecision
<1>3. /\ ioRun' \in Elapsed /\ ioOver' \in Elapsed
      /\ IODuration > 0 => ioOver' = ioRun'
      /\ s.io = "over" => ioRun' >= 0
  BY <1>1, <1>2, IOFollows, Zenon
<1>4. Reasons(s) \in SUBSET {"cpu", "ram", "io"}
  BY Zenon DEF Reasons
<1>5. \/ run' = Maintain
      \/ CoolDown(s) /\ run' = Deactivate
      \/ Exceed(s) /\ run' = Activate(Reasons(s))
  BY <1>1, Zenon DEF makeDecision, WaitForIO, Hold, Refuse, CoolDown, Exceed, Normal
<1>6. run' = Activate({"io"}) => ioRun' >= IODuration
  <2>1. Maintain # Activate({"io"}) /\ Deactivate # Activate({"io"})
    BY Zenon DEF Maintain, Activate, Deactivate
  <2>. QED
    BY <1>1, <1>2, <1>3, <1>5, <2>1, ActivationHeld, Zenon
<1>7. run' = Deactivate => \A f \in Families(limits) : onset[f] >= MinActive
  <2>1. Maintain # Deactivate /\ Activate(Reasons(s)) # Deactivate
    BY Zenon DEF Maintain, Activate, Deactivate
  <2>2. onset["cpu"] = limits.cpuAge /\ onset["resources"] = limits.resAge
    BY Zenon DEF DEInv
  <2>. QED
    BY <1>5, <2>1, <2>2, ReleaseHeld, Zenon DEF Families
<1>8. DurationsKept'
  <2>1. Families(limits)' = Families(limits) /\ onset' = onset
    BY <1>2, Zenon DEF Families
  <2>. QED
    BY <1>6, <1>7, <2>1, Zenon DEF DurationsKept
<1>9. run' \in {Idle, Sampling, Maintain, Deactivate}
                 \cup {Activate(reason) : reason \in SUBSET {"cpu", "ram", "io"}}
  BY <1>4, <1>5, Zenon
<1>. QED
  BY <1>2, <1>3, <1>8, <1>9, Zenon DEF DEInv, Accounted

\* Time passes.
LEMMA TickStep ==
    ASSUME DEInv, HTick
    PROVE  DEInv'
<1>1. \A age \in Elapsed : /\ Older(age) \in Elapsed
                           /\ age = Unset <=> Older(age) = Unset
                           /\ \A d \in Nat : age >= d => Older(age) >= d
  BY DEF Elapsed, Older, Unset
<1>2. /\ limits' = [limits EXCEPT !.cpuAge = Older(limits.cpuAge), !.resAge = Older(limits.resAge)]
      /\ onset' = [f \in {"cpu", "resources"} |-> Older(onset[f])]
      /\ ioOver' = Older(ioOver) /\ ioRun' = Older(ioRun) /\ run' = run
  BY Zenon DEF HTick, Tick, DEInv
<1>3. limits.cpuAge \in Elapsed /\ limits.resAge \in Elapsed /\ ioOver \in Elapsed /\ ioRun \in Elapsed
  BY Zenon DEF DEInv, LimitRecords
<1>4. /\ limits' \in LimitRecords
      /\ limits'.cpuAge = Older(limits.cpuAge) /\ limits'.resAge = Older(limits.resAge)
      /\ limits'.users = limits.users /\ limits'.resources = limits.resources
  BY Zenon, <1>1, <1>2, <1>3 DEF DEInv, LimitRecords
<1>5. Accounted(limits')
  BY <1>1, <1>3, <1>4, Zenon DEF DEInv, Accounted
<1>6. /\ onset' \in [{"cpu", "resources"} -> Elapsed]
      /\ onset'["cpu"] = limits'.cpuAge /\ onset'["resources"] = limits'.resAge
  BY <1>1, <1>2, <1>4, Zenon DEF DEInv
<1>7. /\ ioOver' \in Elapsed /\ ioRun' \in Elapsed
      /\ IODuration > 0 => ioOver' = ioRun'
  BY <1>1, <1>2, <1>3, Zenon DEF DEInv
<1>8. DurationsKept'
  <2>1. MinActive \in Nat /\ IODuration \in Nat
    BY DurationsAssumption, Zenon
  <2>2. Families(limits') = Families(limits)
    BY <1>4, Zenon DEF Families
  <2>3. \A f \in Families(limits) : f \in {"cpu", "resources"} /\ onset[f] \in Elapsed /\ onset'[f] = Older(onset[f])
    BY <1>2, Zenon DEF Families, DEInv
  <2>4. run' = Deactivate => \A f \in Families(limits') : onset'[f] >= MinActive
    BY <1>1, <1>2, <2>1, <2>2, <2>3, Zenon DEF DEInv, DurationsKept
  <2>5. run' = Activate({"io"}) => ioRun' >= IODuration
    BY <1>1, <1>2, <1>3, <2>1, Zenon DEF DEInv, DurationsKept
  <2>. QED
    BY <2>4, <2>5, Zenon DEF DurationsKept
<1>. QED
  BY <1>2, <1>4, <1>5, <1>6, <1>7, <1>8, Zenon DEF DEInv

\* state/decision_engine.go, makeDecision and its trackers: for any users and
\* durations, a release is decided only when every family that enforces
\* something has done so for MIN_ACTIVE_TIME, and an activation for I/O alone
\* only after IO_THRESHOLD_DURATION of samples that all show I/O pressure.
THEOREM DurationsAreKept == HSpec => []DurationsKept
<1>1. HInit => DEInv
  <2> SUFFICES ASSUME HInit PROVE DEInv
    BY Zenon
  <2>1. limits \in LimitRecords /\ Accounted(limits)
    BY Zenon DEF HInit, Init, NoLimits, LimitRecords, Elapsed, Accounted
  <2>2. limits.cpuAge = Unset /\ limits.resAge = Unset /\ ioOver = Unset /\ ioRun = Unset
        /\ onset = [f \in {"cpu", "resources"} |-> Unset] /\ Unset \in Elapsed /\ run = Idle
    BY Zenon DEF HInit, Init, NoLimits, Elapsed
  <2>3. DurationsKept
    BY <2>2, Zenon DEF DurationsKept, Idle, Deactivate, Activate
  <2>. QED
    BY <2>1, <2>2, <2>3, Zenon DEF DEInv
<1>2. DEInv /\ [HNext]_<<vars, hvars>> => DEInv'
  <2> SUFFICES ASSUME DEInv, [HNext]_<<vars, hvars>> PROVE DEInv'
    BY Zenon
  <2>1. CASE Settle \/ UNCHANGED <<vars, hvars>>
    BY <2>1, Zenon DEF Settle, vars, hvars, trackers, DEInv, Accounted, DurationsKept, Families
  <2>. QED
    BY <2>1, LimitsMove, DecisionStep, TickStep, Zenon DEF HNext, HCycle
<1>3. DEInv => DurationsKept
  BY Zenon DEF DEInv
<1>. QED
  BY <1>1, <1>2, <1>3, PTL DEF HSpec

-----------------------------------------------------------------------------
(* The sampling of processes *)

\* What the variables of the collector hold; an average is of the policy in force.
Procs == [start : Nat, work : Nat, born : Nat]
Bases == [start : Nat, work : Nat, age : Nat] \cup {C!None}
Ghosts == [start : Nat, first : Nat, sum : Nat, age : Nat, blind : BOOLEAN]
Clients == [pc : {"idle", "wait", "scan"}, since : Nat, got : Nat, stale : BOOLEAN]

States == [base : Bases, ema : SUBSET {cCfg.policy}]

\* Every variable has its type.
CTypes ==
    /\ cProc \in Procs /\ cGhost \in Ghosts
    /\ cStream \in [C!Streams -> States]
    /\ cCache \in [age : Nat, epoch : Nat] \cup {C!None}
    /\ cCfg.epoch \in Nat
    /\ cCaller \in [C!Callers -> Clients]

\* A sample of what one process did: no more than its counter shows, and no more
\* than the baseline left behind, whatever was reported before.
Covered(sum, base) == sum <= cProc.work /\ (base # C!None => sum <= base.work)

\* No baseline is told from one by its fields.
LEMMA NoneIsNoBase == C!None \notin [start : Nat, work : Nat, age : Nat]
BY Zenon DEF C!None

\* A sample reports what the counter gained since the baseline it replaces, so the sum
\* of the reports stays within the counter.
LEMMA SampleAccounted ==
    ASSUME cProc \in Procs, NEW b \in Bases, NEW start \in Nat, NEW sum \in Nat,
           Covered(sum, b),
           NEW r \in {C!CPUSample(b, start), C!IOSample(b, start)}
    PROVE  r.base \in Bases /\ r.delta \in Nat /\ Covered(sum + r.delta, r.base)
<1> USE DEF Covered, Procs, Bases, C!Baseline, C!Delta
<1>1. CASE r = C!CPUSample(b, start)
  BY <1>1, NoneIsNoBase DEF C!CPUSample, C!SampleInterval
<1>2. CASE r = C!IOSample(b, start)
  BY <1>2, NoneIsNoBase DEF C!IOSample
<1>. QED
  BY <1>1, <1>2, Zenon

\* What was reported of the process alive now is accounted for, and no process
\* to come has been reported on.
CSum ==
    /\ cGhost.start <= cProc.born /\ cProc.start <= cProc.born
    /\ cGhost.start = cProc.start /\ cProc.start # 0 => Covered(cGhost.sum, cStream["decision"].base)

\* One caller scans at a time, and an observer scans the configuration it read.
CGate ==
    \A c \in C!Callers :
        /\ cCaller[c].pc = "scan" => cGate = {c} /\ (c \in cObservers => cCaller[c].got = cCfg.epoch)
        /\ cCaller[c].since <= cCfg.epoch /\ ~cCaller[c].stale

\* An update empties the cache.
CFresh == cCache # C!None => cCache.epoch = cCfg.epoch

\* The inductive invariant of the collector.
CInv == CTypes /\ CSum /\ CGate /\ CFresh

\* A sample of either stream keeps the account of the decision stream.
LEMMA SampledKeepsSum ==
    ASSUME CTypes, CSum, cProc.start # 0, NEW s \in C!Streams, NEW start \in {cProc.start, 0},
           C!Sampled(s, cCfg.policy, start), UNCHANGED <<cProc, cCfg>>
    PROVE  cStream' \in [C!Streams -> States] /\ cGhost' \in Ghosts /\ CSum'
<1> DEFINE b == cStream[s].base
           r == IF cCounter = "cpu" THEN C!CPUSample(b, start) ELSE C!IOSample(b, start)
           old == IF cGhost.start = cProc.start THEN cGhost.sum ELSE 0
<1>1. b \in Bases /\ start \in Nat /\ cProc \in Procs
  BY DEF CTypes, States, Procs
<1>2. r \in {C!CPUSample(b, start), C!IOSample(b, start)}
  BY Zenon
<1>3. /\ cStream' = [cStream EXCEPT ![s] = [base |-> r.base, ema |-> cStream[s].ema \cup {cCfg.policy}]]
      /\ cGhost' = IF s = "decision" THEN C!Counted(cGhost, b, r, start) ELSE cGhost
  BY Zenon DEF C!Sampled, C!EMA
<1>4. Covered(0, b)
  BY <1>1 DEF Covered, Bases, Procs
<1>5. r.base \in Bases /\ r.delta \in Nat
  <2> HIDE DEF b, r
  <2>. QED
    BY <1>1, <1>2, <1>4, SampleAccounted, Zenon
<1>6. cStream' \in [C!Streams -> States]
  <2> HIDE DEF r
  <2>. QED
    BY <1>3, <1>5, Zenon DEF CTypes, States
<1>7. CASE s = "decision"
  <2>1. old \in Nat /\ Covered(old, b)
    BY <1>1, <1>4, <1>7, Zenon DEF CTypes, CSum, Ghosts
  <2>2. Covered(old + r.delta, r.base)
    <3> HIDE DEF b, r, old
    <3>. QED
      BY <1>1, <1>2, <2>1, SampleAccounted, Zenon
  <2>3. cStream'["decision"].base = r.base
    <3> HIDE DEF r
    <3>. QED
      BY <1>3, <1>7, Zenon DEF CTypes
  <2>4. cGhost' = C!Counted(cGhost, b, r, start)
    BY <1>3, <1>7, Zenon
  <2>5. cGhost' \in Ghosts /\ cGhost'.start = cProc.start /\ cGhost'.sum = old + r.delta
    <3> DEFINE unknown == start = 0 \/ (b # C!None /\ b.start = 0)
               age == IF cGhost.age >= C!SampleInterval THEN 0 ELSE cGhost.age
    <3>1. unknown \in BOOLEAN /\ age \in Nat
      BY Zenon DEF CTypes, Ghosts
    <3>2. CASE cGhost.start # cProc.start
      <4>1. cGhost' = [start |-> cProc.start, first |-> cProc.work, sum |-> r.delta, age |-> 0, blind |-> unknown]
        BY <2>4, <3>2, Zenon DEF C!Counted
      <4> HIDE DEF r, unknown
      <4>. QED
        BY <4>1, <3>1, <3>2, <1>1, <1>5 DEF Ghosts, Procs
    <3>3. CASE cGhost.start = cProc.start
      <4>1. cGhost' = [cGhost EXCEPT !.sum = cGhost.sum + r.delta, !.blind = cGhost.blind \/ unknown, !.age = age]
        <5> HIDE DEF r
        <5>. QED
          BY <2>4, <3>3, Zenon DEF C!Counted
      <4>2. cGhost.sum + r.delta \in Nat /\ (cGhost.blind \/ unknown) \in BOOLEAN
        <5> HIDE DEF r
        <5>. QED
          BY <1>5 DEF CTypes, Ghosts
      <4> HIDE DEF r, unknown, age
      <4>. QED
        BY <4>1, <4>2, <3>1, <3>3, Zenon DEF CTypes, Ghosts
    <3>. QED
      BY <3>2, <3>3, Zenon
  <2>. QED
    <3> HIDE DEF b, r, old
    <3>. QED
      BY <1>6, <2>2, <2>3, <2>5, Zenon DEF CSum, Covered
<1>8. CASE s # "decision"
  <2>1. cStream'["decision"] = cStream["decision"] /\ cGhost' = cGhost
    BY <1>3, <1>8, Zenon DEF CTypes, C!Streams
  <2>. QED
    BY <1>6, <2>1, Zenon DEF CTypes, CSum, Covered
<1>. QED
  BY <1>7, <1>8, Zenon

\* So does a scan, which samples the process, prunes it or fails.
LEMMA ScanKeepsSum ==
    ASSUME CTypes, CSum, NEW s \in C!Streams, C!Scan(s, cCfg.policy), UNCHANGED <<cProc, cCfg>>
    PROVE  cStream' \in [C!Streams -> States] /\ cGhost' \in Ghosts /\ CSum'
<1>1. CASE cProc.start # 0 /\ \E start \in {cProc.start, 0} : C!Sampled(s, cCfg.policy, start)
  BY <1>1, SampledKeepsSum, Zenon
<1>2. CASE C!Pruned(s)
  <2>1. /\ cStream' = [cStream EXCEPT ![s] = [base |-> C!None, ema |-> {}]]
        /\ cGhost' \in Ghosts /\ cGhost'.start = cGhost.start /\ cGhost'.sum = cGhost.sum
    BY <1>2, Zenon DEF C!Pruned, C!NewSamplingState, CTypes, Ghosts
  <2>2. cStream' \in [C!Streams -> States]
    BY <2>1, Zenon DEF CTypes, States, Bases
  <2>3. cStream'["decision"].base \in {C!None, cStream["decision"].base}
    BY <2>1, Zenon DEF CTypes, C!Streams
  <2>. QED
    BY <2>1, <2>2, <2>3, Zenon DEF CSum, Covered
<1>3. CASE UNCHANGED <<cStream, cGhost>>
  BY <1>3, Zenon DEF CTypes, CSum, Covered, States
<1>4. CASE C!Unread(s, cCfg.policy)
  <2>1. /\ cStream \in [C!Streams -> States] /\ cGhost' = cGhost
        /\ cStream' = [cStream EXCEPT ![s] = [cStream[s] EXCEPT !.ema = cStream[s].ema \cup {cCfg.policy}]]
    BY <1>4, Zenon DEF C!Unread, C!EMA, CTypes
  <2>2. cStream' \in [C!Streams -> States]
    BY <2>1, Zenon DEF States
  <2>3. cStream'["decision"].base = cStream["decision"].base
    BY <2>1, Zenon DEF States, C!Streams
  <2>. QED
    BY <2>1, <2>2, <2>3, Zenon DEF CTypes, CSum, Covered
<1>. QED
  BY <1>1, <1>2, <1>3, <1>4, Zenon DEF C!Scan, C!Fallback, C!Processes

\* A caller that goes on holds the gate while it scans.
LEMMA CallerMoves ==
    ASSUME CTypes, CGate, NEW c \in C!Callers, NEW to \in Clients, C!Move(c, to),
           cCfg' = cCfg, \A d \in C!Callers \ {c} : cCaller[d].pc = "scan" => cGate' = {d},
           to.pc = "scan" => cGate' = {c} /\ (c \in cObservers => to.got = cCfg.epoch),
           to.since <= cCfg.epoch, ~to.stale
    PROVE  cCaller' \in [C!Callers -> Clients] /\ CGate'
<1>1. cCaller' \in [C!Callers -> Clients]
  BY Zenon DEF CTypes, C!Move
<1>2. cCaller'[c] = to /\ \A d \in C!Callers \ {c} : cCaller'[d] = cCaller[d]
  BY Zenon DEF CTypes, C!Move
<1>. QED
  BY <1>1, <1>2, Zenon DEF CGate

\* An answer of the epoch in force is not stale to a caller that came in it or before.
LEMMA AnswerIsFresh ==
    ASSUME NEW epoch \in Nat, NEW from \in Nat, from <= epoch
    PROVE  C!Answered(epoch, from) = C!Idle
<1>1. (epoch < from) = FALSE
  OBVIOUS
<1>2. C!Answered(epoch, from) = [C!Idle EXCEPT !.stale = FALSE]
  BY <1>1, Zenon DEF C!Answered
<1>. QED
  BY <1>2, Zenon DEF C!Idle

\* Every step of the callers, of a configuration update and of the host keeps it.
LEMMA CStep ==
    ASSUME CInv, [C!Next]_(C!vars)
    PROVE  CInv'
<1> USE CollectorAssumption DEF CInv
<1>1. C!Idle \in Clients /\ C!Idle.pc = "idle" /\ C!Idle.since = 0 /\ ~C!Idle.stale
  BY Zenon DEF C!Idle, Clients
<1>2. ASSUME NEW o \in cObservers PROVE o \in C!Callers
  BY Zenon DEF C!Callers
<1>3. ASSUME NEW o \in cObservers, C!Observe(o) PROVE CInv'
  <2> DEFINE to == IF C!Cached THEN C!Answered(cCache.epoch, cCfg.epoch)
                   ELSE [C!Idle EXCEPT !.pc = "wait", !.since = cCfg.epoch]
  <2>1. to = C!Idle \/ to = [pc |-> "wait", since |-> cCfg.epoch, got |-> 0, stale |-> FALSE]
    <3>1. C!Cached => to = C!Answered(cCfg.epoch, cCfg.epoch)
      BY Zenon DEF CFresh, C!Cached
    <3>2. C!Cached => to = C!Idle
      BY <3>1, AnswerIsFresh DEF CTypes
    <3>. QED
      BY <3>2, Zenon DEF C!Idle
  <2>2. to \in Clients /\ to.pc # "scan" /\ to.since <= cCfg.epoch /\ ~to.stale
    <3>1. CASE to = C!Idle
      BY <3>1, <1>1 DEF CTypes
    <3>2. CASE to = [pc |-> "wait", since |-> cCfg.epoch, got |-> 0, stale |-> FALSE]
      <4> HIDE DEF to
      <4>. QED
        BY <3>2 DEF CTypes, Clients
    <3>. QED
      BY <2>1, <3>1, <3>2, Zenon
  <2>3. C!Move(o, to) /\ UNCHANGED <<cProc, cStream, cCache, cCfg, cGate, cGhost>>
    BY <1>3, Zenon DEF C!Observe
  <2>4. cCaller' \in [C!Callers -> Clients] /\ CGate'
    <3> HIDE DEF to
    <3>. QED
      BY <2>2, <2>3, <1>2, CallerMoves, Zenon DEF CGate
  <2>. QED
    BY <2>3, <2>4, Zenon DEF CTypes, CSum, CFresh, Covered, States
<1>4. ASSUME NEW o \in cObservers, C!ObserveEnter(o) PROVE CInv'
  <2>1. /\ cCaller[o] \in Clients /\ cCaller[o].since <= cCfg.epoch /\ cGate = {}
        /\ UNCHANGED <<cProc, cStream, cCache, cCfg, cGhost>>
    BY <1>4, <1>2, Zenon DEF C!ObserveEnter, CTypes, CGate
  <2>2. \A d \in C!Callers : cCaller[d].pc # "scan"
    BY <2>1, Zenon DEF CGate
  <2>3. CASE C!Cached
    <3>1. C!Move(o, C!Idle)
      BY <1>4, <2>1, <2>3, AnswerIsFresh DEF C!ObserveEnter, CTypes, CFresh, C!Cached, Clients
    <3>2. cCaller' \in [C!Callers -> Clients] /\ CGate'
      BY <3>1, <2>1, <2>2, <1>1, <1>2, CallerMoves DEF CTypes
    <3>. QED
      BY <2>1, <3>2, Zenon DEF CTypes, CSum, CFresh, Covered, States
  <2>4. CASE ~C!Cached
    <3> DEFINE to == [cCaller[o] EXCEPT !.pc = "scan", !.got = cCfg.epoch]
    <3>1. C!Move(o, to) /\ cGate' = {o}
      BY <1>4, <2>4, Zenon DEF C!ObserveEnter
    <3>2. to \in Clients /\ to.got = cCfg.epoch /\ to.since <= cCfg.epoch /\ ~to.stale
      BY <2>1, <1>2, Zenon DEF CTypes, Clients, CGate
    <3>3. cCaller' \in [C!Callers -> Clients] /\ CGate'
      <4> HIDE DEF to
      <4>. QED
        BY <3>1, <3>2, <2>1, <2>2, <1>2, CallerMoves, Zenon
    <3>. QED
      BY <2>1, <3>3, Zenon DEF CTypes, CSum, CFresh, Covered, States
  <2>. QED
    BY <2>3, <2>4, Zenon
<1>5. ASSUME NEW o \in cObservers, C!ObserveScan(o) PROVE CInv'
  <2>1. /\ cCaller[o] \in Clients /\ cCaller[o].since <= cCfg.epoch /\ cCaller[o].got = cCfg.epoch
        /\ cGate = {o} /\ UNCHANGED <<cProc, cCfg>>
        /\ cCache' = [age |-> 0, epoch |-> cCfg.epoch]
        /\ C!Scan("observation", cCfg.policy)
    BY <1>5, <1>2, Zenon DEF C!ObserveScan, C!Stored, CTypes, CGate
  <2>2. cStream' \in [C!Streams -> States] /\ cGhost' \in Ghosts /\ CSum'
    BY <2>1, ScanKeepsSum, Zenon DEF C!Streams
  <2>3. C!Move(o, C!Idle)
    BY <1>5, <2>1, AnswerIsFresh, Zenon DEF C!ObserveScan, CTypes, Clients
  <2>4. \A d \in C!Callers \ {o} : cCaller[d].pc # "scan"
    BY <2>1, Zenon DEF CGate
  <2>5. cCaller' \in [C!Callers -> Clients] /\ CGate'
    BY <2>1, <2>3, <2>4, <1>1, <1>2, CallerMoves DEF CTypes
  <2>. QED
    BY <2>1, <2>2, <2>5, Zenon DEF CTypes, CFresh, States
<1>6. ASSUME NEW p \in cPolicies, C!UpdateConfig(p) PROVE CInv'
  <2>1. /\ cGate = {} /\ cCfg' = [epoch |-> cCfg.epoch + 1, policy |-> p] /\ cCache' = C!None
        /\ UNCHANGED <<cProc, cGate, cCaller, cGhost>>
        /\ IF p # cCfg.policy THEN C!ResetEnforceableEMA ELSE UNCHANGED cStream
    BY <1>6, Zenon DEF C!UpdateConfig
  <2>2. cStream' \in [C!Streams -> States'] /\ cStream'["decision"].base = cStream["decision"].base
    BY <2>1 DEF CTypes, States, C!ResetEnforceableEMA, C!Streams
  <2>3. CGate'
    BY <2>1 DEF CGate, CTypes, Clients
  <2>. QED
    BY <2>1, <2>2, <2>3 DEF CTypes, CSum, CFresh, Covered, States
<1>7. CASE C!DecisionEnter
  <2> DEFINE to == [C!Idle EXCEPT !.pc = "scan"]
  <2>1. /\ cGate = {} /\ cGate' = {"cycle"} /\ C!Move("cycle", to)
        /\ UNCHANGED <<cProc, cStream, cCache, cCfg, cGhost>>
    BY <1>7, Zenon DEF C!DecisionEnter
  <2>2. to \in Clients /\ to.since = 0 /\ ~to.stale
    BY Zenon DEF C!Idle, Clients
  <2>3. \A d \in C!Callers : cCaller[d].pc # "scan"
    BY <2>1, Zenon DEF CGate
  <2>4. cCaller' \in [C!Callers -> Clients] /\ CGate'
    <3> HIDE DEF to
    <3>. QED
      BY <2>1, <2>2, <2>3, CallerMoves DEF C!Callers, CTypes
  <2>. QED
    BY <2>1, <2>4, Zenon DEF CTypes, CSum, CFresh, Covered, States
<1>8. CASE C!DecisionScan
  <2>1. /\ cCaller["cycle"].pc = "scan" /\ "cycle" \in C!Callers /\ cGate' = {}
        /\ UNCHANGED <<cProc, cCache, cCfg>>
        /\ C!Scan("decision", cCfg.policy) /\ C!Move("cycle", C!Idle)
    BY <1>8, Zenon DEF C!DecisionScan, C!Callers
  <2>2. cStream' \in [C!Streams -> States] /\ cGhost' \in Ghosts /\ CSum'
    BY <2>1, ScanKeepsSum, Zenon DEF C!Streams
  <2>3. \A d \in C!Callers \ {"cycle"} : cCaller[d].pc # "scan"
    BY <2>1, Zenon DEF CGate
  <2>4. cCaller' \in [C!Callers -> Clients] /\ CGate'
    BY <2>1, <2>3, <1>1, CallerMoves DEF CTypes
  <2>. QED
    BY <2>1, <2>2, <2>4, Zenon DEF CTypes, CFresh, States
<1>9. CASE C!CleanupCache
  BY <1>9, Zenon DEF C!CleanupCache, CTypes, CSum, CGate, CFresh, Covered, States
<1>10. CASE C!Tick
  <2>1. /\ UNCHANGED <<cProc, cCfg, cGate, cCaller>>
        /\ cCache' = IF cCache = C!None THEN C!None ELSE [cCache EXCEPT !.age = C!Older(cCache.age, cTTL + 1)]
        /\ cGhost' = [cGhost EXCEPT !.age = C!Older(cGhost.age, C!SampleInterval)]
        /\ cStream' = [s \in C!Streams |-> IF cStream[s].base = C!None THEN cStream[s]
                        ELSE [cStream[s] EXCEPT !.base.age = C!Older(cStream[s].base.age, C!SampleInterval)]]
    BY <1>10, Zenon DEF C!Tick
  <2>2. cCache' \in [age : Nat, epoch : Nat] \cup {C!None} /\ CFresh'
    BY <2>1 DEF CTypes, CFresh, C!Older
  <2>3. cGhost' \in Ghosts /\ cGhost'.start = cGhost.start /\ cGhost'.sum = cGhost.sum
    BY <2>1 DEF CTypes, Ghosts, C!Older, C!SampleInterval
  <2>4. ASSUME NEW s \in C!Streams
        PROVE  /\ cStream'[s] \in States
               /\ cStream'[s].base # C!None => cStream[s].base # C!None /\ cStream'[s].base.work = cStream[s].base.work
    <3>1. CASE cStream[s].base = C!None
      BY <2>1, <3>1, Zenon DEF CTypes
    <3>2. CASE cStream[s].base # C!None
      <4> DEFINE b == cStream[s].base
                 age == C!Older(b.age, C!SampleInterval)
      <4>1. b \in [start : Nat, work : Nat, age : Nat] /\ cStream[s] \in States
        BY <3>2, Zenon DEF CTypes, States, Bases
      <4>2. age \in Nat
        BY <4>1 DEF C!Older, C!SampleInterval
      <4>3. cStream'[s] = [cStream[s] EXCEPT !.base = [b EXCEPT !.age = age]]
        BY <2>1, <3>2, Zenon
      <4> HIDE DEF age
      <4>4. [b EXCEPT !.age = age] \in Bases /\ [b EXCEPT !.age = age].work = b.work
        BY <4>1, <4>2, Zenon DEF Bases
      <4>. QED
        BY <4>1, <4>3, <4>4, <3>2, Zenon DEF States
    <3>. QED
      BY <3>1, <3>2, Zenon
  <2>5. cStream' \in [C!Streams -> States]
    BY <2>1, <2>4, Zenon
  <2>. QED
    BY <2>1, <2>2, <2>3, <2>4, <2>5, Zenon DEF CTypes, CSum, CGate, Covered, States, C!Streams
<1>11. CASE C!Work
  <2>1. /\ cProc' = [cProc EXCEPT !.work = cProc.work + 1] /\ cProc.work + 1 \in Nat
        /\ UNCHANGED <<cStream, cCache, cCfg, cGate, cCaller, cGhost>>
    BY <1>11 DEF C!Work, CTypes, Procs
  <2>2. cProc' \in Procs /\ cProc'.start = cProc.start /\ cProc'.born = cProc.born /\ cProc'.work = cProc.work + 1
    BY <2>1, Zenon DEF CTypes, Procs
  <2>. QED
    BY <2>1, <2>2 DEF CTypes, CSum, CGate, CFresh, Covered, States, Procs, Ghosts
<1>12. CASE C!Exit
  <2>1. /\ cProc' = [cProc EXCEPT !.start = 0, !.work = 0]
        /\ UNCHANGED <<cStream, cCache, cCfg, cGate, cCaller, cGhost>>
    BY <1>12, Zenon DEF C!Exit
  <2>2. cProc' \in Procs /\ cProc'.start = 0 /\ cProc'.born = cProc.born
    BY <2>1, Zenon DEF CTypes, Procs
  <2>. QED
    BY <2>1, <2>2 DEF CTypes, CSum, CGate, CFresh, States, Procs, Ghosts
<1>13. CASE C!Spawn
  <2>1. /\ cProc' = [start |-> cProc.born + 1, work |-> 0, born |-> cProc.born + 1] /\ cProc.born + 1 \in Nat
        /\ UNCHANGED <<cStream, cCache, cCfg, cGate, cCaller, cGhost>>
    BY <1>13 DEF C!Spawn, CTypes, Procs
  <2>. QED
    BY <2>1 DEF CTypes, CSum, CGate, CFresh, States, Procs, Ghosts
<1>14. CASE UNCHANGED C!vars
  BY <1>14, Zenon DEF C!vars, CTypes, CSum, CGate, CFresh, Covered, States
<1>. QED
  BY <1>3, <1>4, <1>5, <1>6, <1>7, <1>8, <1>9, <1>10, <1>11, <1>12, <1>13, <1>14, Zenon DEF C!Next

\* The collector starts with nothing sampled.
LEMMA CInit == C!Init => CInv
<1> SUFFICES ASSUME C!Init PROVE CInv
  BY Zenon
<1>1. CTypes
  BY Zenon DEF C!Init, CTypes, Procs, Ghosts, States, Bases, Clients, C!Idle, C!Uncounted, C!NewSamplingState
<1>2. CSum
  BY DEF C!Init, CSum, C!Uncounted
<1>3. CGate
  BY DEF C!Init, CGate, C!Idle
<1>. QED
  BY <1>1, <1>2, <1>3, Zenon DEF C!Init, CInv, CFresh

\* metrics/collector.go: no work of a process is reported to the decision twice
\* or under its successor's name, each average holds what the policy in force
\* selected, and no answer is older than the configuration its caller saw, for
\* any number of observers, processes and updates.
THEOREM CollectorUsageIsTrue == C!Spec => []UsageIsTrue
<1>1. C!Init => CInv
  BY CInit, Zenon
<1>2. CInv /\ [C!Next]_(C!vars) => CInv'
  BY CStep, Zenon
<1>3. CInv => UsageIsTrue
  <2> SUFFICES ASSUME CInv PROVE C!UsageIsTrue
    BY Zenon DEF UsageIsTrue
  <2>1. C!NoOvercount
    BY Zenon DEF CInv, CSum, Covered, C!NoOvercount
  <2>2. C!EMAOwnPolicy
    BY Zenon DEF CInv, CTypes, States, C!EMAOwnPolicy
  <2>3. C!FreshAnswers
    BY Zenon DEF CInv, CGate, CFresh, C!FreshAnswers, C!Callers
  <2>. QED
    BY <2>1, <2>2, <2>3, Zenon DEF C!UsageIsTrue
<1>. QED
  BY <1>1, <1>2, <1>3, PTL DEF C!Spec

\* What was told of an incarnation is what its counter gained up to the baseline, and
\* the second that a CPU sample waits for is counted from the baseline.
Told(g, b) ==
    /\ b # C!None /\ b.start = g.start
    /\ g.first + g.sum = b.work /\ b.work <= cProc.work
    /\ cCounter = "cpu" => b.age = g.age

\* A baseline is of the process reported on or of an earlier one, and while every
\* start time could be read the reports leave nothing out.
CTold ==
    LET b == cStream["decision"].base
    IN /\ cProc.start \in {0, cProc.born}
       /\ b # C!None => b.start <= cGhost.start
       /\ ~cGhost.blind /\ cGhost.start = cProc.start /\ cProc.start # 0 => Told(cGhost, b)

\* A sample reports all the counter gained, once a second has passed.
LEMMA SampleTells ==
    ASSUME cProc \in Procs, cProc.start # 0, NEW g \in Ghosts, NEW b \in Bases,
           b # C!None => b.start <= g.start, g.start <= cProc.start,
           ~g.blind /\ g.start = cProc.start => Told(g, b),
           NEW start \in {cProc.start, 0}, NEW r, NEW n,
           r = IF cCounter = "cpu" THEN C!CPUSample(b, start) ELSE C!IOSample(b, start),
           n = C!Counted(g, b, r, start)
    PROVE  /\ n.start = cProc.start
           /\ r.base # C!None => r.base.start <= n.start
           /\ ~n.blind => Told(n, r.base)
           /\ ~n.blind /\ g.start = cProc.start /\ g.age >= C!SampleInterval => n.first + n.sum = cProc.work
<1> DEFINE unknown == start = 0 \/ (b # C!None /\ b.start = 0)
           age == IF g.age >= C!SampleInterval THEN 0 ELSE g.age
<1>1. cProc.start \in Nat /\ cProc.work \in Nat /\ start \in Nat
  BY DEF Procs
<1>2. /\ g.start \in Nat /\ g.first \in Nat /\ g.sum \in Nat /\ g.age \in Nat /\ g.blind \in BOOLEAN
      /\ b # C!None => b.start \in Nat /\ b.work \in Nat /\ b.age \in Nat
  BY Zenon DEF Ghosts, Bases
<1>3. \A x : C!Baseline(x) # C!None /\ C!Baseline(x).start = x /\ C!Baseline(x).work = cProc.work /\ C!Baseline(x).age = 0
  BY Zenon DEF C!Baseline, C!None
<1>4. n.start = cProc.start
  BY Zenon DEF C!Counted, Ghosts
<1>5. r.base # C!None => r.base.start \in {start, b.start}
                         /\ (r.base.start = b.start => r.base.start = start \/ b # C!None)
  BY <1>3, Zenon DEF C!CPUSample, C!IOSample
<1>6. r.base # C!None => r.base.start <= n.start
  BY <1>1, <1>2, <1>4, <1>5
<1>7. CASE unknown
  <2>1. n.blind
    BY <1>7, Zenon DEF C!Counted, Ghosts
  <2>. QED
    BY <1>4, <1>6, <2>1, Zenon
<1>8. CASE ~unknown /\ g.start # cProc.start
  <2>1. start = cProc.start /\ (b # C!None => b.start # start)
    BY <1>1, <1>2, <1>8
  <2>2. r = [base |-> C!Baseline(start), delta |-> 0]
    BY <1>1, <1>8, <2>1, Zenon DEF C!CPUSample, C!IOSample
  <2>3. n = [start |-> cProc.start, first |-> cProc.work, sum |-> r.delta, age |-> 0, blind |-> unknown]
    BY <1>8, Zenon DEF C!Counted
  <2>4. n.first = cProc.work /\ n.sum = 0 /\ n.age = 0 /\ r.base = C!Baseline(start)
    BY <2>2, <2>3
  <2>. QED
    BY <1>1, <1>3, <1>4, <1>6, <1>8, <2>1, <2>4 DEF Told
<1>9. CASE ~unknown /\ g.start = cProc.start
  <2>1. n = [g EXCEPT !.sum = g.sum + r.delta, !.blind = g.blind \/ unknown, !.age = age]
    BY <1>9, Zenon DEF C!Counted
  <2>2. n.first = g.first /\ n.sum = g.sum + r.delta /\ n.age = age /\ (n.blind <=> g.blind)
    BY <1>9, <2>1, Zenon DEF Ghosts
  <2> SUFFICES ASSUME ~g.blind
               PROVE  Told(n, r.base) /\ (g.age >= C!SampleInterval => n.first + n.sum = cProc.work)
    BY <1>4, <1>6, <2>2, Zenon
  <2>3. Told(g, b) /\ start = cProc.start /\ start # 0 /\ b.start = start
    BY <1>9, Zenon DEF Told
  <2>4. C!Delta(b) = cProc.work - b.work
    BY <1>1, <1>2, <2>3 DEF Told, C!Delta
  <2>5. CASE cCounter = "cpu" /\ g.age < C!SampleInterval
    <3>1. b # C!None /\ b.age < C!SampleInterval
      BY <2>3, <2>5, Zenon DEF Told
    <3>2. r = [base |-> b, delta |-> 0]
      BY <2>3, <2>5, <3>1, Zenon DEF C!CPUSample
    <3>3. r.base = b /\ r.delta = 0
      BY <3>2
    <3>4. age = g.age /\ ~(g.age >= C!SampleInterval)
      BY <1>2, <2>5 DEF C!SampleInterval
    <3>5. n.first + n.sum = g.first + g.sum
      BY <1>2, <2>2, <3>3
    <3>. QED
      BY <1>4, <1>9, <2>2, <2>3, <3>3, <3>4, <3>5, Zenon DEF Told
  <2>6. CASE cCounter # "cpu" \/ ~(g.age < C!SampleInterval)
    <3>1. b # C!None /\ (cCounter = "cpu" => ~(b.age < C!SampleInterval))
      BY <2>3, <2>6, Zenon DEF Told
    <3>2. r = [base |-> C!Baseline(start), delta |-> C!Delta(b)]
      BY <2>3, <2>6, <3>1, Zenon DEF C!CPUSample, C!IOSample
    <3>3. r.base = C!Baseline(start) /\ r.delta = cProc.work - b.work
      BY <2>4, <3>2
    <3>4. cCounter = "cpu" => age = 0
      BY <1>2, <2>6 DEF C!SampleInterval
    <3>5. n.first + n.sum = cProc.work
      BY <1>1, <1>2, <2>2, <2>3, <3>3 DEF Told
    <3>. QED
      BY <1>1, <1>3, <1>4, <2>2, <2>3, <3>3, <3>4, <3>5 DEF Told
  <2>. QED
    BY <2>5, <2>6, Zenon
<1>. QED
  BY <1>7, <1>8, <1>9, Zenon

\* Every step keeps the account of what was told, and is one of those that tell all.
LEMMA CTells ==
    ASSUME CInv, CTold, [C!Next]_(C!vars)
    PROVE  CTold' /\ C!DecisionSeesWorkStep
<1> DEFINE b == cStream["decision"].base
<1>1. /\ cProc \in Procs /\ cGhost \in Ghosts /\ b \in Bases /\ cStream \in [C!Streams -> States]
      /\ cGhost.start <= cProc.born
  BY Zenon DEF CInv, CTypes, CSum, C!Streams, States
<1>2. ASSUME UNCHANGED <<cProc, cGhost, cCounter>>, cStream'["decision"].base = b
      PROVE  CTold' /\ C!DecisionSeesWorkStep
  BY <1>2, Zenon DEF CTold, Told, C!DecisionSeesWorkStep
<1>3. ASSUME NEW s \in C!Streams, C!Scan(s, cCfg.policy), UNCHANGED <<cProc, cCounter>>
      PROVE  CTold' /\ C!DecisionSeesWorkStep
  <2>1. CASE s # "decision"
    <3>1. cGhost' = cGhost /\ cStream'["decision"].base = b
      BY <1>1, <1>3, <2>1, Zenon DEF C!Scan, C!Fallback, C!Processes, C!Sampled, C!Unread, C!Pruned, C!Streams
    <3>. QED
      BY <1>2, <1>3, <3>1, Zenon
  <2>2. CASE s = "decision" /\ cProc.start # 0 /\ \E start \in {cProc.start, 0} : C!Sampled(s, cCfg.policy, start)
    <3>1. PICK start \in {cProc.start, 0} : C!Sampled("decision", cCfg.policy, start)
      BY <2>2, Zenon
    <3> DEFINE r == IF cCounter = "cpu" THEN C!CPUSample(b, start) ELSE C!IOSample(b, start)
    <3>2. /\ cStream' = [cStream EXCEPT !["decision"] = [base |-> r.base, ema |-> C!EMA(cStream["decision"], cCfg.policy)]]
          /\ cGhost' = C!Counted(cGhost, b, r, start)
      BY <3>1, Zenon DEF C!Sampled
    <3>3. cStream'["decision"].base = r.base
      <4> HIDE DEF r
      <4>. QED
        BY <1>1, <3>2, Zenon DEF C!Streams
    <3>4. /\ cProc.start = cProc.born /\ cGhost.start <= cProc.start
          /\ b # C!None => b.start <= cGhost.start
          /\ ~cGhost.blind /\ cGhost.start = cProc.start => Told(cGhost, b)
      BY <1>1, <2>2, Zenon DEF CTold
    <3>5. /\ cGhost'.start = cProc.start
          /\ r.base # C!None => r.base.start <= cGhost'.start
          /\ ~cGhost'.blind => Told(cGhost', r.base)
          /\ ~cGhost'.blind /\ cGhost.start = cProc.start /\ cGhost.age >= C!SampleInterval
               => cGhost'.first + cGhost'.sum = cProc.work
      <4>1. r = IF cCounter = "cpu" THEN C!CPUSample(b, start) ELSE C!IOSample(b, start)
        OBVIOUS
      <4> HIDE DEF b, r
      <4>. QED
        BY <1>1, <2>2, <3>2, <3>4, <4>1, SampleTells, Zenon
    <3> HIDE DEF r
    <3>. QED
      BY <1>3, <3>3, <3>4, <3>5, Zenon DEF CTold, Told, C!DecisionSeesWorkStep
  <2>3. CASE s = "decision" /\ C!Pruned(s)
    <3>1. /\ cStream' = [cStream EXCEPT !["decision"] = [base |-> C!None, ema |-> {}]]
          /\ cGhost' = [cGhost EXCEPT !.blind = TRUE]
      BY <2>3, Zenon DEF C!Pruned, C!NewSamplingState
    <3>2. cStream'["decision"].base = C!None /\ cGhost'.blind
      BY <1>1, <3>1, Zenon DEF C!Streams, Ghosts
    <3>. QED
      BY <1>3, <3>2, Zenon DEF CTold, C!DecisionSeesWorkStep
  <2>4. CASE UNCHANGED <<cStream, cGhost>>
    BY <1>2, <1>3, <2>4, Zenon
  <2>5. CASE C!Unread(s, cCfg.policy)
    <3>1. cGhost' = cGhost /\ cStream'["decision"].base = b
      BY <1>1, <1>3, <2>5, Zenon DEF C!Unread, C!Streams, States
    <3>. QED
      BY <1>2, <1>3, <3>1, Zenon
  <2>. QED
    BY <1>3, <2>1, <2>2, <2>3, <2>4, <2>5, Zenon DEF C!Scan, C!Fallback, C!Processes
<1>4. ASSUME NEW o \in cObservers, C!Observe(o) \/ C!ObserveEnter(o) PROVE CTold' /\ C!DecisionSeesWorkStep
  BY <1>2, <1>4, Zenon DEF C!Observe, C!ObserveEnter
<1>5. ASSUME NEW o \in cObservers, C!ObserveScan(o) PROVE CTold' /\ C!DecisionSeesWorkStep
  BY <1>3, <1>5, Zenon DEF C!ObserveScan, C!Streams
<1>6. CASE C!DecisionScan
  BY <1>3, <1>6, Zenon DEF C!DecisionScan, C!Streams
<1>7. CASE C!DecisionEnter \/ C!CleanupCache \/ UNCHANGED C!vars
  BY <1>2, <1>7, Zenon DEF C!DecisionEnter, C!CleanupCache, C!vars
<1>8. ASSUME NEW p \in cPolicies, C!UpdateConfig(p) PROVE CTold' /\ C!DecisionSeesWorkStep
  <2>1. UNCHANGED <<cProc, cGhost, cCounter>> /\ (C!ResetEnforceableEMA \/ UNCHANGED cStream)
    BY <1>8, Zenon DEF C!UpdateConfig
  <2>2. cStream'["decision"].base = b
    BY <1>1, <2>1, Zenon DEF C!ResetEnforceableEMA, C!Streams, States
  <2>. QED
    BY <1>2, <2>1, <2>2, Zenon
<1>9. CASE C!Tick
  <2> DEFINE o(x) == C!Older(x, C!SampleInterval)
  <2>1. /\ UNCHANGED <<cProc, cCounter>> /\ cGhost' = [cGhost EXCEPT !.age = o(cGhost.age)]
        /\ cStream' = [s \in C!Streams |-> IF cStream[s].base = C!None THEN cStream[s]
                         ELSE [cStream[s] EXCEPT !.base.age = o(cStream[s].base.age)]]
    BY <1>9, Zenon DEF C!Tick
  <2>2. /\ cGhost'.start = cGhost.start /\ cGhost'.first = cGhost.first /\ cGhost'.sum = cGhost.sum
        /\ cGhost'.age = o(cGhost.age) /\ (cGhost'.blind <=> cGhost.blind)
    BY <1>1, <2>1, Zenon DEF Ghosts
  <2>3. cStream'["decision"] = IF b = C!None THEN cStream["decision"]
                               ELSE [cStream["decision"] EXCEPT !.base = [b EXCEPT !.age = o(b.age)]]
    <3> HIDE DEF o
    <3>. QED
      BY <2>1, Zenon DEF C!Streams
  <2>4. cStream'["decision"].base = IF b = C!None THEN C!None ELSE [b EXCEPT !.age = o(b.age)]
    <3> HIDE DEF o
    <3>. QED
      BY <1>1, <2>3, Zenon DEF C!Streams, States
  <2> DEFINE c == cStream'["decision"].base
  <2>5. c # C!None => b # C!None /\ c.start = b.start /\ c.work = b.work /\ c.age = o(b.age)
    <3> HIDE DEF o
    <3>. QED
      BY <1>1, <2>4, Zenon DEF Bases
  <2>6. b # C!None => c # C!None
    <3>1. ASSUME b # C!None PROVE [b EXCEPT !.age = o(b.age)] # C!None
      <4>1. b \in [start : Nat, work : Nat, age : Nat] /\ o(b.age) \in Nat
        BY <1>1, <3>1 DEF Bases, C!Older, C!SampleInterval
      <4> HIDE DEF o
      <4>. QED
        BY <4>1, NoneIsNoBase, Zenon
    <3> HIDE DEF o
    <3>. QED
      BY <2>4, <3>1, Zenon
  <2>7. CTold'
    <3> HIDE DEF o, c
    <3>1. (cStream'["decision"].base) = c
      BY Zenon DEF c
    <3>. QED
      BY <2>1, <2>2, <2>5, <2>6, <3>1, Zenon DEF CTold, Told
  <2>8. cGhost.age >= C!SampleInterval => cGhost' = cGhost
    <3>1. cGhost.age >= C!SampleInterval => o(cGhost.age) = cGhost.age
      BY <1>1 DEF Ghosts, C!Older, C!SampleInterval
    <3> HIDE DEF o
    <3>. QED
      BY <1>1, <2>1, <3>1, Zenon DEF Ghosts
  <2>. QED
    BY <2>7, <2>8, Zenon DEF C!DecisionSeesWorkStep
<1>10. CASE C!Work
  <2>1. /\ UNCHANGED <<cStream, cGhost, cCounter>> /\ cProc' = [cProc EXCEPT !.work = cProc.work + 1]
    BY <1>10, Zenon DEF C!Work
  <2>2. cProc'.start = cProc.start /\ cProc'.born = cProc.born /\ cProc'.work = cProc.work + 1
    BY <1>1, <2>1, Zenon DEF Procs
  <2>3. b # C!None /\ b.work <= cProc.work => b.work <= cProc'.work
    BY <1>1, <2>2 DEF Bases, Procs
  <2>. QED
    BY <2>1, <2>2, <2>3, Zenon DEF CTold, Told, C!DecisionSeesWorkStep
<1>11. CASE C!Exit \/ C!Spawn
  <2>1. /\ UNCHANGED <<cStream, cGhost, cCounter>>
        /\ cProc'.start = 0 \/ (cProc'.start = cProc'.born /\ cProc'.start = cProc.born + 1)
    <3>1. CASE C!Exit
      <4>1. UNCHANGED <<cStream, cGhost, cCounter>> /\ cProc' = [cProc EXCEPT !.start = 0, !.work = 0]
        BY <3>1, Zenon DEF C!Exit
      <4>. QED
        BY <1>1, <4>1, Zenon DEF Procs
    <3>2. CASE C!Spawn
      BY <3>2 DEF C!Spawn
    <3>. QED
      BY <1>11, <3>1, <3>2, Zenon
  <2>2. cProc'.start # 0 => cGhost.start # cProc'.start
    BY <1>1, <2>1 DEF Ghosts, Procs
  <2>. QED
    BY <2>1, <2>2, Zenon DEF CTold, C!DecisionSeesWorkStep
<1>. QED
  BY <1>4, <1>5, <1>6, <1>7, <1>8, <1>9, <1>10, <1>11, Zenon DEF C!Next

-----------------------------------------------------------------------------
(* The sampling of the host *)

\* What the variables of the sampler hold.
Jiffies == [total : Nat, idle : Nat, at : Nat]
Counters == [total : Nat, idle : Nat, resets : Nat]
Readings == [total : Nat, idle : Nat, read : Nat, resets : Nat]

HostTypes ==
    /\ hHost \in Counters /\ hNow \in Nat
    /\ hBase \in [H!Streams -> Jiffies \cup {H!NoSample}]
    /\ hTruth \in [H!Streams -> Readings \cup {H!NoSample}]
    /\ hCaller \in [H!Callers -> Readings \cup {H!NoSample, H!Storing}]

\* The readings in the hands of a caller and behind a baseline.
Taken == {x \in Readings : \/ \E c \in H!Callers : x = hCaller[c]
                           \/ \E s \in H!Streams : x = hTruth[s]}

\* A reading is of the past, and of two that were taken of the same counters the
\* one with more jiffies is not the earlier one.
Past(x) == /\ x.read <= hNow /\ x.resets <= hHost.resets
           /\ x.resets = hHost.resets => x.total <= hHost.total
Ordered(x, y) == x.resets = y.resets /\ x.total < y.total => x.read <= y.read

\* The inductive invariant: the ghost of a stream has the counters of its baseline.
HostInv ==
    /\ HostTypes
    /\ \A s \in H!Streams : hBase[s] # H!NoSample =>
          /\ hTruth[s] # H!NoSample
          /\ hTruth[s].total = hBase[s].total /\ hTruth[s].idle = hBase[s].idle
    /\ \A x \in Taken : Past(x)
    /\ \A x, y \in Taken : Ordered(x, y)

\* No sample, and no caller that stores one, is taken for a reading.
LEMMA NoSampleIsNone ==
    /\ H!NoSample \notin Jiffies /\ H!NoSample \notin Readings
    /\ H!Storing \notin Readings
<1>1. H!NoSample \notin Jiffies
  BY Zenon DEF H!NoSample, Jiffies
<1>2. H!NoSample \notin Readings
  BY Zenon DEF H!NoSample, Readings
<1>3. H!Storing \notin Readings
  BY Zenon DEF H!Storing, Readings
<1>. QED
  BY <1>1, <1>2, <1>3, Zenon

\* Time and the counters only go on, or start over.
LEMMA HostMoves ==
    ASSUME HostInv, UNCHANGED <<hBase, hTruth, hCaller>>, hHost' \in Counters, hNow' \in Nat,
           hNow <= hNow', \/ hHost'.resets > hHost.resets
                          \/ hHost'.resets = hHost.resets /\ hHost'.total >= hHost.total
    PROVE  HostInv'
<1>1. Taken' = Taken /\ HostTypes'
  BY Zenon DEF Taken, HostInv, HostTypes
<1>2. ASSUME NEW x \in Taken PROVE Past(x)'
  <2>1. x.read \in Nat /\ x.resets \in Nat /\ x.total \in Nat /\ Past(x)
    BY Zenon DEF Taken, Readings, HostInv
  <2>2. hHost.resets \in Nat /\ hHost.total \in Nat /\ hNow \in Nat
        /\ hHost'.resets \in Nat /\ hHost'.total \in Nat
    BY Zenon DEF HostInv, HostTypes, Counters
  <2>. QED
    BY <2>1, <2>2 DEF Past
<1>3. (\A x, y \in Taken : Ordered(x, y))'
  BY <1>1, Zenon DEF HostInv, Ordered
<1>. QED
  BY <1>1, <1>2, <1>3, Zenon DEF HostInv

\* A caller that puts its reading into its stream, or gives it up, takes none.
LEMMA HostKeeps ==
    ASSUME HostInv, UNCHANGED <<hHost, hNow>>, HostTypes', Taken' \subseteq Taken,
           \A s \in H!Streams : hBase'[s] # H!NoSample =>
              /\ hTruth'[s] # H!NoSample
              /\ hTruth'[s].total = hBase'[s].total /\ hTruth'[s].idle = hBase'[s].idle
    PROVE  HostInv'
BY Zenon DEF HostInv, Past, Ordered

\* The counters are read.
LEMMA HostReads ==
    ASSUME HostInv, NEW c \in H!Callers, H!ReadCounters(c)
    PROVE  HostInv'
<1> DEFINE r == H!Reading
<1>1. r = [total |-> hHost.total, idle |-> hHost.idle, read |-> hNow, resets |-> hHost.resets]
  BY Zenon DEF H!Reading
<1>2. hHost.total \in Nat /\ hHost.idle \in Nat /\ hHost.resets \in Nat /\ hNow \in Nat
  BY Zenon DEF HostInv, HostTypes, Counters
<1>3. r \in Readings /\ r.total = hHost.total /\ r.read = hNow /\ r.resets = hHost.resets
  BY <1>1, <1>2, Zenon DEF Readings
<1> HIDE DEF r
<1>4. PICK w : /\ w \in {r, H!NoSample, H!Storing} /\ hCaller' = [hCaller EXCEPT ![c] = w]
               /\ UNCHANGED <<hHost, hNow, hBase, hTruth>>
  BY Zenon DEF H!ReadCounters, H!Answered, r
<1>5. HostTypes'
  BY <1>3, <1>4, Zenon DEF HostInv, HostTypes
<1>6. Taken' \subseteq Taken \cup {r}
  <2>1. hCaller \in [H!Callers -> Readings \cup {H!NoSample, H!Storing}]
    BY Zenon DEF HostInv, HostTypes
  <2>. QED
    BY <1>4, <2>1, NoSampleIsNone, Zenon DEF Taken
<1>7. Past(r) /\ Ordered(r, r)
  BY <1>2, <1>3 DEF Past, Ordered
<1>8. ASSUME NEW x \in Taken PROVE Ordered(x, r) /\ Ordered(r, x)
  <2>1. x.read \in Nat /\ x.resets \in Nat /\ x.total \in Nat /\ Past(x)
    BY Zenon DEF Taken, Readings, HostInv
  <2>. QED
    BY <1>2, <1>3, <2>1 DEF Past, Ordered
<1>9. \A x \in Taken' : Past(x)'
  BY <1>4, <1>6, <1>7, Zenon DEF HostInv, Past
<1>10. \A x, y \in Taken' : Ordered(x, y)
  BY <1>6, <1>7, <1>8, Zenon DEF HostInv
<1>11. (\A x, y \in Taken : Ordered(x, y))'
  BY <1>10, Zenon DEF Ordered
<1>. QED
  BY <1>4, <1>5, <1>9, <1>11, Zenon DEF HostInv

\* What an update does, of the reading that its caller holds.
LEMMA Updates ==
    ASSUME HostInv, NEW c \in H!Callers, H!UpdateSample(c)
    PROVE  /\ hCaller[c] \in Readings /\ H!StreamOf(c) \in H!Streams
           /\ UNCHANGED <<hHost, hNow>> /\ hCaller' = [hCaller EXCEPT ![c] = H!Answered(c)]
           /\ hTruth' = [hTruth EXCEPT ![H!StreamOf(c)] = hCaller[c]]
           /\ \E at \in Nat :
                /\ hSample' = H!Update(hBase[H!StreamOf(c)], hCaller[c], at, H!MaxGap(H!StreamOf(c)))
                /\ hBase' = [hBase EXCEPT ![H!StreamOf(c)] =
                       [total |-> hCaller[c].total, idle |-> hCaller[c].idle, at |-> at]]
<1>1. hCaller[c] \in Readings
  BY Zenon DEF H!UpdateSample, HostInv, HostTypes
<1>2. hCaller[c].read \in Nat /\ hNow \in Nat
  BY <1>1, Zenon DEF Readings, HostInv, HostTypes
<1>3. hCaller[c].read..hNow \subseteq Nat
  BY <1>2
<1>4. H!StreamOf(c) \in H!Streams
  BY Zenon DEF H!StreamOf, H!Streams
<1>. QED
  BY <1>1, <1>3, <1>4, Zenon DEF H!UpdateSample

\* A reading becomes the baseline of its stream.
LEMMA HostUpdates ==
    ASSUME HostInv, NEW c \in H!Callers, H!UpdateSample(c)
    PROVE  HostInv'
<1> DEFINE r == hCaller[c]
           s == H!StreamOf(c)
<1>1. /\ r \in Readings /\ s \in H!Streams /\ UNCHANGED <<hHost, hNow>>
      /\ hCaller' = [hCaller EXCEPT ![c] = H!Answered(c)] /\ hTruth' = [hTruth EXCEPT ![s] = r]
  BY Updates, Zenon
<1>2. PICK at \in Nat : hBase' = [hBase EXCEPT ![s] = [total |-> r.total, idle |-> r.idle, at |-> at]]
  BY Updates, Zenon
<1>3. H!Answered(c) \in {H!NoSample, H!Storing}
  BY Zenon DEF H!Answered
<1>4. HostTypes
  BY Zenon DEF HostInv
<1> HIDE DEF r, s
<1>5. [total |-> r.total, idle |-> r.idle, at |-> at] \in Jiffies
  BY <1>1, Zenon DEF Readings, Jiffies
<1>6. HostTypes'
  BY <1>1, <1>2, <1>3, <1>4, <1>5, Zenon DEF HostTypes
<1>7. r \in Taken
  BY <1>1, Zenon DEF Taken, r
<1>8. Taken' \subseteq Taken
  BY <1>1, <1>3, <1>4, <1>7, NoSampleIsNone, Zenon DEF Taken, HostTypes
<1>9. ASSUME NEW t \in H!Streams, hBase'[t] # H!NoSample
      PROVE  hTruth'[t] # H!NoSample /\ hTruth'[t].total = hBase'[t].total /\ hTruth'[t].idle = hBase'[t].idle
  <2>1. CASE t = s
    BY <1>1, <1>2, <1>4, <2>1, NoSampleIsNone, Zenon DEF HostTypes
  <2>2. CASE t # s
    BY <1>1, <1>2, <1>4, <1>9, <2>2, Zenon DEF HostInv, HostTypes
  <2>. QED
    BY <2>1, <2>2, Zenon
<1>. QED
  BY <1>1, <1>6, <1>8, <1>9, HostKeeps, Zenon

\* Readings, updates and the host keep the invariant.
LEMMA HostSteps ==
    ASSUME HostInv, [H!Next]_(H!vars)
    PROVE  HostInv'
<1>1. hNow \in Nat /\ hHost \in Counters /\ HostTypes
  BY Zenon DEF HostInv, HostTypes
<1>2. hHost.total \in Nat /\ hHost.idle \in Nat /\ hHost.resets \in Nat
  BY <1>1, Zenon DEF Counters
<1>3. ASSUME NEW c \in H!Callers, H!StoreObservation(c) PROVE HostInv'
  <2>1. UNCHANGED <<hHost, hNow, hBase, hTruth>> /\ hCaller' = [hCaller EXCEPT ![c] = H!NoSample]
    BY <1>3, Zenon DEF H!StoreObservation
  <2>2. HostTypes'
    BY <1>1, <2>1, Zenon DEF HostTypes
  <2>3. Taken' \subseteq Taken
    BY <1>1, <2>1, NoSampleIsNone, Zenon DEF Taken, HostTypes
  <2>. QED
    BY <2>1, <2>2, <2>3, HostKeeps, Zenon DEF HostInv
<1>4. CASE H!Tick
  <2>1. PICK i \in 0..1 : hHost' = [hHost EXCEPT !.total = hHost.total + 1, !.idle = hHost.idle + i]
    BY <1>4, Zenon DEF H!Tick
  <2>2. hHost.total + 1 \in Nat /\ hHost.idle + i \in Nat /\ hHost.total + 1 >= hHost.total
        /\ hNow + 1 \in Nat /\ hNow <= hNow + 1
    BY <1>1, <1>2
  <2>3. hHost' \in Counters /\ hHost'.resets = hHost.resets /\ hHost'.total = hHost.total + 1
    BY <1>1, <2>1, <2>2, Zenon DEF Counters
  <2>4. hNow' = hNow + 1 /\ UNCHANGED <<hBase, hTruth, hCaller>>
    BY <1>4, Zenon DEF H!Tick
  <2>. QED
    BY <2>2, <2>3, <2>4, HostMoves, Zenon
<1>5. CASE H!Reset
  <2>1. PICK t \in 0..1 : hHost' = [total |-> t, idle |-> 0, resets |-> hHost.resets + 1]
    BY <1>5, Zenon DEF H!Reset
  <2>2. hHost' \in Counters /\ hHost'.resets > hHost.resets
    BY <1>2, <2>1 DEF Counters
  <2>3. hNow' = hNow /\ UNCHANGED <<hBase, hTruth, hCaller>> /\ hNow <= hNow
    BY <1>1, <1>5 DEF H!Reset
  <2>. QED
    BY <1>1, <2>2, <2>3, HostMoves, Zenon
<1>6. CASE UNCHANGED H!vars
  <2>1. UNCHANGED <<hHost, hNow, hBase, hTruth, hCaller>>
    BY <1>6, Zenon DEF H!vars
  <2>. QED
    BY <1>1, <2>1, HostKeeps, Zenon DEF HostInv, HostTypes, Taken
<1>. QED
  BY <1>3, <1>4, <1>5, <1>6, HostReads, HostUpdates, Zenon DEF H!Next

\* A sample is of the interval since the baseline it replaces.
LEMMA OwnInterval ==
    ASSUME HostInv, [H!Next]_(H!vars)
    PROVE  H!OwnIntervalStep
<1> SUFFICES ASSUME NEW c \in H!Callers, hCaller[c] \notin {H!NoSample, H!Storing},
                    hCaller'[c] # hCaller[c], hSample'.available
             PROVE  LET r == hCaller[c]
                        p == hTruth[H!StreamOf(c)]
                    IN  /\ hSample'.of > 0 /\ hSample'.busy \in 0..hSample'.of
                        /\ p # H!NoSample /\ hSample'.age \in 0..H!MaxGap(H!StreamOf(c))
                        /\ p.resets = r.resets =>
                             /\ p.read <= r.read
                             /\ hSample'.of = r.total - p.total
                             /\ hSample'.busy = hSample'.of - (r.idle - p.idle)
  BY Zenon DEF H!OwnIntervalStep
<1>1. H!UpdateSample(c)
  <2>1. hCaller \in [H!Callers -> Readings \cup {H!NoSample, H!Storing}]
    BY Zenon DEF HostInv, HostTypes
  <2>2. ASSUME NEW d \in H!Callers,
               H!ReadCounters(d) \/ H!UpdateSample(d) \/ H!StoreObservation(d)
        PROVE  H!UpdateSample(c)
    <3>1. CASE d = c
      BY <2>2, <3>1, Zenon DEF H!ReadCounters, H!StoreObservation
    <3>2. CASE d # c
      BY <2>1, <2>2, <3>2, Zenon DEF H!ReadCounters, H!StoreObservation, H!UpdateSample
    <3>. QED
      BY <3>1, <3>2, Zenon
  <2>. QED
    BY <2>2, Zenon DEF H!Next, H!Tick, H!Reset, H!vars
<1> DEFINE s == H!StreamOf(c)
           r == hCaller[c]
           b == hBase[s]
           p == hTruth[s]
           total == r.total - b.total
           idle == r.idle - b.idle
<1>2. r \in Readings /\ s \in H!Streams
  BY <1>1, Updates, Zenon
<1>3. PICK at \in Nat : hSample' = H!Update(b, r, at, H!MaxGap(s))
  BY <1>1, Updates, Zenon
<1> DEFINE age == at - b.at
<1>4. \A reason : ~H!Unavailable(reason).available
  BY Zenon DEF H!Unavailable
<1>5. H!MaxGap(s) \in Nat /\ H!MaxGap(s) > 0
  <2>1. hDecisionGap \in Nat /\ hDecisionGap > 0 /\ hObservationGap \in Nat /\ hObservationGap > 0
    BY HostCPUAssumption
  <2>. QED
    BY <2>1, Zenon DEF H!MaxGap
<1> HIDE DEF s
<1>6. /\ b # H!NoSample /\ ~(age < 0 \/ (H!MaxGap(s) > 0 /\ age > H!MaxGap(s)))
      /\ ~(total < 0 \/ idle < 0) /\ total # 0 /\ ~(idle > total)
      /\ hSample' = [available |-> TRUE, reason |-> "none", busy |-> total - idle, of |-> total, age |-> age]
  BY <1>3, <1>4, Zenon DEF H!Update
<1>7. b \in Jiffies /\ p \in Readings /\ p # H!NoSample /\ p.total = b.total /\ p.idle = b.idle
  BY <1>2, <1>6, Zenon DEF HostInv, HostTypes
<1>8. Ordered(p, r)
  BY <1>2, <1>7, Zenon DEF HostInv, Taken
<1>9. hSample'.of = total /\ hSample'.busy = total - idle /\ hSample'.age = age
  BY <1>6, Zenon
<1>10. /\ b.total \in Nat /\ b.idle \in Nat /\ b.at \in Nat
       /\ r.total \in Nat /\ r.idle \in Nat
       /\ p.resets = r.resets /\ p.total < r.total => p.read <= r.read
  BY <1>2, <1>7, <1>8, Zenon DEF Jiffies, Readings, Ordered
<1> HIDE DEF r, b, p
<1>11. total > 0 /\ total - idle \in 0..total /\ age \in 0..H!MaxGap(s) /\ b.total < r.total
  BY <1>5, <1>6, <1>10
<1>12. p.resets = r.resets => p.read <= r.read
  BY <1>7, <1>10, <1>11, Zenon
<1>. QED
  BY <1>7, <1>9, <1>11, <1>12, Zenon DEF s, r, p

\* metrics/collector.go: a decision scan a second after the last one reports all
\* that the process did in between, and a host percentage is of the interval since
\* the same stream's last reading, whatever the observers sample meanwhile.
THEOREM SamplersAreSeparate == C!Spec /\ H!Spec => StreamsAreSeparate
<1>1. C!Init => CInv /\ CTold
  <2> SUFFICES ASSUME C!Init PROVE CTold
    BY CInit, Zenon
  <2>1. cStream["decision"].base = C!None /\ cGhost.start = 0 /\ cProc.start = 1 /\ cProc.born = 1
    BY Zenon DEF C!Init, C!Uncounted, C!NewSamplingState, C!Streams
  <2>. QED
    BY <2>1 DEF CTold
<1>2. CInv /\ CTold /\ [C!Next]_(C!vars) => (CInv /\ CTold)' /\ C!DecisionSeesWorkStep
  BY CStep, CTells, Zenon
<1>3. C!Spec => [][C!DecisionSeesWorkStep]_(C!vars)
  BY <1>1, <1>2, PTL DEF C!Spec
<1>4. H!Init => HostInv
  <2> SUFFICES ASSUME H!Init PROVE HostInv
    OBVIOUS
  <2>1. hHost \in Counters /\ hNow \in Nat
    BY DEF H!Init, Counters
  <2>2. HostTypes
    BY <2>1, Zenon DEF H!Init, HostTypes
  <2>3. Taken = {}
    BY NoSampleIsNone, Zenon DEF H!Init, Taken
  <2>. QED
    BY <2>2, <2>3, Zenon DEF H!Init, HostInv
<1>5. HostInv /\ [H!Next]_(H!vars) => HostInv' /\ H!OwnIntervalStep
  BY HostSteps, OwnInterval, Zenon
<1>6. H!Spec => [][H!OwnIntervalStep]_(H!vars)
  BY <1>4, <1>5, PTL DEF H!Spec
<1>. QED
  BY <1>3, <1>6, PTL DEF StreamsAreSeparate
=============================================================================
