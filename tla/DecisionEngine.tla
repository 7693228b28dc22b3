--------------------------- MODULE DecisionEngine ---------------------------
(***************************************************************************)
(* The decision of the control cycle and what it remembers from one cycle  *)
(* to the next: makeDecision of state/decision_engine.go, its threshold    *)
(* and stability trackers, and the two enforcement families (CPU, and      *)
(* RAM/IO) whose activation times it reads.                                *)
(*                                                                         *)
(* A cycle holds the operation gate from its first stage to its last, and  *)
(* time may pass between its stages.  What the systemd adapter makes of a  *)
(* stage is left open: every reconciliation may publish any plan, release, *)
(* or fail.  Times are kept as ages, which Tick advances.  Ages stop at    *)
(* Horizon, past which no comparison of the code can tell them apart.      *)
(***************************************************************************)
EXTENDS Integers, FiniteSets, FiniteSetsExt

CONSTANTS
    Users,        \* UIDs of the user slices that CPU Points may limit
    MinActive,    \* MIN_ACTIVE_TIME
    Stability,    \* three times POLLING_INTERVAL
    CPUDuration,  \* CPU_THRESHOLD_DURATION
    IODuration,   \* IO_THRESHOLD_DURATION
    IgnoreLoad    \* IGNORE_SYSTEM_LOAD

ASSUME DurationsAssumption == {MinActive, Stability, CPUDuration, IODuration} \subseteq Nat

VARIABLES
    limits,   \* the Manager fields that say what is requested and enforced
    since,    \* UserStabilityTracker.belowThresholdSince
    cpuOver,  \* thresholdTracker.firstOverThresholdTime
    ioOver,   \* ioThresholdTracker.firstOverThresholdTime
    run       \* the controlCycleContext: its stage, its decision and reason

trackers == <<since, cpuOver, ioOver>>
vars == <<limits, trackers, run>>

-----------------------------------------------------------------------------
(* Ages.  Unset is the zero time. *)

Unset == -1
Horizon == Max({MinActive, Stability, CPUDuration, IODuration})
Age == Unset .. Horizon
Older(age) == IF age \in {Unset, Horizon} THEN age ELSE age + 1
Started(age) == IF age = Unset THEN 0 ELSE age

(* A level places an aggregate against its two thresholds; release < activation
   by configuration validation.  A resource that is disabled stays "below", and
   CPU whose core count is unknown is "between": neither over nor below. *)
Level == {"below", "between", "over"}

(* What makeDecision reads of one decision sample: the aggregates' levels,
   whether I/O coverage is incomplete, who causes a high load average, and the
   users whose own CPU EMA is known and below the release threshold. *)
Sample == [cpu : Level, ram : Level, io : Level, incomplete : BOOLEAN,
           load : {"normal", "own", "external"}, calm : SUBSET Users]

-----------------------------------------------------------------------------
(* The enforcement families. *)

Limits == [users : SUBSET Users, cpuAge : Age, cpuRequested : BOOLEAN,
           resources : BOOLEAN, resAge : Age, resRequested : BOOLEAN]

NoLimits == [users |-> {}, cpuAge |-> Unset, cpuRequested |-> FALSE,
             resources |-> FALSE, resAge |-> Unset, resRequested |-> FALSE]

AnyLimits(l) == l.users # {} \/ l.resources

Published(l, users) ==
    [l EXCEPT !.users = users, !.cpuAge = IF l.users = {} THEN 0 ELSE @]

RestoredCPU(l) ==
    [l EXCEPT !.users = {}, !.cpuAge = Unset, !.cpuRequested = FALSE]

(* refreshResourceLimitsActiveLocked *)
Refreshed(l, active) ==
    [l EXCEPT !.resources = active,
              !.resAge = IF ~active THEN Unset ELSE IF l.resources THEN @ ELSE 0]

(* What a CPU Points reconciliation may leave behind: a failure keeps the
   published plan, an empty eligible topology releases it. *)
ReconciledCPU(l) ==
    {l, RestoredCPU(l)} \cup {Published(l, users) : users \in (SUBSET Users) \ {{}}}

(* The same for RAM and I/O; nothing desired withdraws the request. *)
ReconciledResources(l) ==
    {l} \cup {[Refreshed(l, active) EXCEPT !.resRequested = requested] :
                active, requested \in BOOLEAN}

RestoredResources(l) == [Refreshed(l, FALSE) EXCEPT !.resRequested = FALSE]

Activated(l, cpu, resources) ==
    LET asked == [l EXCEPT !.cpuRequested = cpu, !.resRequested = resources]
        afterCPU == IF cpu THEN ReconciledCPU(asked) ELSE {asked, RestoredCPU(asked)}
    IN  UNION {IF resources THEN ReconciledResources(x) ELSE {x, RestoredResources(x)} :
                 x \in afterCPU}

Deactivated(l) == {l, NoLimits}

(* executeDecision in systemd-native mode. *)
Executed(l, decision) ==
    CASE decision = "ACTIVATE"   -> UNION {Activated(l, cpu, resources) :
                                             cpu, resources \in BOOLEAN}
      [] decision = "DEACTIVATE" -> Deactivated(l)
      [] decision = "MAINTAIN"   -> IF l.resRequested THEN ReconciledResources(l) ELSE {l}

(* stageReconcileCPUPoints: nothing unless CPU enforcement is requested; a plan
   verified less than one polling interval ago is reused as it is. *)
Verified(l) == IF l.cpuRequested THEN ReconciledCPU(l) ELSE {l}

-----------------------------------------------------------------------------
(* The cycle context, and makeDecision.  The reason names what exceeded its
   threshold, as buildActivateReason reports it. *)

Runs == [decision : {"none", "pending", "ACTIVATE", "DEACTIVATE", "MAINTAIN"},
         reason : SUBSET {"cpu", "ram", "io"}]

Idle == [decision |-> "none", reason |-> {}]
Sampling == [decision |-> "pending", reason |-> {}]
Maintain == [decision |-> "MAINTAIN", reason |-> {}]
Deactivate == [decision |-> "DEACTIVATE", reason |-> {}]
Activate(reason) == [decision |-> "ACTIVATE", reason |-> reason]

UnderLoad(s) == s.load # "normal"
Suppressed(s) == s.load = "external" /\ ~IgnoreLoad
AllBelow(s) == s.cpu = "below" /\ s.ram = "below" /\ s.io = "below" /\ ~s.incomplete

IOTracked(s) == IF IODuration > 0 /\ s.io = "over" THEN Started(ioOver) ELSE Unset
IOExceeded(s) == s.io = "over" /\ (IODuration = 0 \/ IOTracked(s) >= IODuration)
Reasons(s) == {r \in {"cpu", "ram"} : s[r] = "over"} \cup
              {r \in {"io"} : IOExceeded(s)}
AnyExceeded(s) == Reasons(s) # {}
IOPending(s) == s.io = "over" /\ ~AnyExceeded(s)

(* Mutant: the CPU family's activation time decides alone when it is set. *)
FirstNewest(l) == IF l.cpuAge = Unset THEN l.resAge ELSE l.cpuAge

(* The later of the two activation times decides. *)
Newest(l) ==
    IF l.cpuAge = Unset \/ (l.resAge # Unset /\ l.resAge < l.cpuAge)
    THEN l.resAge ELSE l.cpuAge

Held(l) == Newest(l) # Unset /\ Newest(l) < MinActive

NothingTracked == [u \in Users |-> Unset]

(* Mutant: every cycle starts the cool-down again. *)
RestartedTracking(users, calm) ==
    [u \in Users |-> IF u \in users \cap calm THEN 0 ELSE Unset]

(* AllBelowThreshold: the tracker after the call, and its answer. *)
Tracking(users, calm) ==
    [u \in Users |-> IF u \in users \cap calm THEN Started(since[u]) ELSE Unset]

Stable(users, calm) ==
    \A u \in users : u \in calm /\ since[u] # Unset /\ since[u] >= Stability

(* Only I/O is over its threshold, and not for long enough. *)
WaitForIO(s) ==
    /\ IOPending(s)
    /\ cpuOver' = Unset
    /\ ioOver' = IOTracked(s)
    /\ run' = Maintain
    /\ UNCHANGED since

(* Limits are active and younger than MIN_ACTIVE_TIME. *)
Hold(s) ==
    /\ ~IOPending(s) /\ AnyLimits(limits) /\ Held(limits)
    /\ ioOver' = IOTracked(s)
    /\ run' = Maintain
    /\ UNCHANGED <<since, cpuOver>>

(* Active limits whose release the sample itself refuses. *)
Refuse(s) ==
    /\ ~IOPending(s) /\ AnyLimits(limits) /\ ~Held(limits) /\ ~AllBelow(s)
    /\ since' = NothingTracked
    /\ ioOver' = IOTracked(s)
    /\ run' = Maintain
    /\ UNCHANGED cpuOver

(* Every aggregate is below its release threshold: release once every limited
   user has cooled down and the host is not under load. *)
CoolDown(s) ==
    /\ AnyLimits(limits) /\ ~Held(limits) /\ AllBelow(s)
    /\ since' = Tracking(limits.users, s.calm)
    /\ ioOver' = Unset
    /\ IF Stable(limits.users, s.calm) /\ ~UnderLoad(s)
       THEN cpuOver' = Unset /\ run' = Deactivate
       ELSE run' = Maintain /\ UNCHANGED cpuOver

(* No limits and a threshold exceeded.  A high load average that others cause
   suppresses the activation; a CPU duration other than zero delays it when CPU is
   the only reason. *)
Exceed(s) ==
    /\ ~AnyLimits(limits) /\ AnyExceeded(s)
    /\ ioOver' = IOTracked(s)
    /\ cpuOver' = IF ~Suppressed(s) /\ s.cpu = "over" /\ CPUDuration > 0
                  THEN Started(cpuOver) ELSE cpuOver
    /\ run' = IF \/ Suppressed(s)
                 \/ Reasons(s) = {"cpu"} /\ CPUDuration > 0 /\ cpuOver' < CPUDuration
              THEN Maintain ELSE Activate(Reasons(s))
    /\ UNCHANGED since

(* No limits and nothing exceeded, or nothing established. *)
Normal(s) ==
    /\ ~AnyLimits(limits) /\ ~AnyExceeded(s) /\ ~IOPending(s)
    /\ cpuOver' = Unset
    /\ ioOver' = Unset
    /\ run' = Maintain
    /\ UNCHANGED since

makeDecision(s) ==
    \/ WaitForIO(s)
    \/ Hold(s)
    \/ Refuse(s)
    \/ CoolDown(s)
    \/ Exceed(s)
    \/ Normal(s)

-----------------------------------------------------------------------------
(* Steps. *)

Init ==
    /\ limits = NoLimits
    /\ since = NothingTracked
    /\ cpuOver = Unset
    /\ ioOver = Unset
    /\ run = Idle

(* A cycle starts, for the ticker or for a PSI event, and reconciles CPU. *)
StartCycle ==
    /\ run = Idle
    /\ limits' \in Verified(limits)
    /\ run' = Sampling
    /\ UNCHANGED trackers

(* A blackout window ends the cycle before it samples. *)
CheckBlackout ==
    /\ run = Sampling
    /\ limits' \in Deactivated(limits)
    /\ run' = Idle
    /\ UNCHANGED trackers

MakeDecision(s) ==
    /\ run = Sampling
    /\ makeDecision(s)
    /\ UNCHANGED limits

ExecuteDecision ==
    /\ run \notin {Idle, Sampling}
    /\ limits' \in Executed(limits, run.decision)
    /\ run' = Idle
    /\ UNCHANGED trackers

(* The context is cancelled: the pipeline stops before its next stage. *)
CancelCycle ==
    /\ run # Idle
    /\ run' = Idle
    /\ UNCHANGED <<limits, trackers>>

ForceActivateLimits ==
    /\ run = Idle
    /\ \E cpu, resources \in BOOLEAN : limits' \in Activated(limits, cpu, resources)
    /\ UNCHANGED <<trackers, run>>

ForceDeactivateLimits ==
    /\ run = Idle
    /\ limits' \in Deactivated(limits)
    /\ since' = NothingTracked
    /\ UNCHANGED <<cpuOver, ioOver, run>>

Tick ==
    /\ limits' = [limits EXCEPT !.cpuAge = Older(@), !.resAge = Older(@)]
    /\ since' = [u \in Users |-> Older(since[u])]
    /\ cpuOver' = Older(cpuOver)
    /\ ioOver' = Older(ioOver)
    /\ UNCHANGED run

Next ==
    \/ StartCycle
    \/ CheckBlackout
    \/ \E s \in Sample : MakeDecision(s)
    \/ ExecuteDecision
    \/ CancelCycle
    \/ ForceActivateLimits
    \/ ForceDeactivateLimits
    \/ Tick

Spec == Init /\ [][Next]_vars

-----------------------------------------------------------------------------

=============================================================================
