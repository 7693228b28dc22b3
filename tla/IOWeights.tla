------------------------------- MODULE IOWeights -------------------------------
(***************************************************************************)
(* Weighted I/O: the lifecycle of state/systemd_io_weights.go.  An attempt *)
(* (from the retry timer or after a reload) classifies the configured      *)
(* device, proves it with a probe unit and accepts it; while it is         *)
(* accepted every control cycle programs one weight per user slice; a loss *)
(* of evidence, a failure or a removed selector gives every weight back.   *)
(*                                                                         *)
(* An attempt or a cycle holds the operation gate; a reload waits for it,  *)
(* and cancels the probe of an attempt first (BeginConfigUpdate).  Leases  *)
(* are those of PropertyLeases, with the policy that chose the weight.     *)
(***************************************************************************)
EXTENDS IODeviceCapability

CONSTANTS
    Users,      \* UIDs whose slices take part
    Selectors,  \* values of IO_WEIGHT_DEVICES, "" among them
    Policies,   \* loaded weight policies
    Hosts,      \* what the configured device may look like
    MaxInv,     \* bound: invocations of one user's slice
    MaxMoves,   \* bound: logouts, device changes, lost authority, reloads, restarts
    MaxFaults   \* bound: calls that fail

VARIABLES
    slice,    \* systemd: the invocation of each user's slice, 0 while it is down
    covered,  \* users whom the authority inventory observes in their slice
    device,   \* what the files show of the configured device
    lease,    \* the weight leases: [inv, policy]
    cfg,      \* the loaded configuration: [selector, policy]
    mgr,      \* the Manager's fields about weighted I/O
    due,      \* the control loop: the retry timer is armed, a reload is announced
    op,       \* the attempt or cycle that holds the operation gate
    moves, faults

host == <<slice, covered, device, cfg>>
vars == <<slice, covered, device, lease, cfg, mgr, due, op, moves, faults>>

NoLease == [inv |-> 0, policy |-> 0]
NoDevice == [found |-> "unread", ctl |-> "unread", sched |-> "unread", cost |-> "unread"]
Leased == {u \in Users : lease[u] # NoLease}

(* newDisabledIODeviceWeightStatus and the leases a former daemon left *)
NewManager(leases) ==
    [state |-> "disabled", selector |-> "", programmed |-> \E u \in Users : leases[u] # NoLease,
     readback |-> FALSE, device |-> NoDevice, policy |-> cfg.policy, pending |-> FALSE,
     units |-> [u \in Users |-> leases[u].inv], attempts |-> 0, cycles |-> 0]

NoThen == [state |-> "", refuse |-> FALSE, readback |-> FALSE, retry |-> FALSE]
NoOp == [kind |-> "none", at |-> "idle", cancelled |-> FALSE, seen |-> [u \in Users |-> 0],
         plan |-> {}, todo |-> {}, clean |-> TRUE, then |-> NoThen]
Idle == op = NoOp

Init ==
    /\ slice = [u \in Users |-> 1]
    /\ covered = Users
    /\ device \in Hosts
    /\ lease = [u \in Users |-> NoLease]
    /\ cfg \in [selector : Selectors, policy : Policies]
    /\ mgr = NewManager(lease)
    /\ due = [timer |-> FALSE, reload |-> TRUE]
    /\ op = NoOp
    /\ moves = 0 /\ faults = 0

Move == moves < MaxMoves /\ moves' = moves + 1 /\ UNCHANGED faults
Fault == faults < MaxFaults /\ faults' = faults + 1 /\ UNCHANGED moves
NoFault == UNCHANGED <<moves, faults>>

(* The host. *)

LogOut(u) ==
    /\ Move /\ slice[u] > 0
    /\ slice' = [slice EXCEPT ![u] = 0]
    /\ UNCHANGED <<covered, device, lease, cfg, mgr, due, op>>

(* The next invocation of a slice differs from every former one. *)
LogIn(u) ==
    /\ slice[u] = 0 /\ Move
    /\ \E inv \in 1 .. MaxInv :
         /\ inv > lease[u].inv /\ inv > mgr.units[u] /\ inv > op.seen[u]
         /\ slice' = [slice EXCEPT ![u] = inv]
    /\ UNCHANGED <<covered, device, lease, cfg, mgr, due, op>>

Cover(u) ==
    /\ Move
    /\ covered' = IF u \in covered THEN covered \ {u} ELSE covered \cup {u}
    /\ UNCHANGED <<slice, device, lease, cfg, mgr, due, op>>

ChangeDevice ==
    /\ Move
    /\ device' \in Hosts \ {device}
    /\ UNCHANGED <<slice, covered, lease, cfg, mgr, due, op>>

-----------------------------------------------------------------------------
(* Publications, as functions of the Manager's fields. *)

(* publishIODeviceWeightCapability *)
Published(m, state, snapshot, keepProgrammed, keepReadback) ==
    [m EXCEPT !.state = state, !.selector = cfg.selector, !.device = snapshot,
              !.programmed = @ /\ keepProgrammed, !.readback = @ /\ keepReadback,
              !.attempts = IF state = "accepted" THEN 0 ELSE @,
              !.cycles = IF state = "accepted" THEN 0 ELSE @]

(* resetSystemdIODeviceWeightStatus *)
Reset(m) ==
    [m EXCEPT !.units = [u \in Users |-> 0], !.programmed = FALSE, !.readback = FALSE,
              !.attempts = 0, !.cycles = 0]

(* The loop schedules another attempt when the result asks for one. *)
EndAttempt(retry) == op' = NoOp /\ due' = [due EXCEPT !.timer = retry]
EndCycle == op' = NoOp /\ UNCHANGED due
End(retry) == IF op.kind = "attempt" THEN EndAttempt(retry) ELSE EndCycle

(* restoreAllSystemdIODeviceWeights begins; "then" says what follows. *)
BeginRestore(then) == op' = [op EXCEPT !.at = "owned", !.then = then] /\ UNCHANGED due

(* releaseFailedIODeviceWeightPlan *)
ReleaseFailed(state) == BeginRestore([NoThen EXCEPT !.state = state, !.refuse = TRUE]) /\ UNCHANGED mgr

(* publishIODeviceWeightCapabilityFailure: missing evidence is borne once while
   weights are programmed, anything else releases them. *)
CapabilityFailure(state, reason) ==
    LET grace == reason = "evidence_unavailable"
        attempts == IF ~grace THEN 0 ELSE IF mgr.programmed THEN mgr.attempts + 1 ELSE mgr.attempts
        counted == [mgr EXCEPT !.attempts = attempts]
    IN IF mgr.programmed /\ (~grace \/ attempts > 1)
       THEN BeginRestore([NoThen EXCEPT !.state = state, !.refuse = TRUE, !.retry = TRUE]) /\ mgr' = counted
       ELSE mgr' = Published(counted, state, device, TRUE, FALSE) /\ EndAttempt(TRUE)

(* ioWeightCapabilityLoss *)
Loss(change) == IF change \in {"evidence_unavailable", "device_missing"} THEN "pending" ELSE "observation"

(* deferOrReleaseIODeviceWeights *)
DeferOrRelease(state, reason) ==
    LET grace == reason = "evidence_unavailable"
        cycles == IF grace THEN mgr.cycles + 1 ELSE 0
    IN /\ mgr' = [mgr EXCEPT !.cycles = cycles, !.state = state, !.readback = FALSE]
       /\ IF grace /\ cycles <= 1 THEN EndCycle ELSE BeginRestore([NoThen EXCEPT !.refuse = TRUE])

-----------------------------------------------------------------------------
(* AttemptIODeviceWeightCapability *)

(* Mutant: a refusal that needs intervention does not stop the attempts. *)
BoldStopped == FALSE

InterventionStopped == mgr.state = "intervention" /\ mgr.selector = cfg.selector

(* The loop receives the reload signal or the retry timer. *)
Attempt ==
    /\ Idle
    /\ \/ due.reload /\ due' = [timer |-> FALSE, reload |-> FALSE]
       \/ due.timer /\ due' = [due EXCEPT !.timer = FALSE]
    /\ op' = CASE InterventionStopped -> NoOp
                [] ~InterventionStopped /\ cfg.selector = "" ->
                     [NoOp EXCEPT !.kind = "attempt", !.at = "owned",
                                  !.then = [NoThen EXCEPT !.state = "disabled", !.refuse = TRUE, !.readback = TRUE]]
                [] cfg.selector # "" /\ mgr.state = "accepted" /\ mgr.selector = cfg.selector ->
                     [NoOp EXCEPT !.kind = "attempt", !.at = "reconfirm"]
                [] OTHER -> [NoOp EXCEPT !.kind = "attempt", !.at = "classify"]
    /\ NoFault
    /\ UNCHANGED <<host, lease, mgr>>

Confirmed == ~op.cancelled /\ Equivalent(<<mgr.device>>, <<device>>)
Looked == IF op.cancelled THEN NoDevice ELSE device

(* An accepted capability is only confirmed, and classified anew when it changed. *)
Reconfirm ==
    /\ op.at = "reconfirm"
    /\ CASE Confirmed -> /\ mgr' = Published([mgr EXCEPT !.pending = FALSE], "accepted", mgr.device, TRUE, TRUE)
                         /\ EndAttempt(TRUE)
         [] op.cancelled -> CapabilityFailure("pending", "cancelled_generation")
         [] OTHER -> op' = [op EXCEPT !.at = "classify"] /\ UNCHANGED <<mgr, due>>
    /\ NoFault
    /\ UNCHANGED <<host, lease>>

ClassifyStep ==
    /\ op.at = "classify"
    /\ LET seen == Classify(<<Looked>>)
       IN CASE seen.outcome = "probe_candidate" ->
                 /\ mgr' = Published(mgr, "candidate", device, TRUE, FALSE)
                 /\ op' = [op EXCEPT !.at = "probe"]
                 /\ UNCHANGED due
            [] seen.outcome \in {"mechanism_inactive", "evidence_unavailable"} ->
                 CapabilityFailure("pending", seen.reason)
            [] OTHER -> CapabilityFailure("observation", seen.reason)
    /\ NoFault
    /\ UNCHANGED <<host, lease>>

(* ProbeIODeviceWeights: a transport failure is retried like missing evidence,
   a mismatch or unsafe cleanup needs intervention. *)
Probe ==
    /\ op.at = "probe"
    /\ \/ /\ NoFault
          /\ IF op.cancelled THEN CapabilityFailure("pending", "evidence_unavailable")
             ELSE op' = [op EXCEPT !.at = "accept"] /\ UNCHANGED <<mgr, due>>
       \/ /\ Fault
          /\ CapabilityFailure("pending", "evidence_unavailable") \/ ReleaseFailed("intervention")
    /\ UNCHANGED <<host, lease>>

Accept ==
    /\ op.at = "accept"
    /\ IF Confirmed
       THEN /\ mgr' = Published([mgr EXCEPT !.pending = FALSE], "accepted", mgr.device, TRUE, FALSE)
            /\ EndAttempt(TRUE)
       ELSE LET change == Change(<<mgr.device>>, <<Looked>>) IN CapabilityFailure(Loss(change), change)
    /\ NoFault
    /\ UNCHANGED <<host, lease>>

(* BeginConfigUpdate cancels the probe in flight. *)
Cancel ==
    /\ op.kind = "attempt" /\ op.at \in {"reconfirm", "classify", "probe", "accept"} /\ ~op.cancelled
    /\ Move
    /\ op' = [op EXCEPT !.cancelled = TRUE]
    /\ UNCHANGED <<host, lease, mgr, due>>

-----------------------------------------------------------------------------
(* stageReconcileIODeviceWeights *)

Cycle ==
    /\ Idle
    /\ \/ /\ cfg.selector = "" /\ Leased = {}
          /\ mgr' = Reset(mgr) /\ UNCHANGED op
       \/ /\ cfg.selector = ""
          /\ op' = [NoOp EXCEPT !.kind = "cycle", !.at = "owned"] /\ UNCHANGED mgr
       \/ /\ cfg.selector # "" /\ mgr.state = "accepted" /\ mgr.selector = cfg.selector
          /\ op' = [NoOp EXCEPT !.kind = "cycle", !.at = "confirm"] /\ UNCHANGED mgr
    /\ NoFault
    /\ UNCHANGED <<host, lease, due>>

CycleConfirm ==
    /\ op.at = "confirm"
    /\ IF Confirmed THEN op' = [op EXCEPT !.at = "discover"] /\ UNCHANGED <<mgr, due>>
       ELSE LET change == Change(<<mgr.device>>, <<device>>) IN DeferOrRelease(Loss(change), change)
    /\ NoFault
    /\ UNCHANGED <<host, lease>>

(* Mutant: only slices that are new are planned. *)
DiscoverNew ==
    /\ op.at = "discover"
    /\ \/ /\ NoFault
          /\ op' = [op EXCEPT !.at = "topology", !.seen = slice,
                              !.plan = {u \in covered : slice[u] > 0 /\ mgr.units[u] # slice[u]}]
          /\ UNCHANGED <<mgr, due>>
       \/ Fault /\ DeferOrRelease("pending", "unavailable")
    /\ UNCHANGED <<host, lease>>

(* The topology and the sample's inventory; users it does not observe are left out. *)
Discover ==
    /\ op.at = "discover"
    /\ \/ /\ NoFault
          /\ op' = [op EXCEPT !.at = "topology", !.seen = slice,
                              !.plan = {u \in covered : slice[u] > 0}]
          /\ UNCHANGED <<mgr, due>>
       \/ Fault /\ DeferOrRelease("pending", "unavailable")
    /\ UNCHANGED <<host, lease>>

ConfirmTopology ==
    /\ op.at = "topology"
    /\ \/ /\ NoFault /\ slice = op.seen
          /\ op' = [op EXCEPT !.at = "apply", !.todo = op.plan]
          /\ UNCHANGED <<mgr, due>>
       \/ /\ IF slice = op.seen THEN Fault ELSE NoFault
          /\ DeferOrRelease("observation", "topology_changed")
    /\ UNCHANGED <<host, lease>>

Turn(u) == u \in op.todo /\ \A v \in op.todo : u <= v
Same(u) == slice[u] = op.seen[u]
Programmed(u) == [lease EXCEPT ![u] = [inv |-> op.seen[u], policy |-> mgr.policy]]

(* The slices of the plan in UID order; the first failure ends the cycle. *)
Apply(u) ==
    /\ op.at = "apply" /\ Turn(u)
    /\ \/ /\ NoFault /\ Same(u)
          /\ lease' = Programmed(u)
          /\ op' = [op EXCEPT !.todo = @ \ {u}]
          /\ UNCHANGED <<mgr, due>>
       \/ NoFault /\ ~Same(u) /\ ReleaseFailed("pending") /\ UNCHANGED lease
       \/ /\ Fault /\ Same(u) /\ lease' \in {lease, Programmed(u)}
          /\ ReleaseFailed("pending") \/ ReleaseFailed("intervention")
    /\ UNCHANGED host

Stale == {u \in Users : mgr.units[u] > 0 /\ ~(u \in op.plan /\ mgr.units[u] = op.seen[u])}

(* ConfirmApplied of every slice, then the identities once more. *)
ReadBack ==
    /\ op.at = "apply" /\ op.todo = {}
    /\ \/ /\ NoFault
          /\ IF \E u \in op.plan : ~Same(u) THEN ReleaseFailed("pending")
             ELSE IF slice # op.seen THEN ReleaseFailed("observation")
             ELSE /\ op' = [op EXCEPT !.at = "stale", !.todo = Stale]
                  /\ UNCHANGED <<mgr, due>>
       \/ Fault /\ \E kind \in {"pending", "intervention", "observation"} : ReleaseFailed(kind)
    /\ UNCHANGED <<host, lease>>

(* restoreStaleSystemdIODeviceWeights: the tracked slice itself must answer. *)
RestoreStale(u) ==
    /\ op.at = "stale" /\ u \in op.todo
    /\ \/ /\ NoFault /\ slice[u] = mgr.units[u]
          /\ lease' = [lease EXCEPT ![u] = NoLease]
          /\ op' = [op EXCEPT !.todo = @ \ {u}]
       \/ /\ IF slice[u] = mgr.units[u] THEN Fault ELSE NoFault
          /\ op' = [op EXCEPT !.todo = @ \ {u}, !.clean = FALSE]
          /\ UNCHANGED lease
    /\ UNCHANGED <<host, mgr, due>>

(* The cycle publishes what it programmed and confirmed. *)
FinishCycle ==
    /\ op.at = "stale" /\ op.todo = {}
    /\ IF op.clean
       THEN /\ mgr' = [mgr EXCEPT !.units = [u \in Users |-> IF u \in op.plan THEN op.seen[u] ELSE 0],
                                  !.state = "accepted", !.programmed = op.plan # {}, !.readback = op.plan # {},
                                  !.attempts = 0, !.cycles = 0]
            /\ EndCycle
       ELSE ReleaseFailed("intervention")
    /\ NoFault
    /\ UNCHANGED <<host, lease>>

-----------------------------------------------------------------------------
(* restoreAllSystemdIODeviceWeights *)

Current == [u \in Users |-> IF lease[u].inv = slice[u] THEN lease[u] ELSE NoLease]

RestoreFailed ==
    /\ mgr' = IF op.then.refuse THEN Published(mgr, "intervention", mgr.device, TRUE, op.then.readback) ELSE mgr
    /\ End(FALSE)

ReconcileOwned ==
    /\ op.at = "owned"
    /\ \/ /\ NoFault /\ lease' = Current
          /\ op' = [op EXCEPT !.at = "restore", !.todo = {u \in Users : Current[u] # NoLease}, !.clean = TRUE]
          /\ UNCHANGED <<mgr, due>>
       \/ Fault /\ RestoreFailed /\ UNCHANGED lease
    /\ UNCHANGED host

Restore(u) ==
    /\ op.at = "restore" /\ Turn(u)
    /\ \/ /\ NoFault /\ slice[u] = lease[u].inv
          /\ lease' = [lease EXCEPT ![u] = NoLease]
          /\ op' = [op EXCEPT !.todo = @ \ {u}]
       \/ /\ IF slice[u] = lease[u].inv THEN Fault ELSE NoFault
          /\ op' = [op EXCEPT !.todo = @ \ {u}, !.clean = FALSE]
          /\ UNCHANGED lease
    /\ UNCHANGED <<host, mgr, due>>

FinishRestore ==
    /\ op.at = "restore" /\ op.todo = {}
    /\ IF op.clean
       THEN /\ mgr' = IF op.then.state = "" THEN Reset(mgr)
                      ELSE Published(Reset(mgr), op.then.state, mgr.device, FALSE, FALSE)
            /\ End(op.then.retry)
       ELSE RestoreFailed
    /\ NoFault
    /\ UNCHANGED <<host, lease>>

-----------------------------------------------------------------------------
(* Other operations on the same leases. *)

(* The CPU stage of a cycle reconciles them. *)
ReconcileByCPU ==
    /\ Idle
    /\ lease' = Current
    /\ NoFault /\ UNCHANGED <<host, mgr, due, op>>

(* restoreSystemdCPUPoints, for a blackout or a decision, releases every unit. *)
Deactivate ==
    /\ Idle
    /\ \/ Move /\ lease' = [u \in Users |-> NoLease]
          /\ mgr' = [mgr EXCEPT !.units = [u \in Users |-> 0], !.programmed = FALSE, !.readback = FALSE]
       \/ /\ Fault
          /\ \E kept \in SUBSET Leased : lease' = [u \in Users |-> IF u \in kept THEN lease[u] ELSE NoLease]
          /\ UNCHANGED mgr
    /\ UNCHANGED <<host, due, op>>

(* UpdateConfig: a new selector starts a new generation. *)
Updated(m, selector) ==
    LET had == m.programmed \/ \E u \in Users : m.units[u] > 0
    IN IF selector = cfg.selector THEN m
       ELSE [m EXCEPT !.device = NoDevice, !.selector = selector, !.programmed = had, !.readback = FALSE,
                      !.state = IF selector # "" THEN "pending" ELSE IF had THEN "release_pending" ELSE "disabled",
                      !.attempts = 0, !.cycles = 0]

(* PublishIODeviceWeightPolicy: a refusal that needs intervention ends with the
   generation it belongs to. *)
WithPolicy(m, c) ==
    LET changed == m.policy # c.policy
        enabled == c.selector # ""
        queued == IF changed /\ enabled
                  THEN [m EXCEPT !.pending = TRUE, !.state = IF @ = "accepted" THEN @ ELSE "pending"]
                  ELSE m
    IN CASE ~changed /\ m.state # "intervention" -> m
         [] queued.state = "intervention" ->
              [queued EXCEPT !.policy = c.policy, !.device = NoDevice, !.readback = FALSE,
                             !.state = IF enabled THEN "pending" ELSE "release_pending",
                             !.attempts = 0, !.cycles = 0]
         [] OTHER -> [queued EXCEPT !.policy = c.policy]

Reload ==
    /\ Idle /\ Move
    /\ cfg' \in [selector : Selectors, policy : Policies]
    /\ mgr' = WithPolicy(Updated(mgr, cfg'.selector), cfg')
    /\ due' = [due EXCEPT !.reload = TRUE]
    /\ UNCHANGED <<slice, covered, device, lease, op>>

Restart ==
    /\ Move
    /\ lease' \in {lease, Current}
    /\ mgr' = NewManager(lease')
    /\ due' = [timer |-> FALSE, reload |-> TRUE]
    /\ op' = NoOp
    /\ UNCHANGED host

-----------------------------------------------------------------------------

Environment ==
    \/ ChangeDevice
    \/ \E u \in Users : LogOut(u) \/ LogIn(u) \/ Cover(u)

Step ==
    \/ Reconfirm \/ ClassifyStep \/ Probe \/ Accept
    \/ CycleConfirm \/ Discover \/ ConfirmTopology \/ ReadBack \/ FinishCycle
    \/ ReconcileOwned \/ FinishRestore
    \/ \E u \in Users : Apply(u) \/ RestoreStale(u) \/ Restore(u)

Next == Environment \/ Attempt \/ Cycle \/ Step \/ Cancel \/ ReconcileByCPU \/ Deactivate \/ Reload \/ Restart

Spec == Init /\ [][Next]_vars

=============================================================================
