-------------------------- MODULE CPUPointsProofs --------------------------
(***************************************************************************)
(* CPU Points: a plan that is reused is in force, and a release of         *)
(* everything leaves nothing, for any slices, policies, CPUs and number of *)
(* disturbances.  And the series of users that the cycle publishes beside  *)
(* it are true, for any number of users, cycles and hours.                 *)
(***************************************************************************)
EXTENDS MCCPUPoints, Samplers, FiniteSetTheorems, TLAPS

\* What the variables of CPUPoints hold.
Plans == [policy : Policies \cup {0}, cpus : CPUs \cup {0}, topo : [Slices -> Nat]]
Shares == {<<>>} \cup {Share(plan, u) : plan \in Plans, u \in Units}
Leases == [inv : Nat, share : Shares]

OpKinds == {"none", "cycle", "reload", "withdraw", "deactivate"}
OpSteps == {"idle", "owned", "discover", "confirm", "apply", "publish", "restore", "release"}
Ops == [kind : OpKinds, at : OpSteps, attempt : Nat, plan : Plans, todo : SUBSET Units,
        failed : {"no", "stale", "fault"}]

Managers == [requested : BOOLEAN, complete : BOOLEAN, degraded : BOOLEAN, pending : BOOLEAN,
             fresh : BOOLEAN, plan : Plans, tracked : [Units -> Nat], active : SUBSET Slices]

Reloads == {NoReload} \cup [at : {"reconciling", "reconciled", "rollback"}, candidate : Policies]

\* Every variable has its type.
PTypes ==
    /\ life \in [Slices -> [inv : Nat, up : BOOLEAN]] /\ cpus \in CPUs
    /\ lease \in [Units -> Leases]
    /\ policy \in Policies
    /\ mgr \in Managers /\ op \in Ops /\ reload \in Reloads
    /\ trouble \in Nat

\* What a cycle or a reload reconciles is the policy in force or the candidate.
PControl ==
    /\ op.at = "idle" => Idle
    /\ op.kind = "none" => Idle
    /\ op.kind = "cycle" => Epoch /\ op.plan.policy = policy
    /\ op.kind = "reload" => reload.at \in {"reconciling", "rollback"}
    /\ op.kind = "reload" /\ reload.at = "rollback" => op.plan.policy = policy
    /\ op.kind = "withdraw" => ~mgr.requested
    /\ op.kind \in {"withdraw", "deactivate"} => op.at \in {"restore", "release"}
    /\ reload.at = "none" => Epoch

\* A plan names invocations that have been.
PBound == \A s \in Slices : mgr.plan.topo[s] <= life[s].inv /\ op.plan.topo[s] <= life[s].inv

\* A unit that is still there has what the plan gives it.
Carries(plan, u, leases, topo) ==
    IF u = Parent THEN leases[u] = [inv |-> 1, share |-> Share(plan, u)]
    ELSE topo[u] = plan.topo[u] => leases[u] = [inv |-> plan.topo[u], share |-> Share(plan, u)]

\* The units a plan gives a value to.
Named(plan) == {Parent} \cup Members(plan.topo)

\* The units that an attempt has dealt with carry its plan.
PPlaced ==
    /\ op.at = "publish" => op.todo = {}
    /\ op.at \in {"apply", "publish"} => \A u \in Named(op.plan) \ op.todo : Carries(op.plan, u, lease, Topology)

\* An acknowledged plan is carried, and it is one of the policy in force unless
\* the next cycle verifies it anyway.
PKept ==
    Idle /\ mgr.requested /\ mgr.complete =>
        /\ \A u \in Named(mgr.plan) : Carries(mgr.plan, u, lease, Topology)
        /\ Epoch /\ mgr.fresh => mgr.plan.policy = policy

\* What a release of everything has not yet dealt with is still to do.
PReleased ==
    op.kind = "deactivate" /\ op.at = "release" /\ op.failed = "no" => Leased \subseteq op.todo

\* The inductive invariant.
PInv == PTypes /\ PControl /\ PBound /\ PPlaced /\ PKept /\ PReleased

\* What the steps assign has its type.
LEMMA PAssigned ==
    ASSUME PTypes
    PROVE  /\ NoPlan \in Plans /\ NoOp \in Ops /\ NoReload \in Reloads
           /\ NoLease \in Leases
           /\ Topology \in [Slices -> Nat]
           /\ \A s \in Slices : Topology[s] <= life[s].inv
           /\ \A u \in Units : Invocation(u) \in Nat
           /\ Reconciled \in [Units -> Leases]
           /\ Incomplete \in Managers /\ ~Incomplete.complete
           /\ Released \in Managers /\ ~Released.complete /\ ~Released.requested
<1>1. NoPlan \in Plans
  BY Zenon DEF NoPlan, Plans
<1>2. NoOp \in Ops
  BY <1>1, Zenon DEF NoOp, Ops, OpKinds, OpSteps
<1>3. NoReload \in Reloads
  BY Zenon DEF Reloads
<1>4. NoLease \in Leases
  BY DEF NoLease, Leases, Shares
<1>5. Topology \in [Slices -> Nat] /\ \A s \in Slices : Topology[s] <= life[s].inv
  BY DEF PTypes, Topology
<1>6. \A u \in Units : Invocation(u) \in Nat
  BY <1>5, Zenon DEF Units, Invocation
<1>7. Reconciled \in [Units -> Leases]
  BY <1>4, Zenon DEF PTypes, Reconciled
<1>8. Incomplete \in Managers /\ ~Incomplete.complete
  BY Zenon DEF PTypes, Managers, Incomplete
<1>9. Released \in Managers /\ ~Released.complete /\ ~Released.requested
  <2>1. [u \in Units |-> 0] \in [Units -> Nat] /\ {} \in SUBSET Slices
    BY Zenon
  <2>. QED
    BY <2>1, Zenon DEF PTypes, Managers, Released
<1>. QED
  BY <1>1, <1>2, <1>3, <1>4, <1>5, <1>6, <1>7, <1>8, <1>9, Zenon

\* A step in the middle of an operation.
LEMMA AdvanceStep ==
    ASSUME PInv, op' \in Ops, op'.kind = op.kind, op.kind # "none",
           op'.plan.policy = op.plan.policy, op'.at # "idle",
           \A s \in Slices : op'.plan.topo[s] <= life[s].inv,
           op.kind \in {"withdraw", "deactivate"} => op'.at \in {"restore", "release"},
           mgr' \in Managers, mgr'.plan = mgr.plan, mgr'.requested = mgr.requested,
           UNCHANGED <<life, cpus, policy, reload>>,
           lease' \in [Units -> Leases], trouble' \in Nat,
           PPlaced', PReleased'
    PROVE  PInv'
<1>1. PTypes'
  BY Zenon DEF PInv, PTypes
<1>2. ~Idle'
  BY DEF Idle, NoOp
<1>3. PControl'
  BY <1>2, Zenon DEF PInv, PControl, Epoch
<1>4. PBound'
  BY Zenon DEF PInv, PBound
<1>. QED
  BY <1>1, <1>2, <1>3, <1>4, Zenon DEF PInv, PKept

\* An operation that ends without an acknowledged plan.
LEMMA EndStep ==
    ASSUME PInv, NEW next \in Managers, NEW ok \in BOOLEAN, Ended(next, ok),
           ~next.complete \/ ~next.requested, next.plan = mgr.plan,
           UNCHANGED <<life, cpus, policy>>,
           lease' \in [Units -> Leases], trouble' \in Nat
    PROVE  PInv'
<1>1. op' = NoOp /\ op' \in Ops /\ op'.plan = NoPlan /\ op'.at = "idle" /\ op'.kind = "none"
  BY PAssigned, Zenon DEF PInv, Ended, NoOp
<1>2. /\ mgr' \in Managers /\ mgr'.plan = mgr.plan
      /\ mgr'.complete = next.complete /\ mgr'.requested = next.requested
  <2>1. CASE op.kind # "reload"
    BY <2>1, Zenon DEF Ended
  <2>2. CASE op.kind = "reload"
    <3>1. mgr' = [next EXCEPT !.degraded = ~ok, !.pending = ~ok]
      BY <2>2, Zenon DEF Ended
    <3>. QED
      BY <3>1, Zenon DEF Managers
  <2>. QED
    BY <2>1, <2>2, Zenon
<1>3. reload' \in Reloads /\ (reload'.at = "none" => reload' = NoReload)
  <2>1. CASE op.kind # "reload"
    BY <2>1, Zenon DEF Ended, PInv, PTypes, PControl, Epoch
  <2>2. CASE op.kind = "reload"
    <3>1. reload' = [reload EXCEPT !.at = "reconciled"] \/ reload' = NoReload
      BY <2>2, Zenon DEF Ended
    <3>. QED
      BY <2>2, <3>1, PAssigned DEF PInv, PTypes, PControl, Reloads, NoReload
  <2>. QED
    BY <2>1, <2>2, Zenon
<1>4. PTypes'
  BY <1>1, <1>2, <1>3, Zenon DEF PInv, PTypes
<1>5. PControl'
  BY <1>1, <1>3, Zenon DEF PControl, Idle, Epoch
<1>6. PBound'
  <2>1. life \in [Slices -> [inv : Nat, up : BOOLEAN]]
    BY Zenon DEF PInv, PTypes
  <2>2. ASSUME NEW s \in Slices PROVE op'.plan.topo[s] <= life[s].inv
    BY <1>1, <2>1 DEF NoPlan
  <2>. QED
    BY <1>2, <2>2, Zenon DEF PInv, PBound
<1>7. PPlaced' /\ PReleased'
  BY <1>1, Zenon DEF PPlaced, PReleased
<1>8. PKept'
  BY <1>2, Zenon DEF PKept
<1>. QED
  BY <1>4, <1>5, <1>6, <1>7, <1>8, Zenon DEF PInv

\* deferSystemdCPUPointsError, and an attempt that starts again.
LEMMA DeferStep ==
    ASSUME PInv, Defer, UNCHANGED <<life, cpus, policy>>,
           lease' \in [Units -> Leases], trouble' \in Nat
    PROVE  PInv'
<1> DEFINE next == [Incomplete EXCEPT !.degraded = TRUE]
<1>1. next \in Managers /\ ~next.complete /\ next.plan = mgr.plan
  BY PAssigned, Zenon DEF PInv, PTypes, Managers, Incomplete
<1>2. Ended(next, FALSE)
  BY Zenon DEF Defer
<1> HIDE DEF next
<1>. QED
  BY <1>1, <1>2, EndStep, Zenon

\* A stale attempt is repeated once with the plan incomplete, or deferred
\* (reconcileSystemdCPUPoints).
LEMMA RetryStep ==
    ASSUME PInv, Retry, op.kind \notin {"none", "withdraw", "deactivate"},
           UNCHANGED <<life, cpus, policy>>,
           lease' \in [Units -> Leases], trouble' \in Nat
    PROVE  PInv'
<1>1. CASE op.attempt # 1
  BY <1>1, DeferStep, Zenon DEF Retry
<1>2. CASE op.attempt = 1
  <2>1. /\ mgr' = Incomplete /\ UNCHANGED reload
        /\ op' = [op EXCEPT !.at = "owned", !.attempt = 2, !.todo = {}, !.failed = "no"]
    BY <1>2, Zenon DEF Retry
  <2>2. /\ op' \in Ops /\ op'.kind = op.kind /\ op'.plan = op.plan /\ op'.at = "owned"
    BY <2>1, Zenon DEF PInv, PTypes, Ops, OpSteps
  <2>3. mgr' \in Managers /\ mgr'.plan = mgr.plan /\ mgr'.requested = mgr.requested
    BY <2>1, PAssigned, Zenon DEF PInv, PTypes, Managers, Incomplete
  <2>4. PPlaced' /\ PReleased'
    BY <2>2, Zenon DEF PPlaced, PReleased
  <2>5. \A s \in Slices : op'.plan.topo[s] <= life[s].inv
    BY <2>2, Zenon DEF PInv, PBound
  <2>. QED
    BY <2>1, <2>2, <2>3, <2>4, <2>5, AdvanceStep, Zenon
<1>. QED
  BY <1>1, <1>2, Zenon

\* Slices that leave or come back do not take a plan's values away from the
\* units that are still there.
LEMMA CarriesOn ==
    ASSUME PTypes, NEW plan \in Plans, NEW u \in Named(plan), Carries(plan, u, lease, Topology),
           \A s \in Slices : plan.topo[s] <= life[s].inv,
           lease' = lease,
           \A s \in Slices : \/ Topology'[s] = Topology[s]
                             \/ Topology'[s] = 0
                             \/ Topology'[s] > life[s].inv
    PROVE  Carries(plan, u, lease', Topology')
<1>1. CASE u = Parent
  BY <1>1, Zenon DEF Carries
<1>2. CASE u # Parent
  <2>1. u \in Slices /\ plan.topo[u] > 0 /\ plan.topo[u] \in Nat /\ life[u].inv \in Nat
    BY <1>2, Zenon DEF Named, Members, Plans, PTypes
  <2>2. Topology'[u] = plan.topo[u] => Topology[u] = plan.topo[u]
    BY <2>1
  <2>. QED
    BY <1>2, <2>2, Zenon DEF Carries
<1>. QED
  BY <1>1, <1>2, Zenon

\* CPUs and slices that come and go keep the invariant.
LEMMA EnvironmentStep ==
    ASSUME PInv, Environment
    PROVE  PInv'
<1>1. /\ UNCHANGED <<lease, policy, mgr, op, reload>>
      /\ trouble' \in Nat /\ cpus' \in CPUs
  BY DEF PInv, PTypes, Environment, Hotplug, Depart, Return, Fault
<1>2. /\ life' \in [Slices -> [inv : Nat, up : BOOLEAN]]
      /\ \A s \in Slices : life[s].inv <= life'[s].inv
      /\ \A s \in Slices : \/ Topology'[s] = Topology[s]
                           \/ Topology'[s] = 0
                           \/ Topology'[s] > life[s].inv
  <2>0. life \in [Slices -> [inv : Nat, up : BOOLEAN]]
    BY Zenon DEF PInv, PTypes
  <2>1. CASE Hotplug
    BY <2>0, <2>1 DEF Hotplug, Topology
  <2>2. ASSUME NEW t \in Slices, Depart(t)
        PROVE  /\ life' \in [Slices -> [inv : Nat, up : BOOLEAN]]
               /\ \A s \in Slices : life[s].inv <= life'[s].inv
               /\ \A s \in Slices : Topology'[s] = Topology[s] \/ Topology'[s] = 0
    <3>1. life' = [life EXCEPT ![t] = [life[t] EXCEPT !.up = FALSE]]
      BY <2>2, Zenon DEF Depart
    <3>2. /\ [life[t] EXCEPT !.up = FALSE] \in [inv : Nat, up : BOOLEAN]
          /\ [life[t] EXCEPT !.up = FALSE].inv = life[t].inv
          /\ ~[life[t] EXCEPT !.up = FALSE].up
      BY <2>0, Zenon
    <3>. QED
      BY <2>0, <3>1, <3>2 DEF Topology
  <2>3. ASSUME NEW t \in Slices, Return(t)
        PROVE  /\ life' \in [Slices -> [inv : Nat, up : BOOLEAN]]
               /\ \A s \in Slices : life[s].inv <= life'[s].inv
               /\ \A s \in Slices : Topology'[s] = Topology[s] \/ Topology'[s] > life[s].inv
    <3>1. life' = [life EXCEPT ![t] = [inv |-> life[t].inv + 1, up |-> TRUE]]
      BY <2>3, Zenon DEF Return
    <3>. QED
      BY <2>0, <3>1 DEF Topology
  <2>. QED
    BY <2>1, <2>2, <2>3, Zenon DEF Environment
<1>3. PTypes'
  BY <1>1, <1>2, Zenon DEF PInv, PTypes
<1>4. PBound'
  <2>1. ASSUME NEW s \in Slices PROVE mgr.plan.topo[s] <= life'[s].inv /\ op.plan.topo[s] <= life'[s].inv
    <3>1. mgr.plan.topo[s] \in Nat /\ op.plan.topo[s] \in Nat /\ life[s].inv \in Nat /\ life'[s].inv \in Nat
      BY <1>2, Zenon DEF PInv, PTypes, Managers, Ops, Plans
    <3>. QED
      BY <1>2, <3>1 DEF PInv, PBound
  <2>. QED
    BY <1>1, <2>1, Zenon DEF PBound
<1>5. ASSUME NEW plan \in {mgr.plan, op.plan}, NEW u \in Named(plan), Carries(plan, u, lease, Topology)
      PROVE  Carries(plan, u, lease', Topology')
  <2>1. plan \in Plans /\ \A s \in Slices : plan.topo[s] <= life[s].inv
    BY Zenon DEF PInv, PTypes, Managers, Ops, PBound
  <2>. QED
    BY <1>1, <1>2, <1>5, <2>1, CarriesOn, Zenon DEF PInv
<1>6. PPlaced'
  <2>1. ASSUME op.at \in {"apply", "publish"}, NEW u \in Named(op.plan) \ op.todo PROVE Carries(op.plan, u, lease', Topology')
    BY <1>5, <2>1, Zenon DEF PInv, PPlaced
  <2>. QED
    BY <1>1, <2>1, Zenon DEF PPlaced, PInv
<1>7. PKept'
  <2>1. ASSUME Idle, mgr.requested, mgr.complete, NEW u \in Named(mgr.plan) PROVE Carries(mgr.plan, u, lease', Topology')
    BY <1>5, <2>1, Zenon DEF PInv, PKept
  <2>. QED
    BY <1>1, <2>1, Zenon DEF PKept, PInv, Idle, Epoch
<1>8. PControl' /\ PReleased'
  BY <1>1, Zenon DEF PInv, PControl, PReleased, Idle, Epoch, Leased, Held
<1>. QED
  BY <1>3, <1>4, <1>6, <1>7, <1>8, Zenon DEF PInv

\* The operation that a caller starts.
LEMMA StartedOp ==
    ASSUME PTypes, NEW kind \in OpKinds, NEW p \in Policies,
           Reconcile(kind, p) \/ Restore(kind)
    PROVE  /\ op' \in Ops /\ op'.kind = kind
           /\ Reconcile(kind, p) => op'.at = "owned" /\ op'.plan.policy = p
           /\ Restore(kind) => op'.at = "restore"
           /\ op'.at \in {"owned", "restore"}
           /\ \A s \in Slices : op'.plan.topo[s] = 0
<1>1. CASE Reconcile(kind, p)
  <2> DEFINE plan == [NoPlan EXCEPT !.policy = p]
  <2>1. plan \in Plans /\ plan.policy = p /\ \A s \in Slices : plan.topo[s] = 0
    BY Zenon DEF NoPlan, Plans
  <2>2. op' = [NoOp EXCEPT !.kind = kind, !.at = "owned", !.attempt = 1, !.plan = plan]
    BY <1>1, Zenon DEF Reconcile, NoOp
  <2> HIDE DEF plan
  <2>3. op' \in Ops /\ op'.kind = kind /\ op'.at = "owned" /\ op'.plan = plan
    BY <2>1, <2>2, PAssigned, Zenon DEF Ops, OpSteps
  <2>4. ~Restore(kind)
    BY <2>3, Zenon DEF Restore, NoOp
  <2>. QED
    BY <2>1, <2>3, <2>4, Zenon
<1>2. CASE Restore(kind)
  <2>1. op' = [NoOp EXCEPT !.kind = kind, !.at = "restore"]
    BY <1>2, Zenon DEF Restore
  <2>2. op' \in Ops /\ op'.kind = kind /\ op'.at = "restore" /\ op'.plan = NoPlan
    BY <2>1, PAssigned, Zenon DEF Ops, OpSteps, NoOp
  <2>3. ~Reconcile(kind, p)
    BY <2>2, Zenon DEF Reconcile, NoOp
  <2>. QED
    BY <2>2, <2>3 DEF NoPlan
<1>. QED
  BY <1>1, <1>2, Zenon

\* An operation starts.
LEMMA BeginStep ==
    ASSUME PInv, NEW kind \in OpKinds \ {"none"}, NEW p \in Policies,
           Reconcile(kind, p) \/ Restore(kind),
           kind = "cycle" => Reconcile(kind, p) /\ p = policy /\ Epoch',
           kind = "reload" => Reconcile(kind, p) /\ reload'.at \in {"reconciling", "rollback"},
           kind = "reload" /\ reload'.at = "rollback" => p = policy,
           kind = "withdraw" => Restore(kind) /\ ~mgr'.requested,
           kind = "deactivate" => Restore(kind),
           reload' \in Reloads, reload'.at = "none" => Epoch',
           mgr' \in Managers, mgr'.plan = mgr.plan,
           UNCHANGED <<life, cpus, lease, policy>>, trouble' \in Nat
    PROVE  PInv'
<1>1. /\ op' \in Ops /\ op'.kind = kind
      /\ Reconcile(kind, p) => op'.at = "owned" /\ op'.plan.policy = p
      /\ Restore(kind) => op'.at = "restore"
      /\ op'.at \in {"owned", "restore"}
      /\ \A s \in Slices : op'.plan.topo[s] = 0
  BY StartedOp, Zenon DEF PInv
<1>2. PTypes'
  BY <1>1, Zenon DEF PInv, PTypes
<1>3. ~Idle'
  BY <1>1 DEF Idle, NoOp
<1>4. PControl'
  BY <1>1, <1>3, Zenon DEF PControl
<1>5. PBound'
  <2>1. \A s \in Slices : life[s].inv \in Nat
    BY Zenon DEF PInv, PTypes
  <2>. QED
    BY <1>1, <2>1 DEF PInv, PBound
<1>6. PPlaced' /\ PKept' /\ PReleased'
  BY <1>1, <1>3, Zenon DEF PPlaced, PKept, PReleased
<1>. QED
  BY <1>2, <1>4, <1>5, <1>6, Zenon DEF PInv

\* ... and the ways to start one.
LEMMA OperationsBegin ==
    ASSUME PInv, \/ ReconcileCycle \/ Deactivate \/ Cleanup
                 \/ \E eligible \in BOOLEAN : Activate(eligible)
    PROVE  PInv'
<1>0. /\ policy \in Policies /\ mgr \in Managers /\ reload \in Reloads /\ trouble \in Nat
      /\ reload.at = "none" => Epoch
      /\ OpKinds = {"none", "cycle", "reload", "withdraw", "deactivate"}
  BY Zenon DEF PInv, PTypes, PControl, OpKinds
<1>1. CASE ReconcileCycle
  BY <1>0, <1>1, BeginStep, Zenon DEF ReconcileCycle, Epoch, host
<1>2. CASE Deactivate
  BY <1>0, <1>2, BeginStep, Zenon DEF Deactivate, Epoch, host
<1>3. CASE Cleanup
  BY <1>0, <1>3, BeginStep, Zenon DEF Cleanup, Epoch, host
<1>4. ASSUME NEW eligible \in BOOLEAN, Activate(eligible) PROVE PInv'
  <2>1. /\ mgr' = [mgr EXCEPT !.requested = eligible]
        /\ Epoch /\ UNCHANGED <<life, cpus, lease, policy, reload, trouble>>
        /\ IF eligible THEN Reconcile("cycle", policy) ELSE Restore("withdraw")
    BY <1>4, Zenon DEF Activate, host
  <2>2. mgr' \in Managers /\ mgr'.plan = mgr.plan /\ mgr'.requested = eligible
    BY <1>0, <2>1, Zenon DEF Managers
  <2>3. CASE eligible
    BY <1>0, <2>1, <2>2, <2>3, BeginStep, Zenon DEF Epoch
  <2>4. CASE ~eligible
    BY <1>0, <2>1, <2>2, <2>4, BeginStep, Zenon DEF Epoch
  <2>. QED
    BY <2>3, <2>4, Zenon
<1>. QED
  BY <1>1, <1>2, <1>3, <1>4, Zenon

\* A step that leaves the operation alone.
LEMMA AsideStep ==
    ASSUME PInv, UNCHANGED <<life, cpus, lease, op>>, trouble' \in Nat,
           mgr' \in Managers, mgr'.plan = mgr.plan,
           mgr'.requested = mgr.requested, mgr'.complete = mgr.complete,
           policy' \in Policies, reload' \in Reloads, reload'.at = "none" => Epoch',
           op.kind # "none" => UNCHANGED <<policy, reload>>,
           Idle /\ mgr.requested /\ Epoch' /\ mgr'.fresh => Epoch /\ mgr.fresh /\ policy' = policy
    PROVE  PInv'
<1>1. PTypes'
  BY Zenon DEF PInv, PTypes
<1>2. PControl'
  BY Zenon DEF PInv, PControl, Epoch, Idle
<1>3. PBound' /\ PReleased'
  BY Zenon DEF PInv, PBound, PReleased, Leased, Held
<1>4. Topology' = Topology
  BY Zenon DEF Topology
<1>5. PPlaced'
  BY <1>4, Zenon DEF PInv, PPlaced
<1>6. PKept'
  BY <1>4, Zenon DEF PInv, PKept, Idle
<1>. QED
  BY <1>1, <1>2, <1>3, <1>5, <1>6, Zenon DEF PInv

\* Time passes, and OnConfigCandidate.
LEMMA ReloadStep ==
    ASSUME PInv, Elapse \/ PublishPolicy \/ RollBack
                 \/ \E c \in Policies : BeginConfigUpdate(c)
    PROVE  PInv'
<1>0. /\ policy \in Policies /\ mgr \in Managers /\ reload \in Reloads /\ trouble \in Nat
      /\ reload.at = "none" => Epoch
      /\ OpKinds = {"none", "cycle", "reload", "withdraw", "deactivate"}
      /\ NoReload \in Reloads /\ NoReload.at = "none"
  BY PAssigned, Zenon DEF PInv, PTypes, PControl, OpKinds, NoReload
<1>1. CASE Elapse
  <2>1. mgr' \in Managers /\ mgr'.plan = mgr.plan /\ mgr'.requested = mgr.requested
        /\ mgr'.complete = mgr.complete /\ ~mgr'.fresh
    BY <1>0, <1>1, Zenon DEF Elapse, Managers
  <2>2. UNCHANGED <<life, cpus, lease, policy, op, reload, trouble>>
    BY <1>1, Zenon DEF Elapse, host
  <2>. QED
    BY <1>0, <2>1, <2>2, AsideStep, Zenon DEF Epoch
<1>2. CASE PublishPolicy
  <2>1. mgr' \in Managers /\ mgr'.plan = mgr.plan /\ mgr'.requested = mgr.requested
        /\ mgr'.complete = mgr.complete /\ ~mgr'.fresh
    BY <1>0, <1>2, Zenon DEF PublishPolicy, Managers
  <2>2. /\ UNCHANGED <<life, cpus, lease, op, trouble>> /\ reload' = NoReload
        /\ op.kind = "none" /\ policy' = reload.candidate /\ reload.at = "reconciled"
    BY <1>2, Zenon DEF PublishPolicy, host, Idle, NoOp
  <2>3. policy' \in Policies
    BY <1>0, <2>2, Zenon DEF Reloads
  <2>. QED
    BY <1>0, <2>1, <2>2, <2>3, AsideStep, Zenon DEF Epoch
<1>3. CASE RollBack
  <2>1. PICK updated \in BOOLEAN :
          LET next == [mgr EXCEPT !.fresh = mgr.fresh /\ ~updated] IN
          IF mgr.requested
          THEN mgr' = next /\ Reconcile("reload", policy) /\ reload' = [reload EXCEPT !.at = "rollback"]
          ELSE mgr' = [next EXCEPT !.degraded = FALSE, !.pending = FALSE] /\ reload' = NoReload /\ UNCHANGED op
    BY <1>3, Zenon DEF RollBack
  <2>2. UNCHANGED <<life, cpus, lease, policy, trouble>> /\ op.kind = "none" /\ reload.at = "reconciled"
    BY <1>3, Zenon DEF RollBack, host, Idle, NoOp
  <2>3. mgr' \in Managers /\ mgr'.plan = mgr.plan /\ mgr'.requested = mgr.requested
        /\ mgr'.complete = mgr.complete
    <3> DEFINE next == [mgr EXCEPT !.fresh = mgr.fresh /\ ~updated]
    <3>1. next \in Managers /\ next.plan = mgr.plan /\ next.requested = mgr.requested
          /\ next.complete = mgr.complete
      BY <1>0, Zenon DEF Managers
    <3>2. mgr' = next \/ mgr' = [next EXCEPT !.degraded = FALSE, !.pending = FALSE]
      BY <2>1, Zenon
    <3> HIDE DEF next
    <3>3. LET n == [next EXCEPT !.degraded = FALSE, !.pending = FALSE] IN
          n \in Managers /\ n.plan = next.plan /\ n.requested = next.requested /\ n.complete = next.complete
      BY <3>1, Zenon DEF Managers
    <3>. QED
      BY <3>1, <3>2, <3>3, Zenon
  <2>4. CASE mgr.requested
    <3>1. reload' \in Reloads /\ reload'.at = "rollback" /\ Reconcile("reload", policy)
      BY <1>0, <2>1, <2>2, <2>4, Zenon DEF Reloads
    <3>. QED
      BY <1>0, <2>2, <2>3, <3>1, BeginStep, Zenon
  <2>5. CASE ~mgr.requested
    <3>1. reload' = NoReload /\ UNCHANGED op
      BY <2>1, <2>5, Zenon
    <3>. QED
      BY <1>0, <2>2, <2>3, <2>5, <3>1, AsideStep, Zenon DEF Epoch
  <2>. QED
    BY <2>4, <2>5, Zenon
<1>4. ASSUME NEW c \in Policies, BeginConfigUpdate(c) PROVE PInv'
  <2>2. UNCHANGED <<life, cpus, lease, policy>> /\ op.kind = "none" /\ trouble' \in Nat
    BY <1>0, <1>4 DEF BeginConfigUpdate, host, Idle, NoOp, Fault
  <2>3. reload' \in Reloads /\ reload'.at = IF mgr.requested THEN "reconciling" ELSE "reconciled"
    BY <1>4, Zenon DEF BeginConfigUpdate, Reloads
  <2>4. CASE mgr.requested
    BY <1>0, <1>4, <2>2, <2>3, <2>4, BeginStep DEF BeginConfigUpdate
  <2>5. CASE ~mgr.requested
    <3>1. UNCHANGED op /\ mgr' = [mgr EXCEPT !.degraded = FALSE, !.pending = FALSE]
      BY <1>4, <2>5, Zenon DEF BeginConfigUpdate
    <3>2. mgr' \in Managers /\ mgr'.plan = mgr.plan /\ mgr'.requested = mgr.requested
          /\ mgr'.complete = mgr.complete
      BY <1>0, <3>1, Zenon DEF Managers
    <3>. QED
      BY <1>0, <2>2, <2>3, <2>5, <3>1, <3>2, AsideStep, Zenon DEF Epoch
  <2>. QED
    BY <2>4, <2>5, Zenon
<1>. QED
  BY <1>1, <1>2, <1>3, <1>4, Zenon

\* The daemon dies and starts again.
LEMMA RestartStep ==
    ASSUME PInv, Restart
    PROVE  PInv'
<1>1. /\ lease' \in [Units -> Leases] /\ policy' \in Policies /\ trouble' \in Nat
      /\ op' = NoOp /\ reload' = NoReload /\ UNCHANGED <<life, cpus>>
  BY PAssigned DEF PInv, PTypes, Restart, Fault, host
<1>2. mgr' \in Managers /\ ~mgr'.complete /\ mgr'.plan = NoPlan
  <2> DEFINE tracked == [u \in Units |-> lease'[u].inv]
             asked == Leased' # {}
  <2>1. tracked \in [Units -> Nat] /\ asked \in BOOLEAN
    BY <1>1, Zenon DEF Leases
  <2>2. mgr' = [NewManager EXCEPT !.requested = asked, !.tracked = tracked]
    BY Zenon DEF Restart
  <2>3. NewManager \in Managers /\ ~NewManager.complete /\ NewManager.plan = NoPlan
    BY PAssigned, Zenon DEF PInv, NewManager, Managers
  <2> HIDE DEF tracked, asked
  <2>. QED
    BY <2>1, <2>2, <2>3, Zenon DEF Managers
<1>3. op' \in Ops /\ reload' \in Reloads /\ op'.plan = NoPlan /\ op'.at = "idle" /\ op'.kind = "none"
  BY <1>1, PAssigned, Zenon DEF PInv, NoOp
<1>4. PTypes'
  BY <1>1, <1>2, <1>3, Zenon DEF PInv, PTypes
<1>5. PControl'
  BY <1>1, <1>3, Zenon DEF PControl, Idle, Epoch
<1>6. PBound'
  <2>1. life \in [Slices -> [inv : Nat, up : BOOLEAN]]
    BY Zenon DEF PInv, PTypes
  <2>2. \A s \in Slices : NoPlan.topo[s] = 0
    BY Zenon DEF NoPlan
  <2>. QED
    BY <1>1, <1>2, <1>3, <2>1, <2>2 DEF PBound
<1>7. PPlaced' /\ PReleased' /\ PKept'
  BY <1>2, <1>3, Zenon DEF PPlaced, PReleased, PKept
<1>. QED
  BY <1>4, <1>5, <1>6, <1>7, Zenon DEF PInv

\* What the steps of an attempt start from.
LEMMA InAttempt ==
    ASSUME PInv, op.at \in {"owned", "discover", "confirm", "apply", "publish"}
    PROVE  op.kind \in {"cycle", "reload"}
<1>1. op.kind \in OpKinds /\ ~Idle
  BY DEF PInv, PTypes, Ops, Idle, NoOp
<1>. QED
  BY <1>1, Zenon DEF PInv, PControl, OpKinds

\* reconcileSystemdCPUPointsAttempt up to the first mutation.
LEMMA AttemptBegins ==
    ASSUME PInv, ReconcileOwned \/ Discover \/ ConfirmTopology
    PROVE  PInv'
<1>0. /\ mgr \in Managers /\ op \in Ops /\ lease \in [Units -> Leases] /\ trouble \in Nat
      /\ \A s \in Slices : op.plan.topo[s] <= life[s].inv
      /\ cpus \in CPUs
  BY Zenon DEF PInv, PTypes, PBound
<1>1. CASE ReconcileOwned
  <2>0. op.kind \in {"cycle", "reload"} /\ UNCHANGED <<life, cpus, policy>> /\ trouble' \in Nat
    BY <1>0, <1>1, InAttempt DEF ReconcileOwned, Fault, NoFault, host
  <2>1. CASE /\ lease' = Reconciled /\ op' = [op EXCEPT !.at = "discover"]
             /\ UNCHANGED <<mgr, reload>>
    <3>1. op' \in Ops /\ op'.kind = op.kind /\ op'.plan = op.plan /\ op'.at = "discover"
      BY <1>0, <2>1, Zenon DEF Ops, OpSteps
    <3>2. PPlaced' /\ PReleased'
      BY <3>1, Zenon DEF PPlaced, PReleased
    <3>3. lease' \in [Units -> Leases]
      BY <2>1, PAssigned, Zenon DEF PInv
    <3>. QED
      BY <1>0, <2>0, <2>1, <3>1, <3>2, <3>3, AdvanceStep, Zenon
  <2>2. CASE Defer /\ UNCHANGED lease
    BY <1>0, <2>0, <2>2, DeferStep, Zenon
  <2>. QED
    BY <1>1, <2>1, <2>2, Zenon DEF ReconcileOwned
<1>2. CASE Discover
  <2>0. op.kind \in {"cycle", "reload"} /\ UNCHANGED <<life, cpus, policy, lease>> /\ trouble' \in Nat
    BY <1>0, <1>2, InAttempt DEF Discover, Fault, NoFault, host
  <2>1. CASE op' = [op EXCEPT !.at = "restore"] /\ UNCHANGED <<mgr, reload>>
    <3>1. op' \in Ops /\ op'.kind = op.kind /\ op'.plan = op.plan /\ op'.at = "restore"
      BY <1>0, <2>1, Zenon DEF Ops, OpSteps
    <3>2. PPlaced' /\ PReleased'
      BY <3>1, Zenon DEF PPlaced, PReleased
    <3>. QED
      BY <1>0, <2>0, <2>1, <3>1, <3>2, AdvanceStep, Zenon
  <2>2. CASE /\ op' = [op EXCEPT !.at = "confirm", !.plan.cpus = cpus, !.plan.topo = Topology]
             /\ UNCHANGED <<mgr, reload>>
    <3> DEFINE plan == [op.plan EXCEPT !.cpus = cpus, !.topo = Topology]
    <3>1. op' = [op EXCEPT !.at = "confirm", !.plan = plan]
      BY Zenon, <2>2
    <3>2. op.plan \in Plans
      BY <1>0, Zenon DEF Ops
    <3>3. plan \in Plans /\ plan.policy = op.plan.policy /\ plan.topo = Topology
      BY <1>0, <3>2, PAssigned, Zenon DEF PInv, Plans
    <3> HIDE DEF plan
    <3>4. op' \in Ops /\ op'.kind = op.kind /\ op'.plan = plan /\ op'.at = "confirm"
      BY <1>0, <3>1, <3>3, Zenon DEF Ops, OpSteps
    <3>5. PPlaced' /\ PReleased'
      BY <3>4, Zenon DEF PPlaced, PReleased
    <3>6. \A s \in Slices : op'.plan.topo[s] <= life[s].inv
      BY <3>3, <3>4, PAssigned, Zenon DEF PInv
    <3>. QED
      BY <1>0, <2>0, <2>2, <3>3, <3>4, <3>5, <3>6, AdvanceStep, Zenon
  <2>3. CASE Defer
    BY <1>0, <2>0, <2>3, DeferStep, Zenon
  <2>. QED
    BY <1>2, <2>1, <2>2, <2>3, Zenon DEF Discover
<1>3. CASE ConfirmTopology
  <2>0. op.kind \in {"cycle", "reload"} /\ UNCHANGED <<life, cpus, policy, lease>> /\ trouble' \in Nat
    BY <1>0, <1>3, InAttempt, Zenon DEF ConfirmTopology, NoFault, host
  <2>1. CASE Retry
    BY <1>0, <2>0, <2>1, RetryStep, Zenon
  <2>2. CASE /\ mgr' = Incomplete /\ UNCHANGED reload
             /\ op' = [op EXCEPT !.at = "apply", !.todo = {Parent} \cup Members(op.plan.topo)]
    <3>1. Named(op.plan) \in SUBSET Units
      BY Zenon DEF Named, Members, Units
    <3>2. op' = [op EXCEPT !.at = "apply", !.todo = Named(op.plan)]
      BY <2>2, Zenon DEF Named
    <3>3. /\ op' \in Ops /\ op'.kind = op.kind /\ op'.plan = op.plan /\ op'.at = "apply"
          /\ op'.todo = Named(op.plan)
      BY <1>0, <3>1, <3>2, Zenon DEF Ops, OpSteps
    <3>4. PPlaced' /\ PReleased'
      BY <3>3, Zenon DEF PPlaced, PReleased
    <3>5. mgr' \in Managers /\ mgr'.plan = mgr.plan /\ mgr'.requested = mgr.requested
      BY <1>0, <2>2, PAssigned, Zenon DEF PInv, Managers, Incomplete
    <3>. QED
      BY <1>0, <2>0, <2>2, <3>3, <3>4, <3>5, AdvanceStep, Zenon
  <2>. QED
    BY <1>3, <2>1, <2>2, Zenon DEF ConfirmTopology
<1>. QED
  BY <1>1, <1>2, <1>3, Zenon

\* A property is set.
LEMMA ApplyStep ==
    ASSUME PInv, NEW u \in Units, Apply(u)
    PROVE  PInv'
<1>0. /\ mgr \in Managers /\ op \in Ops /\ lease \in [Units -> Leases] /\ trouble \in Nat
      /\ \A s \in Slices : op.plan.topo[s] <= life[s].inv
      /\ op.plan \in Plans
  BY Zenon DEF PInv, PTypes, PBound, Ops
<1>1. /\ op.kind \in {"cycle", "reload"} /\ UNCHANGED <<life, cpus, policy>> /\ trouble' \in Nat
      /\ op.at = "apply"
  BY <1>0, InAttempt DEF Apply, Fault, NoFault, host
<1>2. Given(u) \in Leases
  <2>1. Share(op.plan, u) \in Shares
    BY <1>0 DEF Shares
  <2>. QED
    BY <2>1, PAssigned, Zenon DEF PInv, Given, Leases
<1>3. [lease EXCEPT ![u] = Given(u)] \in [Units -> Leases]
  BY <1>0, <1>2, Zenon
<1>4. CASE /\ Same(u) /\ lease' = [lease EXCEPT ![u] = Given(u)]
           /\ op' = [op EXCEPT !.todo = op.todo \ {u}] /\ UNCHANGED <<mgr, reload>>
  <2>1. /\ op' \in Ops /\ op'.kind = op.kind /\ op'.plan = op.plan /\ op'.at = "apply"
        /\ op'.todo = op.todo \ {u}
    <3>1. op.todo \ {u} \in SUBSET Units
      BY <1>0, Zenon DEF Ops
    <3>. QED
      BY <1>0, <1>1, <1>4, <3>1, Zenon DEF Ops
  <2>2. Topology' = Topology
    BY <1>1, Zenon DEF Topology
  <2>3. Carries(op.plan, u, lease', Topology)
    <3>1. lease'[u] = Given(u)
      BY <1>0, <1>4, Zenon
    <3>2. Given(u).inv = Invocation(u) /\ Given(u).share = Share(op.plan, u)
      BY Zenon DEF Given
    <3>. QED
      BY <1>4, <3>1, Zenon DEF Carries, Given, Same, Invocation
  <2>4. ASSUME NEW v \in Named(op.plan) \ (op.todo \ {u}) PROVE Carries(op.plan, v, lease', Topology)
    <3>1. CASE v = u
      BY <2>3, <3>1, Zenon
    <3>2. CASE v # u
      <4>1. Carries(op.plan, v, lease, Topology)
        BY <1>1, <2>4, <3>2, Zenon DEF PInv, PPlaced
      <4>2. v \in Units
        BY <2>4, Zenon DEF Named, Members, Units
      <4>3. lease'[v] = lease[v]
        BY <1>0, <1>4, <3>2, <4>2, Zenon
      <4>. QED
        BY <4>1, <4>3, Zenon DEF Carries
    <3>. QED
      BY <3>1, <3>2, Zenon
  <2>5. PPlaced' /\ PReleased'
    BY <2>1, <2>2, <2>4, Zenon DEF PPlaced, PReleased
  <2>. QED
    BY <1>0, <1>1, <1>3, <1>4, <2>1, <2>5, AdvanceStep, Zenon
<1>5. CASE Retry /\ UNCHANGED lease
  BY <1>0, <1>1, <1>5, RetryStep, Zenon
<1>6. CASE Defer /\ lease' \in {lease, [lease EXCEPT ![u] = Given(u)]}
  BY <1>0, <1>1, <1>3, <1>6, DeferStep, Zenon
<1>. QED
  BY <1>4, <1>5, <1>6, Zenon DEF Apply

\* Everything is set, and read again; publishSystemdCPUPointsPlan.
LEMMA AttemptEnds ==
    ASSUME PInv, ConfirmApplied \/ Publish
    PROVE  PInv'
<1>0. /\ mgr \in Managers /\ op \in Ops /\ lease \in [Units -> Leases] /\ trouble \in Nat
      /\ \A s \in Slices : op.plan.topo[s] <= life[s].inv
      /\ op.plan \in Plans /\ reload \in Reloads
  BY Zenon DEF PInv, PTypes, PBound, Ops
<1>1. /\ op.kind \in {"cycle", "reload"} /\ UNCHANGED <<life, cpus, policy, lease>> /\ trouble' \in Nat
  <2>1. op.at \in {"apply", "publish"}
    BY Zenon DEF ConfirmApplied, Publish
  <2>2. UNCHANGED <<life, cpus, policy, lease>> /\ trouble' \in {trouble, trouble + 1}
    BY Zenon DEF ConfirmApplied, Publish, Fault, NoFault, host
  <2>. QED
    BY <1>0, <2>1, <2>2, InAttempt
<1>2. Topology' = Topology
  BY <1>1, Zenon DEF Topology
<1>3. CASE Retry
  BY <1>0, <1>1, <1>3, RetryStep, Zenon
<1>4. CASE Defer
  BY <1>0, <1>1, <1>4, DeferStep, Zenon
<1>5. CASE op.at = "apply" /\ op.todo = {} /\ op' = [op EXCEPT !.at = "publish"] /\ UNCHANGED <<mgr, reload>>
  <2>1. /\ op' \in Ops /\ op'.kind = op.kind /\ op'.plan = op.plan /\ op'.at = "publish" /\ op'.todo = {}
    BY <1>0, <1>5, Zenon DEF Ops, OpSteps
  <2>2. PPlaced' /\ PReleased'
    BY <1>1, <1>2, <1>5, <2>1, Zenon DEF PInv, PPlaced, PReleased
  <2>. QED
    BY <1>0, <1>1, <1>5, <2>1, <2>2, AdvanceStep, Zenon
<1>6. CASE op.at = "publish" /\ Ended(Published, TRUE)
  <2> DEFINE tracked == [u \in Units |-> IF u = Parent THEN 1 ELSE op.plan.topo[u]]
             active == Members(op.plan.topo) \cap Eligible
  <2>1. tracked \in [Units -> Nat] /\ active \in SUBSET Slices
    BY <1>0, Zenon DEF Plans, Units, Members
  <2>2. Published = [mgr EXCEPT !.complete = TRUE, !.fresh = TRUE, !.degraded = FALSE,
                          !.pending = FALSE, !.plan = op.plan, !.tracked = tracked, !.active = active]
    BY Zenon DEF Published
  <2> HIDE DEF tracked, active
  <2>3. Published \in Managers /\ Published.plan = op.plan
    BY <1>0, <2>1, <2>2, Zenon DEF Managers
  <2>4. mgr' \in Managers /\ mgr'.plan = op.plan
    <3>1. mgr' = Published \/ mgr' = [Published EXCEPT !.degraded = ~TRUE, !.pending = ~TRUE]
      BY <1>6, Zenon DEF Ended
    <3>. QED
      BY <2>3, <3>1, Zenon DEF Managers
  <2>5. op' = NoOp /\ op' \in Ops /\ op'.plan = NoPlan /\ op'.at = "idle" /\ op'.kind = "none"
    BY <1>6, PAssigned, Zenon DEF PInv, Ended, NoOp
  <2>6. /\ reload' \in Reloads /\ (reload'.at = "none" => Epoch')
        /\ Epoch' => op.plan.policy = policy
    <3>1. CASE op.kind = "cycle"
      BY <1>0, <1>6, <3>1, Zenon DEF Ended, PInv, PControl, Epoch
    <3>2. CASE op.kind = "reload" /\ reload.at = "reconciling"
      <4>1. reload' = [reload EXCEPT !.at = "reconciled"]
        BY <1>6, <3>2, Zenon DEF Ended
      <4>2. reload' \in Reloads /\ reload'.at = "reconciled"
        BY <1>0, <3>2, <4>1 DEF Reloads, NoReload
      <4>. QED
        BY <4>2 DEF Epoch, NoReload
    <3>3. CASE op.kind = "reload" /\ reload.at = "rollback"
      BY <1>0, <1>6, <3>3, PAssigned, Zenon DEF Ended, PInv, PControl, Epoch
    <3>. QED
      BY <1>1, <3>1, <3>2, <3>3, Zenon DEF PInv, PControl
  <2>7. PTypes'
    BY <1>1, <2>4, <2>5, <2>6, Zenon DEF PInv, PTypes
  <2>8. PControl'
    BY <2>5, <2>6, Zenon DEF PControl, Idle
  <2>9. PBound'
    <3>1. life \in [Slices -> [inv : Nat, up : BOOLEAN]]
      BY Zenon DEF PInv, PTypes
    <3>2. \A s \in Slices : NoPlan.topo[s] <= life[s].inv
      BY <3>1 DEF NoPlan
    <3>. QED
      BY <1>0, <1>1, <2>4, <2>5, <3>2, Zenon DEF PBound
  <2>10. PPlaced' /\ PReleased'
    BY <2>5, Zenon DEF PPlaced, PReleased
  <2>11. \A u \in Named(op.plan) : Carries(op.plan, u, lease, Topology)
    BY <1>6, Zenon DEF PInv, PPlaced
  <2>12. PKept'
    BY <1>1, <1>2, <2>4, <2>6, <2>11, Zenon DEF PKept
  <2>. QED
    BY <2>7, <2>8, <2>9, <2>10, <2>12, Zenon DEF PInv
<1>. QED
  BY <1>3, <1>4, <1>5, <1>6, Zenon DEF ConfirmApplied, Publish

\* restoreSystemdCPUPoints finds what it owns.
LEMMA RestoreStep ==
    ASSUME PInv, RestoreOwned
    PROVE  PInv'
<1>0. /\ mgr \in Managers /\ op \in Ops /\ lease \in [Units -> Leases] /\ trouble \in Nat
      /\ \A s \in Slices : op.plan.topo[s] <= life[s].inv
  BY Zenon DEF PInv, PTypes, PBound
<1>1. UNCHANGED <<life, cpus, policy>> /\ trouble' \in Nat /\ op.at = "restore" /\ op.kind # "none"
  <2>1. op.at = "restore" /\ UNCHANGED <<life, cpus, policy>> /\ trouble' \in {trouble, trouble + 1}
    BY Zenon DEF RestoreOwned, Fault, NoFault, host
  <2>. QED
    BY <1>0, <2>1 DEF PInv, PControl, Idle, NoOp
<1>2. CASE /\ lease' = Reconciled /\ UNCHANGED <<mgr, reload>>
           /\ op' = [op EXCEPT !.at = "release", !.todo = Wanted(Reconciled)]
  <2>1. Wanted(Reconciled) \in SUBSET Units
    BY Zenon DEF Wanted, Held
  <2>2. op.kind = "deactivate" => Wanted(Reconciled) = Held(Reconciled)
    BY Zenon DEF Wanted, All
  <2>3. /\ op' \in Ops /\ op'.kind = op.kind /\ op'.plan = op.plan /\ op'.at = "release"
        /\ op'.todo = Wanted(Reconciled)
    BY <1>0, <1>2, <2>1, Zenon DEF Ops, OpSteps
  <2>4. Leased' = Held(Reconciled)
    BY <1>2, Zenon DEF Leased, Held
  <2>5. PPlaced' /\ PReleased'
    BY <2>2, <2>3, <2>4, Zenon DEF PPlaced, PReleased
  <2>6. lease' \in [Units -> Leases]
    BY <1>2, PAssigned, Zenon DEF PInv
  <2>. QED
    BY <1>0, <1>1, <1>2, <2>3, <2>5, <2>6, AdvanceStep, Zenon
<1>3. CASE /\ op' = [op EXCEPT !.at = "release", !.todo = Wanted(lease), !.failed = "fault"]
           /\ UNCHANGED <<mgr, reload, lease>>
  <2>1. Wanted(lease) \in SUBSET Units
    BY Zenon DEF Wanted, Held
  <2>2. /\ op' \in Ops /\ op'.kind = op.kind /\ op'.plan = op.plan /\ op'.at = "release"
        /\ op'.failed = "fault"
    BY <1>0, <1>3, <2>1, Zenon DEF Ops, OpSteps
  <2>3. PPlaced' /\ PReleased'
    BY <2>2, Zenon DEF PPlaced, PReleased
  <2>. QED
    BY <1>0, <1>1, <1>3, <2>2, <2>3, AdvanceStep, Zenon
<1>4. CASE op.kind = "withdraw" /\ Ended(mgr, FALSE) /\ UNCHANGED lease
  BY <1>0, <1>1, <1>4, EndStep, Zenon DEF PInv, PControl
<1>5. CASE Defer /\ UNCHANGED lease
  BY <1>0, <1>1, <1>5, DeferStep, Zenon
<1>. QED
  BY <1>2, <1>3, <1>4, <1>5, Zenon DEF RestoreOwned

\* One unit is released.
LEMMA ReleaseStep ==
    ASSUME PInv, NEW u \in Units, Release(u)
    PROVE  PInv'
<1>0. /\ mgr \in Managers /\ op \in Ops /\ lease \in [Units -> Leases] /\ trouble \in Nat
      /\ \A s \in Slices : op.plan.topo[s] <= life[s].inv
      /\ op.todo \ {u} \in SUBSET Units
  BY Zenon DEF PInv, PTypes, PBound, Ops
<1>1. UNCHANGED <<life, cpus, policy, mgr, reload>> /\ trouble' \in Nat
      /\ op.at = "release" /\ op.kind # "none"
  BY <1>0 DEF Release, Fault, NoFault, host, PInv, PControl, Idle, NoOp
<1>2. CASE lease' = [lease EXCEPT ![u] = NoLease] /\ op' = [op EXCEPT !.todo = op.todo \ {u}]
  <2>1. /\ op' \in Ops /\ op'.kind = op.kind /\ op'.plan = op.plan /\ op'.at = "release"
        /\ op'.failed = op.failed /\ op'.todo = op.todo \ {u}
    BY <1>0, <1>1, <1>2, Zenon DEF Ops
  <2>2. lease' \in [Units -> Leases]
    BY <1>0, <1>2, PAssigned, Zenon DEF PInv
  <2>3. Leased' \subseteq Leased \ {u}
    BY <1>0, <1>2, Zenon DEF Leased, Held
  <2>4. PPlaced' /\ PReleased'
    BY <1>1, <2>1, <2>3, Zenon DEF PInv, PPlaced, PReleased
  <2>. QED
    BY <1>0, <1>1, <2>1, <2>2, <2>4, AdvanceStep, Zenon
<1>3. ASSUME NEW why \in {"stale", "fault"}, UNCHANGED lease,
             op' = [op EXCEPT !.todo = op.todo \ {u}, !.failed = Failed(why)]
      PROVE  PInv'
  <2>1. Failed(why) \in {"stale", "fault"}
    BY <1>0, Zenon DEF Failed, Ops
  <2>2. /\ op' \in Ops /\ op'.kind = op.kind /\ op'.plan = op.plan /\ op'.at = "release"
        /\ op'.failed # "no"
    BY <1>0, <1>1, <1>3, <2>1, Zenon DEF Ops
  <2>3. PPlaced' /\ PReleased'
    BY <2>2, Zenon DEF PPlaced, PReleased
  <2>. QED
    BY <1>0, <1>1, <1>3, <2>2, <2>3, AdvanceStep, Zenon
<1>. QED
  BY <1>2, <1>3, Zenon DEF Release

\* A release ends.
LEMMA ReleaseDoneStep ==
    ASSUME PInv, ReleaseDone
    PROVE  PInv'
<1>0. /\ mgr \in Managers /\ op \in Ops /\ lease \in [Units -> Leases] /\ trouble \in Nat
  BY Zenon DEF PInv, PTypes
<1>1. UNCHANGED <<life, cpus, lease, policy>> /\ trouble' \in Nat /\ op.at = "release" /\ op.kind # "none"
  BY <1>0 DEF ReleaseDone, NoFault, host, PInv, PControl, Idle, NoOp
<1>2. CASE Ended(Released, TRUE)
  <2>1. Released.plan = mgr.plan
    BY <1>0, Zenon DEF Released, Managers
  <2>. QED
    BY <1>0, <1>1, <1>2, <2>1, PAssigned, EndStep, Zenon DEF PInv
<1>3. CASE op.kind = "withdraw" /\ Ended(mgr, FALSE)
  BY <1>0, <1>1, <1>3, EndStep, Zenon DEF PInv, PControl
<1>4. CASE op.kind # "withdraw" /\ ~All /\ Retry
  BY <1>0, <1>1, <1>4, RetryStep, Zenon DEF All
<1>5. CASE Defer
  BY <1>0, <1>1, <1>5, DeferStep, Zenon
<1>. QED
  BY <1>2, <1>3, <1>4, <1>5, Zenon DEF ReleaseDone

\* Every step, of a daemon that runs as MCCPUPoints lets it, keeps the invariant.
LEMMA PointsStep ==
    ASSUME PInv, [HNext]_hvars
    PROVE  PInv'
<1>1. CASE Next
  BY <1>1, EnvironmentStep, OperationsBegin, ReloadStep, RestartStep, AttemptBegins, ApplyStep,
     AttemptEnds, RestoreStep, ReleaseStep, ReleaseDoneStep, Zenon DEF Next, Step
<1>2. CASE UNCHANGED <<life, cpus, lease, policy, mgr, op, reload, trouble>>
  <2>1. PTypes' /\ PControl' /\ PBound' /\ PReleased'
    BY <1>2, Zenon DEF PInv, PTypes, PControl, PBound, PReleased, Idle, Epoch, Leased, Held
  <2>2. Topology' = Topology
    BY <1>2, Zenon DEF Topology
  <2>3. PPlaced' /\ PKept'
    BY <1>2, <2>2, Zenon DEF PInv, PPlaced, PKept, Idle, Epoch
  <2>. QED
    BY <2>1, <2>3, Zenon DEF PInv
<1>3. Next \/ UNCHANGED <<life, cpus, lease, policy, mgr, op, reload, trouble>>
  <2>1. CASE HWork
    BY <2>1, Zenon DEF HWork, Work, Next
  <2>2. CASE HElapse
    BY <2>2, Zenon DEF HElapse, Next
  <2>3. CASE Disturb
    BY <2>3, Zenon DEF Disturb, Next
  <2>4. CASE Settle \/ UNCHANGED hvars
    BY <2>4, Zenon DEF Settle, hvars, vars
  <2>. QED
    BY <2>1, <2>2, <2>3, <2>4, Zenon DEF HNext
<1>. QED
  BY <1>1, <1>2, <1>3, Zenon

\* No policy in force is the mark of no policy, and every run starts well.
LEMMA PointsInit ==
    ASSUME HInit
    PROVE  PInv
<1>1. /\ life = [s \in Slices |-> [inv |-> 1, up |-> TRUE]] /\ cpus \in CPUs
      /\ lease = [u \in Units |-> NoLease] /\ policy \in Policies /\ mgr = NewManager
      /\ op = NoOp /\ reload = NoReload /\ trouble = 0
  BY Zenon DEF HInit, Init
<1>2. NoPlan \in Plans /\ \A s \in Slices : NoPlan.topo[s] = 0
  BY Zenon DEF NoPlan, Plans
<1>3. op \in Ops /\ op.plan = NoPlan /\ op.at = "idle" /\ op.kind = "none"
  BY <1>1, <1>2, Zenon DEF NoOp, Ops, OpKinds, OpSteps
<1>4. mgr \in Managers /\ mgr.plan = NoPlan /\ ~mgr.complete
  BY <1>1, <1>2, Zenon DEF NewManager, Managers
<1>5. NoLease \in Leases
  BY DEF NoLease, Leases, Shares
<1>6. PTypes
  BY <1>1, <1>3, <1>4, <1>5, Zenon DEF PTypes, Reloads
<1>7. PControl /\ PPlaced /\ PKept /\ PReleased
  BY <1>1, <1>3, <1>4, Zenon DEF PControl, PPlaced, PKept, PReleased, Idle, Epoch
<1>8. PBound
  <2>1. \A s \in Slices : life[s].inv = 1 /\ mgr.plan.topo[s] = 0 /\ op.plan.topo[s] = 0
    BY <1>1, <1>2, <1>3, <1>4, Zenon
  <2>2. 0 <= 1
    OBVIOUS
  <2>. QED
    BY <2>1, <2>2, Zenon DEF PBound
<1>. QED
  BY <1>6, <1>7, <1>8, Zenon DEF PInv

\* The plan that a cycle reuses instead of reconciling (stageReconcileCPUPoints)
\* is one of the policy in force, and every unit it names that is still there
\* has the value it gives: for any slices, policies and numbers of CPUs, however
\* often slices come and go, calls fail, policies are reloaded or rolled back
\* and the daemon dies.
THEOREM ReusedPlansHold ==
    ASSUME Parent \notin Slices
    PROVE  HSpec => []ReusedPlanHolds
<1>1. HInit => PInv
  BY PointsInit, Zenon
<1>2. PInv /\ [HNext]_hvars => PInv'
  BY PointsStep, Zenon
<1>3. PInv => ReusedPlanHolds
  <2> SUFFICES ASSUME PInv, Idle, Epoch, mgr.requested, Reusable
               PROVE  mgr.plan.policy = policy /\ Holds(mgr.plan)
    BY Zenon DEF ReusedPlanHolds
  <2>1. /\ mgr.plan.policy = policy
        /\ \A u \in Named(mgr.plan) : Carries(mgr.plan, u, lease, Topology)
    BY Zenon DEF PInv, PKept, Reusable
  <2>2. lease[Parent].share = Share(mgr.plan, Parent)
    <3>1. Parent \in Named(mgr.plan)
      BY Zenon DEF Named
    <3>2. lease[Parent] = [inv |-> 1, share |-> Share(mgr.plan, Parent)]
      BY Zenon, <2>1, <3>1 DEF Carries
    <3>. QED
      BY <3>2
  <2>3. ASSUME NEW s \in Members(mgr.plan.topo), Topology[s] = mgr.plan.topo[s]
        PROVE  lease[s] = [inv |-> mgr.plan.topo[s], share |-> Share(mgr.plan, s)]
    BY <2>1, <2>3, Zenon DEF Named, Carries, Members
  <2>. QED
    BY <2>1, <2>2, <2>3, Zenon DEF Holds
<1>. QED
  BY <1>1, <1>2, <1>3, PTL DEF HSpec

\* A release of everything that ends without an error (restoreSystemdCPUPoints)
\* leaves no lease behind, although its units are released one by one while
\* slices come and go.
THEOREM DeactivationsComplete == HSpec => DeactivationComplete
<1>1. HInit => PInv
  BY PointsInit, Zenon
<1>2. PInv /\ [HNext]_hvars => PInv'
  BY PointsStep, Zenon
<1>3. ASSUME PInv, [HNext]_hvars
      PROVE  [op.kind = "deactivate" /\ op' = NoOp /\ mgr' = Released /\ trouble' = trouble
                => Leased' = {}]_vars
  <2> SUFFICES ASSUME op.kind = "deactivate", op' = NoOp, mgr' = Released, trouble' = trouble
               PROVE  Leased' = {}
    BY Zenon
  <2>1. op.at \in {"restore", "release"} /\ op'.at = "idle" /\ op # NoOp
    BY <1>3 DEF PInv, PControl, NoOp
  <2>2. trouble \in Nat /\ op \in Ops /\ mgr \in Managers
    BY <1>3, Zenon DEF PInv, PTypes
  <2>3. ~Fault
    BY <2>2 DEF Fault
  <2>4. ~Defer
    <3>1. [Incomplete EXCEPT !.degraded = TRUE].degraded = TRUE /\ Released.degraded = FALSE
      BY <2>2, Zenon DEF Incomplete, Released, Managers
    <3>. QED
      BY <3>1, Zenon DEF Defer, Ended
  <2>5. CASE ReleaseDone
    <3>1. op.failed = "no" /\ op.todo = {} /\ op.at = "release" /\ UNCHANGED lease
      BY <2>4, <2>5, Zenon DEF ReleaseDone, All
    <3>. QED
      BY <1>3, <3>1, Zenon DEF PInv, PReleased, Leased, Held
  <2>6. ReleaseDone
    <3>1. op' # op
      BY <2>1, Zenon
    <3>2. Step
      BY <1>3, <2>1, <2>3, <3>1, Zenon
      DEF HNext, HWork, Work, ReconcileCycle, PublishPolicy, RollBack,
          HElapse, Elapse, Disturb, Environment, Hotplug, Depart, Return,
          Deactivate, Cleanup, Restart, Activate, BeginConfigUpdate, Settle,
          Idle, hvars, vars
    <3>3. ~RestoreOwned
      <4>1. [op EXCEPT !.at = "release", !.todo = Wanted(Reconciled)].at = "release"
        BY <2>2, Zenon DEF Ops
      <4>. QED
        BY <2>1, <2>3, <4>1, Zenon DEF RestoreOwned
    <3>4. ASSUME NEW u \in Units PROVE ~Release(u) /\ ~Apply(u)
      <4>1. /\ [op EXCEPT !.todo = op.todo \ {u}].at = op.at
            /\ [op EXCEPT !.todo = op.todo \ {u}, !.failed = Failed("stale")].at = op.at
        BY <2>2, Zenon DEF Ops
      <4>. QED
        BY <2>1, <2>3, <4>1, Zenon DEF Release, Apply
    <3>5. ~(ReconcileOwned \/ Discover \/ ConfirmTopology \/ ConfirmApplied \/ Publish)
      BY <2>1, Zenon DEF ReconcileOwned, Discover, ConfirmTopology, ConfirmApplied, Publish
    <3>. QED
      BY <3>2, <3>3, <3>4, <3>5, Zenon DEF Step
  <2>. QED
    BY <2>5, <2>6, Zenon
<1>. QED
  BY <1>1, <1>2, <1>3, PTL DEF HSpec, DeactivationComplete

-----------------------------------------------------------------------------
(* The series of users *)

\* What the variables of the series hold.
Exporters == [tracked : SUBSET U!Keys, gauges : SUBSET U!Keys, io : [U!Keys -> Nat],
              counters : SUBSET U!Keys, prevIO : [U!Keys -> Nat],
              labels : [U!Keys -> SUBSET U!Lifecycles], patterns : [U!Keys -> SUBSET U!Patterns],
              prevPatterns : [U!Keys -> U!Patterns \cup {"none"}]]

UTypes ==
    /\ uUser \in [uUids -> [present : BOOLEAN, live : Nat, done : Nat]]
    /\ uExp \in Exporters /\ uGap \in [uUids -> BOOLEAN]
    /\ uCycle \in [pc : {"idle", "publish", "patterns"}, sample : SUBSET uUids, todo : SUBSET uUids]
    /\ uDetector \in [hours : [uUids -> SUBSET Int], last : Int] /\ uNow \in Nat

\* Series are of tracked keys, and the cleanup leaves the tracked keys of the sample.
UTracked ==
    /\ \A k \in U!Keys : k \in uExp.gauges \cup uExp.counters \/ uExp.labels[k] # {} => k \in uExp.tracked
    /\ uCycle.pc # "publish" => \A k \in uExp.tracked : k[1] \in uCycle.sample

\* A key has one label or none.
AtMostOne(set) == set = {} \/ \E e : set = {e}

Labelled(e) ==
    \A k \in U!Keys : /\ AtMostOne(e.labels[k])
                      /\ e.patterns[k] = {e.prevPatterns[k]} \ {"none"}

\* What the counter shows, and what it will show after a sample of the processes
\* alive now, the user has done.
Shown(io, prev, of) == io <= of.done /\ io + of.live <= of.done + prev

UShown ==
    /\ \A u \in uUids : uUser[u].live <= uUser[u].done
    /\ \A k \in U!Keys : ~uGap[k[1]] => Shown(uExp.io[k], uExp.prevIO[k], uUser[k[1]])

\* The hours kept are those of the last analysis and the one after.
Window(last) == (U!Hour(last) - (uHistory - 1))..(U!Hour(last) + 1)

UHours ==
    /\ uDetector.last <= uNow
    /\ \A u \in uUids : uDetector.hours[u] \subseteq Window(uDetector.last)

\* The inductive invariant.
UInv == UTypes /\ UTracked /\ Labelled(uExp) /\ UShown /\ UHours

\* A key is a uid and a name.
LEMMA KeysHaveUids == \A k \in U!Keys : k[1] \in uUids
BY Zenon DEF U!Keys

\* Two moments no more than an hour apart.
LEMMA HoursApart ==
    ASSUME NEW a \in Int, NEW b \in Int, a <= b
    PROVE  /\ U!Hour(a) \in Int /\ U!Hour(b) \in Int /\ U!Hour(a) <= U!Hour(b)
           /\ b - a <= 2 => U!Hour(b) <= U!Hour(a) + 1
BY DEF U!Hour

\* The instance has the cardinality of the library.
LEMMA SameCardinality == \A S : U!Cardinality(S) = Cardinality(S)
BY Zenon DEF U!Cardinality, Cardinality

\* A window holds one hour more than the history.
LEMMA WindowSize ==
    ASSUME NEW last \in Int, NEW hours, hours \subseteq Window(last)
    PROVE  Cardinality(hours) <= uHistory + 1
<1>1. U!Hour(last) \in Int
  BY HoursApart
<1> DEFINE lo == U!Hour(last) - (uHistory - 1)
           hi == U!Hour(last) + 1
<1>2. lo \in Int /\ hi \in Int /\ lo <= hi /\ hi - lo + 1 = uHistory + 1
  BY <1>1, UserSeriesAssumption
<1> HIDE DEF lo, hi
<1>3. IsFiniteSet(lo..hi) /\ Cardinality(lo..hi) = uHistory + 1
  BY <1>2, FS_Interval
<1>4. hours \subseteq lo..hi
  BY Zenon DEF Window, lo, hi
<1>. QED
  BY <1>3, <1>4, FS_Subset, Zenon

\* Publishing a user leaves the counter within what the user has done.
LEMMA SnapshotShows ==
    ASSUME NEW io \in Nat, NEW prev \in Nat, NEW of \in [present : BOOLEAN, live : Nat, done : Nat],
           of.live <= of.done, Shown(io, prev, of)
    PROVE  /\ Shown(0, 0, of)
           /\ Shown(io + (IF of.live >= prev THEN of.live - prev ELSE 0), of.live, of)
BY DEF Shown

\* A user that works or ends processes shows no more than before.
Moved(from, to) ==
    /\ to.live <= to.done /\ to.done >= from.done
    /\ to.done - to.live >= from.done - from.live

\* The users and the operator move nothing that is published.
LEMMA UsersMove ==
    ASSUME UInv,
           \/ \E u \in uUids : U!Login(u) \/ U!Work(u) \/ U!Exit(u)
           \/ U!Reconfigure \/ U!Tick \/ UNCHANGED U!vars
    PROVE  UInv'
<1> USE DEF UInv
<1>1. ASSUME NEW u \in uUids, U!Login(u) \/ U!Work(u) \/ U!Exit(u) PROVE UInv'
  <2>1. UNCHANGED <<uExp, uCycle, uDetector, uNow, uGap>>
    BY <1>1, Zenon DEF U!Login, U!Work, U!Exit
  <2>2. uUser[u] \in [present : BOOLEAN, live : Nat, done : Nat] /\ uUser[u].live <= uUser[u].done
    BY <1>1, Zenon DEF UTypes, UShown
  <2>3. \E to \in [present : BOOLEAN, live : Nat, done : Nat] :
          uUser' = [uUser EXCEPT ![u] = to] /\ Moved(uUser[u], to)
    <3>1. CASE U!Login(u)
      <4> DEFINE to == [uUser[u] EXCEPT !.present = TRUE]
      <4>1. uUser' = [uUser EXCEPT ![u] = to]
        BY <3>1, Zenon DEF U!Login
      <4>2. to \in [present : BOOLEAN, live : Nat, done : Nat] /\ to.live = uUser[u].live /\ to.done = uUser[u].done
        BY <2>2, Zenon
      <4> HIDE DEF to
      <4>3. Moved(uUser[u], to)
        BY <2>2, <4>2 DEF Moved
      <4>. QED
        BY <4>1, <4>2, <4>3, Zenon
    <3>2. CASE U!Work(u)
      <4> DEFINE to == [uUser[u] EXCEPT !.live = uUser[u].live + 1, !.done = uUser[u].done + 1]
      <4>1. uUser' = [uUser EXCEPT ![u] = to]
        BY <3>2 DEF U!Work, UTypes
      <4>2. to \in [present : BOOLEAN, live : Nat, done : Nat] /\ to.live = uUser[u].live + 1 /\ to.done = uUser[u].done + 1
        <5>1. uUser[u].live + 1 \in Nat /\ uUser[u].done + 1 \in Nat
          BY <2>2
        <5>. QED
          BY <2>2, <5>1, Zenon
      <4> HIDE DEF to
      <4>3. Moved(uUser[u], to)
        BY <2>2, <4>2 DEF Moved
      <4>. QED
        BY <4>1, <4>2, <4>3, Zenon
    <3>3. CASE U!Exit(u)
      <4>1. PICK live \in 0..uUser[u].live, stays \in BOOLEAN :
               uUser' = [uUser EXCEPT ![u].live = live, ![u].present = stays]
        BY <3>3, Zenon DEF U!Exit
      <4> DEFINE to == [uUser[u] EXCEPT !.live = live, !.present = stays]
      <4>2. uUser' = [uUser EXCEPT ![u] = to]
        BY <4>1, Zenon DEF UTypes
      <4>3. to \in [present : BOOLEAN, live : Nat, done : Nat] /\ to.live = live /\ to.done = uUser[u].done
        <5>1. live \in Nat
          BY <2>2
        <5>. QED
          BY <2>2, <5>1, Zenon
      <4> HIDE DEF to
      <4>4. Moved(uUser[u], to)
        BY <2>2, <4>3 DEF Moved
      <4>. QED
        BY <4>2, <4>3, <4>4, Zenon
    <3>. QED
      BY <1>1, <3>1, <3>2, <3>3, Zenon
  <2>4. PICK to \in [present : BOOLEAN, live : Nat, done : Nat] :
          uUser' = [uUser EXCEPT ![u] = to] /\ Moved(uUser[u], to)
    BY <2>3, Zenon
  <2>5. UTypes' /\ uUser'[u] = to /\ \A v \in uUids \ {u} : uUser'[v] = uUser[v]
    BY <2>1, <2>4, Zenon DEF UTypes
  <2>6. ASSUME NEW io \in Nat, NEW prev \in Nat, Shown(io, prev, uUser[u]) PROVE Shown(io, prev, to)
    BY <2>2, <2>4, <2>6 DEF Shown, Moved
  <2>7. UShown'
    BY <2>1, <2>4, <2>5, <2>6, KeysHaveUids, Zenon DEF UShown, UTypes, Exporters, Moved
  <2>. QED
    BY <2>1, <2>5, <2>7, Zenon DEF UTracked, Labelled, UHours
<1>2. CASE U!Tick
  <2>1. UNCHANGED <<uUser, uExp, uCycle, uDetector, uGap>> /\ uNow' = uNow + 1
    BY <1>2, Zenon DEF U!Tick
  <2>2. UTypes' /\ UHours'
    BY <2>1 DEF UTypes, UHours
  <2>. QED
    BY <2>1, <2>2, Zenon DEF UTracked, Labelled, UShown
<1>3. CASE U!Reconfigure \/ UNCHANGED U!vars
  <2>1. UNCHANGED <<uUser, uExp, uCycle, uDetector, uGap, uNow>>
    BY <1>3, Zenon DEF U!Reconfigure, U!vars
  <2>. QED
    BY <2>1, Zenon DEF UTypes, UTracked, Labelled, UShown, UHours
<1>. QED
  BY <1>1, <1>2, <1>3, Zenon

\* The publication of one user.
LEMMA SnapshotPublishes ==
    ASSUME UInv, NEW u \in uUids, U!UpdateUserSnapshot(u)
    PROVE  UInv'
<1> USE DEF UInv
<1>1. PICK name \in U!Names, lifecycle \in U!States :
        LET k == <<u, name>> IN
        \/ uExp' = U!Unobserved(k, lifecycle) /\ UNCHANGED uGap
        \/ \E observed \in {uUser[u].live} \cup (IF uGap[u] THEN {} ELSE {0}) :
              /\ uExp' = U!Observed(k, observed, lifecycle)
              /\ uGap' = [uGap EXCEPT ![u] = uGap[u] \/ observed < uUser[u].live]
  BY Zenon DEF U!UpdateUserSnapshot, U!getUsername
<1> DEFINE k == <<u, name>>
<1>2. k \in U!Keys /\ k[1] = u
  BY Zenon DEF U!Keys
<1>3. /\ uCycle.pc = "publish" /\ uCycle' = [uCycle EXCEPT !.todo = uCycle.todo \ {u}]
      /\ UNCHANGED <<uUser, uDetector, uNow>>
  BY Zenon DEF U!UpdateUserSnapshot
<1>4. lifecycle \in SUBSET U!Lifecycles /\ AtMostOne(lifecycle)
  BY Zenon DEF U!States, AtMostOne
<1>5. uExp \in Exporters /\ uUser[u] \in [present : BOOLEAN, live : Nat, done : Nat] /\ uGap[u] \in BOOLEAN
  BY Zenon DEF UTypes
<1> HIDE DEF k
<1>6. CASE uExp' = U!Unobserved(k, lifecycle) /\ UNCHANGED uGap
  <2>1. uExp' = [tracked |-> uExp.tracked \cup {k}, gauges |-> uExp.gauges \ {k},
                 io |-> [uExp.io EXCEPT ![k] = 0], counters |-> uExp.counters \ {k},
                 prevIO |-> [uExp.prevIO EXCEPT ![k] = 0], labels |-> [uExp.labels EXCEPT ![k] = lifecycle],
                 patterns |-> [uExp.patterns EXCEPT ![k] = uExp.patterns[k] \ {uExp.prevPatterns[k]}],
                 prevPatterns |-> [uExp.prevPatterns EXCEPT ![k] = "none"]]
    BY <1>5, <1>6, Zenon DEF U!Unobserved, U!updateUser, Exporters
  <2>2. /\ uExp'.tracked = uExp.tracked \cup {k} /\ uExp'.gauges = uExp.gauges \ {k}
        /\ uExp'.io = [uExp.io EXCEPT ![k] = 0] /\ uExp'.counters = uExp.counters \ {k}
        /\ uExp'.prevIO = [uExp.prevIO EXCEPT ![k] = 0] /\ uExp'.labels = [uExp.labels EXCEPT ![k] = lifecycle]
        /\ uExp'.patterns = [uExp.patterns EXCEPT ![k] = uExp.patterns[k] \ {uExp.prevPatterns[k]}]
        /\ uExp'.prevPatterns = [uExp.prevPatterns EXCEPT ![k] = "none"]
    BY <2>1, Zenon
  <2>3. uExp' \in Exporters
    BY <1>2, <1>4, <1>5, <2>1 DEF Exporters
  <2>4. UTypes' /\ uCycle'.pc = "publish"
    BY <1>3, <1>6, <2>3, Zenon DEF UTypes
  <2>5. UTracked'
    BY <1>2, <1>5, <2>2, <2>4, Zenon DEF UTracked, Exporters
  <2>a. \A j \in U!Keys :
          /\ uExp'.labels[j] = IF j = k THEN lifecycle ELSE uExp.labels[j]
          /\ uExp'.patterns[j] = IF j = k THEN uExp.patterns[k] \ {uExp.prevPatterns[k]} ELSE uExp.patterns[j]
          /\ uExp'.prevPatterns[j] = IF j = k THEN "none" ELSE uExp.prevPatterns[j]
    BY <1>2, <1>5, <2>2, Zenon DEF Exporters
  <2>b. \A j \in U!Keys :
          /\ uExp'.io[j] = IF j = k THEN 0 ELSE uExp.io[j]
          /\ uExp'.prevIO[j] = IF j = k THEN 0 ELSE uExp.prevIO[j]
    BY <1>2, <1>5, <2>2, Zenon DEF Exporters
  <2>6. Labelled(uExp')
    <3>1. uExp.patterns[k] = {uExp.prevPatterns[k]} \ {"none"}
      BY <1>2, Zenon DEF Labelled
    <3>2. uExp.patterns[k] \ {uExp.prevPatterns[k]} = {"none"} \ {"none"}
      BY <3>1, Zenon
    <3>. QED
      <4>1. ASSUME NEW j \in U!Keys
            PROVE  AtMostOne(uExp'.labels[j]) /\ uExp'.patterns[j] = {uExp'.prevPatterns[j]} \ {"none"}
        <5>1. CASE j = k
          BY <1>4, <2>a, <3>2, <4>1, <5>1, Zenon
        <5>2. CASE j # k
          BY <2>a, <4>1, <5>2, Zenon DEF Labelled
        <5>. QED
          BY <5>1, <5>2, Zenon
      <4>. QED
        BY <4>1, Zenon DEF Labelled
  <2>7. UShown'
    <3>1. Shown(0, 0, uUser[u])
      BY <1>5 DEF UShown, Shown
    <3>. QED
      BY <1>2, <1>3, <1>6, <2>b, <3>1, Zenon DEF UShown
  <2>. QED
    BY <1>3, <2>4, <2>5, <2>6, <2>7, Zenon DEF UHours
<1>7. ASSUME NEW observed \in {uUser[u].live} \cup (IF uGap[u] THEN {} ELSE {0}),
             uExp' = U!Observed(k, observed, lifecycle),
             uGap' = [uGap EXCEPT ![u] = uGap[u] \/ observed < uUser[u].live]
      PROVE  UInv'
  <2> DEFINE io == uExp.io[k] + U!Increase(k, observed)
  <2>1. uExp' = [tracked |-> uExp.tracked \cup {k}, gauges |-> uExp.gauges \cup {k},
                 io |-> [uExp.io EXCEPT ![k] = io], counters |-> uExp.counters \cup {k},
                 prevIO |-> [uExp.prevIO EXCEPT ![k] = observed], labels |-> [uExp.labels EXCEPT ![k] = lifecycle],
                 patterns |-> uExp.patterns, prevPatterns |-> uExp.prevPatterns]
    BY <1>5, <1>7, Zenon DEF U!Observed, U!updateUser, Exporters
  <2>2. observed \in Nat /\ uExp.prevIO[k] \in Nat /\ uExp.io[k] \in Nat
    BY <1>2, <1>5 DEF Exporters
  <2>3. io \in Nat /\ io = uExp.io[k] + (IF observed >= uExp.prevIO[k] THEN observed - uExp.prevIO[k] ELSE 0)
    BY <2>2 DEF U!Increase
  <2> HIDE DEF io
  <2>4. /\ uExp'.tracked = uExp.tracked \cup {k} /\ uExp'.gauges = uExp.gauges \cup {k}
        /\ uExp'.io = [uExp.io EXCEPT ![k] = io] /\ uExp'.counters = uExp.counters \cup {k}
        /\ uExp'.prevIO = [uExp.prevIO EXCEPT ![k] = observed] /\ uExp'.labels = [uExp.labels EXCEPT ![k] = lifecycle]
        /\ uExp'.patterns = uExp.patterns /\ uExp'.prevPatterns = uExp.prevPatterns
    BY <2>1, Zenon
  <2>5. uExp' \in Exporters
    BY <1>2, <1>4, <1>5, <2>1, <2>2, <2>3 DEF Exporters
  <2>6. UTypes' /\ uCycle'.pc = "publish"
    BY <1>3, <1>7, <2>5, Zenon DEF UTypes
  <2>7. UTracked'
    BY <1>2, <1>5, <2>4, <2>6, Zenon DEF UTracked, Exporters
  <2>a. \A j \in U!Keys :
          /\ uExp'.labels[j] = IF j = k THEN lifecycle ELSE uExp.labels[j]
          /\ uExp'.io[j] = IF j = k THEN io ELSE uExp.io[j]
          /\ uExp'.prevIO[j] = IF j = k THEN observed ELSE uExp.prevIO[j]
    BY <1>2, <1>5, <2>4, Zenon DEF Exporters
  <2>8. Labelled(uExp')
    <3>1. ASSUME NEW j \in U!Keys PROVE AtMostOne(uExp'.labels[j])
      BY <1>4, <2>a, <3>1, Zenon DEF Labelled
    <3>. QED
      BY <2>4, <3>1, Zenon DEF Labelled
  <2>9. ASSUME ~uGap'[u] PROVE Shown(io, observed, uUser[u])
    <3>1. ~uGap[u] /\ ~(observed < uUser[u].live)
      BY <1>5, <1>7, <2>9, Zenon DEF UTypes
    <3>2. observed = uUser[u].live
      BY <1>5, <1>7, <2>2, <3>1
    <3>3. Shown(uExp.io[k], uExp.prevIO[k], uUser[u]) /\ uUser[u].live <= uUser[u].done
      BY <1>2, <3>1, Zenon DEF UShown
    <3>. QED
      BY <1>5, <2>2, <2>3, <3>2, <3>3, SnapshotShows, Zenon
  <2>10. \A v \in uUids \ {u} : uGap'[v] = uGap[v]
    BY <1>7, Zenon DEF UTypes
  <2>11. UShown'
    <3>1. ASSUME NEW j \in U!Keys, ~uGap'[j[1]] PROVE Shown(uExp'.io[j], uExp'.prevIO[j], uUser[j[1]])
      <4>1. CASE j = k
        BY <1>2, <2>9, <2>a, <3>1, <4>1, Zenon
      <4>2. CASE j # k
        <5>1. ~uGap[j[1]]
          BY <1>7, <2>10, <3>1, KeysHaveUids, Zenon DEF UTypes
        <5>. QED
          BY <2>a, <3>1, <4>2, <5>1, Zenon DEF UShown
      <4>. QED
        BY <4>1, <4>2, Zenon
    <3>. QED
      BY <1>3, <3>1, Zenon DEF UShown
  <2>. QED
    BY <1>3, <2>6, <2>7, <2>8, <2>11, Zenon DEF UHours
<1>. QED
  BY <1>1, <1>6, <1>7, Zenon DEF k

\* The removal of the users the sample does not hold.
LEMMA CleanupRemoves ==
    ASSUME UInv, U!CleanupUserMetrics
    PROVE  UInv'
<1> USE DEF UInv
<1> DEFINE gone == {k \in uExp.tracked : U!Gone(k)}
           Cut(f, none) == [k \in U!Keys |-> IF k \in gone THEN none ELSE f[k]]
<1>1. uExp \in Exporters
  BY Zenon DEF UTypes
<1>2. uExp' = [tracked |-> uExp.tracked \ gone, gauges |-> uExp.gauges \ gone, io |-> Cut(uExp.io, 0),
               counters |-> uExp.counters \ gone, prevIO |-> Cut(uExp.prevIO, 0), labels |-> Cut(uExp.labels, {}),
               patterns |-> [k \in U!Keys |-> IF k \in gone THEN uExp.patterns[k] \ {uExp.prevPatterns[k]}
                                              ELSE uExp.patterns[k]],
               prevPatterns |-> Cut(uExp.prevPatterns, "none")]
  BY <1>1, Zenon DEF U!CleanupUserMetrics, Exporters
<1>3. uCycle' = [uCycle EXCEPT !.pc = "patterns"] /\ UNCHANGED <<uUser, uDetector, uNow, uGap>>
  BY Zenon DEF U!CleanupUserMetrics
<1>4. \A k \in uExp.tracked \ gone : k[1] \in uCycle.sample
  BY Zenon DEF U!Gone
<1> HIDE DEF gone
<1>5. /\ uExp'.tracked = uExp.tracked \ gone /\ uExp'.gauges = uExp.gauges \ gone
      /\ uExp'.counters = uExp.counters \ gone
      /\ \A k \in U!Keys :
           IF k \in gone
           THEN /\ uExp'.io[k] = 0 /\ uExp'.prevIO[k] = 0 /\ uExp'.labels[k] = {}
                /\ uExp'.patterns[k] = uExp.patterns[k] \ {uExp.prevPatterns[k]} /\ uExp'.prevPatterns[k] = "none"
           ELSE /\ uExp'.io[k] = uExp.io[k] /\ uExp'.prevIO[k] = uExp.prevIO[k] /\ uExp'.labels[k] = uExp.labels[k]
                /\ uExp'.patterns[k] = uExp.patterns[k] /\ uExp'.prevPatterns[k] = uExp.prevPatterns[k]
  BY <1>2, Zenon
<1>6. UTypes'
  <2>1. uExp' \in Exporters
    BY <1>1, <1>2 DEF Exporters
  <2>. QED
    BY <1>3, <2>1, Zenon DEF UTypes
<1>7. UTracked'
  BY <1>1, <1>3, <1>4, <1>5, Zenon DEF UTracked, UTypes, Exporters
<1>8. ASSUME NEW k \in U!Keys
      PROVE  AtMostOne(uExp'.labels[k]) /\ uExp'.patterns[k] = {uExp'.prevPatterns[k]} \ {"none"}
  <2>1. CASE k \in gone
    <3>1. uExp.patterns[k] = {uExp.prevPatterns[k]} \ {"none"}
      BY <1>8, Zenon DEF Labelled
    <3>2. uExp.patterns[k] \ {uExp.prevPatterns[k]} = {"none"} \ {"none"}
      BY <3>1, Zenon
    <3>. QED
      BY <1>5, <1>8, <2>1, <3>2, Zenon DEF AtMostOne
  <2>2. CASE k \notin gone
    BY <1>5, <1>8, <2>2, Zenon DEF Labelled
  <2>. QED
    BY <2>1, <2>2, Zenon
<1>9. ASSUME NEW k \in U!Keys, ~uGap[k[1]] PROVE Shown(uExp'.io[k], uExp'.prevIO[k], uUser[k[1]])
  <2>1. Shown(0, 0, uUser[k[1]])
    <3>1. uUser[k[1]] \in [present : BOOLEAN, live : Nat, done : Nat] /\ uUser[k[1]].live <= uUser[k[1]].done
      BY KeysHaveUids, Zenon DEF UTypes, UShown
    <3>. QED
      BY <3>1 DEF Shown
  <2>. QED
    BY <1>5, <1>9, <2>1, Zenon DEF UShown
<1>. QED
  BY <1>3, <1>6, <1>7, <1>8, <1>9, Zenon DEF UHours, UShown, Labelled

\* The stage of the patterns: the history stays in the window, and a key has the
\* pattern published last.
LEMMA PatternsStage ==
    ASSUME UInv, U!stageWorkloadPatternDetection
    PROVE  UInv'
<1> USE DEF UInv
<1>1. /\ uCycle.pc = "patterns" /\ uCycle' = [pc |-> "idle", sample |-> uCycle.sample, todo |-> {}]
      /\ UNCHANGED <<uUser, uNow, uGap>>
  BY Zenon DEF U!stageWorkloadPatternDetection
<1>2. /\ uDetector.hours \in [uUids -> SUBSET Int] /\ uDetector.last \in Int /\ uNow \in Nat
      /\ uExp \in Exporters /\ uDetector.last <= uNow
      /\ uDetector \in [hours : [uUids -> SUBSET Int], last : Int]
  BY Zenon DEF UTypes, UHours
<1>3. U!Hour(uNow) \in Int /\ U!Hour(uDetector.last) \in Int
  BY <1>2, HoursApart
<1>4. U!Retained \in [uUids -> SUBSET Int]
      /\ \A u \in uUids : U!Retained[u] \subseteq uDetector.hours[u] \cup {U!Hour(uNow)}
  BY <1>2, <1>3, Zenon DEF U!Retained
<1>5. /\ uDetector' \in [hours : [uUids -> SUBSET Int], last : Int] /\ uDetector'.last <= uNow
      /\ \A u \in uUids : uDetector'.hours[u] \subseteq Window(uDetector'.last)
  <2>1. CASE ~uCfg.auto \/ uFollow # "pattern"
    <3>1. uDetector' = [uDetector EXCEPT !.hours = [u \in uUids |-> {}]]
      BY <2>1, Zenon DEF U!stageWorkloadPatternDetection
    <3>2. /\ uDetector'.last = uDetector.last /\ \A u \in uUids : uDetector'.hours[u] = {}
          /\ uDetector' \in [hours : [uUids -> SUBSET Int], last : Int]
      BY <1>2, <3>1, Zenon
    <3>. QED
      BY <1>2, <3>2, Zenon
  <2>2. CASE ~(~uCfg.auto \/ uFollow # "pattern") /\ uNow - uDetector.last <= 2
    <3>1. uDetector' = [uDetector EXCEPT !.hours = U!Retained]
      BY <2>2, Zenon DEF U!stageWorkloadPatternDetection
    <3>2. /\ uDetector'.last = uDetector.last /\ uDetector'.hours = U!Retained
          /\ uDetector' \in [hours : [uUids -> SUBSET Int], last : Int]
      BY <1>2, <1>4, <3>1, Zenon
    <3>3. U!Hour(uNow) \in Window(uDetector.last)
      <4>1. U!Hour(uDetector.last) <= U!Hour(uNow) /\ U!Hour(uNow) <= U!Hour(uDetector.last) + 1
        BY <1>2, <2>2, HoursApart
      <4>. QED
        BY <1>3, <4>1, UserSeriesAssumption DEF Window
    <3>. QED
      BY <1>2, <1>4, <3>2, <3>3, Zenon DEF UHours
  <2>3. CASE ~(~uCfg.auto \/ uFollow # "pattern") /\ ~(uNow - uDetector.last <= 2)
    <3>1. uDetector' = [hours |-> U!Cleanup(U!Retained), last |-> uNow]
      BY <2>3, Zenon DEF U!stageWorkloadPatternDetection
    <3>2. U!Hour(uDetector.last) <= U!Hour(uNow)
      BY <1>2, HoursApart
    <3>3. ASSUME NEW u \in uUids, NEW h \in U!Retained[u], h >= U!Hour(uNow) - (uHistory - 1)
          PROVE  h \in Window(uNow)
      <4>1. h \in Int /\ (h = U!Hour(uNow) \/ h \in Window(uDetector.last))
        BY <1>4, <3>3, Zenon DEF UHours
      <4>2. h <= U!Hour(uNow) + 1
        BY <1>3, <3>2, <4>1 DEF Window
      <4>. QED
        BY <1>3, <3>3, <4>1, <4>2, UserSeriesAssumption DEF Window
    <3>4. U!Cleanup(U!Retained) \in [uUids -> SUBSET Int]
          /\ \A u \in uUids : U!Cleanup(U!Retained)[u] \subseteq Window(uNow)
      BY <1>4, <3>3, Zenon DEF U!Cleanup
    <3>. QED
      BY <1>2, <3>1, <3>4
  <2>. QED
    BY <2>1, <2>2, <2>3, Zenon
<1>6. ASSUME UNCHANGED uExp PROVE UInv'
  BY <1>1, <1>2, <1>5, <1>6, Zenon DEF UTypes, UTracked, Labelled, UShown, UHours
<1>7. ASSUME NEW hours, NEW result \in U!Analyze(hours), NEW name, uExp' = U!Publish(uExp, result, name)
      PROVE  UInv'
  <2> DEFINE Analyzed(k) == k[1] \in DOMAIN result /\ name[k[1]] = k[2]
             to(k) == result[k[1]]
  <2>1. \A u \in DOMAIN result : result[u] \in U!Patterns
    BY Zenon DEF U!Analyze
  <2>2. \A k \in U!Keys : Analyzed(k) => to(k) \in U!Patterns /\ to(k) # "none"
    BY <2>1, Zenon DEF U!Patterns
  <2>3. ASSUME NEW k \in U!Keys
        PROVE  /\ U!UpdateUserWorkloadPattern(uExp, k, to(k)).patterns[k] = (uExp.patterns[k] \ {uExp.prevPatterns[k]}) \cup {to(k)}
               /\ U!UpdateUserWorkloadPattern(uExp, k, to(k)).prevPatterns[k] = to(k)
    <3> HIDE DEF to
    <3>. QED
      BY <1>2, <2>3, Zenon DEF U!UpdateUserWorkloadPattern, Exporters
  <2> DEFINE updated(k) == U!UpdateUserWorkloadPattern(uExp, k, to(k))
  <2>4. uExp' = [uExp EXCEPT !.patterns = [k \in U!Keys |-> IF Analyzed(k) THEN updated(k).patterns[k] ELSE uExp.patterns[k]],
                             !.prevPatterns = [k \in U!Keys |-> IF Analyzed(k) THEN updated(k).prevPatterns[k]
                                                                ELSE uExp.prevPatterns[k]]]
    BY <1>7, Zenon DEF U!Publish
  <2>5. /\ uExp'.tracked = uExp.tracked /\ uExp'.gauges = uExp.gauges /\ uExp'.counters = uExp.counters
        /\ uExp'.io = uExp.io /\ uExp'.prevIO = uExp.prevIO /\ uExp'.labels = uExp.labels
        /\ uExp'.patterns = [k \in U!Keys |-> IF Analyzed(k) THEN updated(k).patterns[k] ELSE uExp.patterns[k]]
        /\ uExp'.prevPatterns = [k \in U!Keys |-> IF Analyzed(k) THEN updated(k).prevPatterns[k] ELSE uExp.prevPatterns[k]]
        /\ uExp' = [tracked |-> uExp'.tracked, gauges |-> uExp'.gauges, io |-> uExp'.io, counters |-> uExp'.counters,
                    prevIO |-> uExp'.prevIO, labels |-> uExp'.labels, patterns |-> uExp'.patterns,
                    prevPatterns |-> uExp'.prevPatterns]
    <3> HIDE DEF Analyzed, updated
    <3>. QED
      BY <1>2, <2>4, Zenon DEF Exporters
  <2>6. ASSUME NEW k \in U!Keys
        PROVE  /\ uExp'.patterns[k] = {uExp'.prevPatterns[k]} \ {"none"}
               /\ uExp'.patterns[k] \in SUBSET U!Patterns /\ uExp'.prevPatterns[k] \in U!Patterns \cup {"none"}
    <3>1. CASE Analyzed(k)
      <4>1. uExp'.patterns[k] = (uExp.patterns[k] \ {uExp.prevPatterns[k]}) \cup {to(k)} /\ uExp'.prevPatterns[k] = to(k)
        BY <2>3, <2>5, <3>1, Zenon
      <4>2. to(k) \in U!Patterns /\ to(k) # "none"
        BY <2>2, <3>1, Zenon
      <4>3. uExp.patterns[k] = {uExp.prevPatterns[k]} \ {"none"}
        BY <2>6, Zenon DEF Labelled
      <4> HIDE DEF to
      <4>4. uExp'.patterns[k] = {to(k)} /\ {to(k)} = {to(k)} \ {"none"}
        BY <4>1, <4>2, <4>3, Zenon
      <4>. QED
        BY <4>1, <4>2, <4>4, Zenon
    <3>2. CASE ~Analyzed(k)
      <4> HIDE DEF Analyzed, updated
      <4>1. uExp'.patterns[k] = uExp.patterns[k] /\ uExp'.prevPatterns[k] = uExp.prevPatterns[k]
        BY <2>5, <3>2, Zenon
      <4>. QED
        BY <1>2, <2>6, <4>1, Zenon DEF Labelled, Exporters
    <3>. QED
      BY <3>1, <3>2, Zenon
  <2>7. uExp' \in Exporters
    <3>1. uExp'.patterns \in [U!Keys -> SUBSET U!Patterns] /\ uExp'.prevPatterns \in [U!Keys -> U!Patterns \cup {"none"}]
      <4> HIDE DEF Analyzed, updated
      <4>. QED
        BY <2>5, <2>6, Zenon
    <3>. QED
      BY <1>2, <2>5, <3>1, Zenon DEF Exporters
  <2>8. Labelled(uExp')
    BY <2>5, <2>6, Zenon DEF Labelled
  <2>. QED
    BY <1>1, <1>5, <2>5, <2>7, <2>8, Zenon DEF UTypes, UTracked, UShown, UHours
<1>. QED
  BY <1>6, <1>7, Zenon DEF U!stageWorkloadPatternDetection

\* metrics/prometheus.go, state/pattern_detector.go: after every publication the
\* series are of users in the sample, a key has one label and the pattern that will be
\* removed, a counter shows no more than was done, and the history is bounded, for
\* any number of users, hours and cycles.
THEOREM UserSeriesAreTrue == U!Spec => []SeriesAreTrue
<1>1. U!Init => UInv
  <2> SUFFICES ASSUME U!Init PROVE UInv
    BY Zenon
  <2>1. /\ uExp = [tracked |-> {}, gauges |-> {}, io |-> [k \in U!Keys |-> 0], counters |-> {},
                   prevIO |-> [k \in U!Keys |-> 0], labels |-> [k \in U!Keys |-> {}],
                   patterns |-> [k \in U!Keys |-> {}], prevPatterns |-> [k \in U!Keys |-> "none"]]
        /\ uUser = [u \in uUids |-> [present |-> FALSE, live |-> 0, done |-> 0]]
        /\ uCycle = [pc |-> "idle", sample |-> {}, todo |-> {}] /\ uNow = 0 /\ uGap = [u \in uUids |-> FALSE]
        /\ uDetector = [hours |-> [u \in uUids |-> {}], last |-> -3]
    BY Zenon DEF U!Init
  <2>2. UTypes
    BY <2>1 DEF UTypes, Exporters
  <2>3. UTracked /\ Labelled(uExp)
    BY <2>1, Zenon DEF UTracked, Labelled, AtMostOne
  <2>4. UShown
    BY <2>1, KeysHaveUids DEF UShown, Shown
  <2>5. UHours
    BY <2>1 DEF UHours
  <2>. QED
    BY <2>2, <2>3, <2>4, <2>5, Zenon DEF UInv
<1>2. UInv /\ [U!Next]_(U!vars) => UInv'
  <2> SUFFICES ASSUME UInv, [U!Next]_(U!vars) PROVE UInv'
    BY Zenon
  <2>1. CASE U!CycleStart
    <3>1. PICK leased \in SUBSET uUids :
            LET sample == {u \in uUids : uUser[u].present} \cup leased
            IN uCycle' = [pc |-> "publish", sample |-> sample, todo |-> sample]
      BY <2>1, Zenon DEF U!CycleStart
    <3>2. UNCHANGED <<uUser, uExp, uDetector, uNow, uGap>>
      BY <2>1, Zenon DEF U!CycleStart
    <3>3. uCycle'.pc = "publish" /\ uCycle' \in [pc : {"idle", "publish", "patterns"}, sample : SUBSET uUids, todo : SUBSET uUids]
      BY <3>1, Zenon
    <3>. QED
      BY <3>2, <3>3, Zenon DEF UInv, UTypes, UTracked, Labelled, UShown, UHours
  <2>. QED
    BY <2>1, UsersMove, SnapshotPublishes, CleanupRemoves, PatternsStage, Zenon DEF U!Next
<1>3. UInv => SeriesAreTrue
  <2> SUFFICES ASSUME UInv PROVE SeriesAreTrue
    BY Zenon
  <2>1. U!SeriesAreSampled
    BY Zenon DEF UInv, UTracked, U!SeriesAreSampled
  <2>2. U!OneLabel
    <3>1. ASSUME NEW set, AtMostOne(set) PROVE U!Cardinality(set) <= 1
      <4>1. U!Cardinality(set) = 0 \/ U!Cardinality(set) = 1
        BY <3>1, SameCardinality, FS_EmptySet, FS_Singleton, Zenon DEF AtMostOne
      <4>. QED
        BY <4>1
    <3>. QED
      BY <3>1, Zenon DEF UInv, Labelled, U!OneLabel
  <2>3. U!IOIsDone
    BY Zenon DEF UInv, UShown, Shown, U!IOIsDone
  <2>4. U!HistoryBounded
    BY WindowSize, SameCardinality, Zenon DEF UInv, UTypes, UHours, U!HistoryBounded
  <2>. QED
    BY <2>1, <2>2, <2>3, <2>4, Zenon DEF SeriesAreTrue
<1>. QED
  BY <1>1, <1>2, <1>3, PTL DEF U!Spec
=============================================================================
