------------------------------ MODULE CPUPoints ------------------------------
(***************************************************************************)
(* CPU Points enforcement: how state/systemd_cpu_points.go turns a policy  *)
(* into a finite quota on user.slice and a weight on every user slice, and *)
(* takes them back, while slices come and go, CPUs go on- and offline,     *)
(* calls fail, policies are reloaded and the daemon dies.                  *)
(*                                                                         *)
(* One operation at a time holds the operation gate.  Each of its adapter  *)
(* calls is a step of its own.  The adapter is taken at its promise, which *)
(* PropertyLeases models in detail: a lease outlives the daemon, a failed  *)
(* apply leaves the old or the new value, a failed release keeps the       *)
(* lease, and a call for a slice that was replaced is refused.             *)
(***************************************************************************)
EXTENDS Naturals

CONSTANTS
    Slices,      \* the user slices, user-UID.slice
    Parent,      \* user.slice
    Eligible,    \* slices whose users CPU enforcement may limit
    Policies,    \* CPU Points policy epochs
    CPUs,        \* possible numbers of online CPUs
    MaxInv,      \* bound: invocations of one slice
    MaxTrouble   \* bound: departures, hotplugs, failing calls, daemon deaths, reloads

VARIABLES
    life,     \* systemd: the invocation of each slice and whether it is up
    cpus,     \* sysfs: online CPUs
    lease,    \* the adapter's CPU leases, durable in its journal
    policy,   \* Manager.cpuPointsPolicy
    mgr,      \* the other Manager fields about CPU Points
    op,       \* the operation that holds the operation gate
    reload,   \* the composite reload that holds the configuration epoch
    trouble   \* how many of those there have been

host == <<life, cpus>>
vars == <<life, cpus, lease, policy, mgr, op, reload, trouble>>

Units == Slices \cup {Parent}

-----------------------------------------------------------------------------
(* Plans.  What a unit is given follows from the plan: the parent's quota from
   the policy and the online CPUs, a weight from the policy and the slices that
   share it (PlanFlatTopology). *)

Topology == [s \in Slices |-> IF life[s].up THEN life[s].inv ELSE 0]
Members(topo) == {s \in Slices : topo[s] > 0}
Share(plan, u) ==
    IF u = Parent THEN <<plan.policy, plan.cpus>> ELSE <<plan.policy, Members(plan.topo)>>

NoPlan == [policy |-> 0, cpus |-> 0, topo |-> [s \in Slices |-> 0]]
NoLease == [inv |-> 0, share |-> <<>>]

Held(leases) == {u \in Units : leases[u] # NoLease}
Leased == Held(lease)
Invocation(u) == IF u = Parent THEN 1 ELSE Topology[u]

(* The fields of the Manager.  plan is systemdCPUPlan with the topology it was
   made for; tracked holds systemdCPUParent and systemdCPUSlices,
   the invocations a restore looks for. *)
NewManager ==
    [requested |-> FALSE, complete |-> FALSE, degraded |-> FALSE, pending |-> FALSE,
     fresh |-> FALSE, plan |-> NoPlan, tracked |-> [u \in Units |-> 0], active |-> {}]

(* What a complete release leaves: the old plan and its age are not cleared. *)
Released ==
    [mgr EXCEPT !.requested = FALSE, !.complete = FALSE, !.degraded = FALSE,
                !.tracked = [u \in Units |-> 0], !.active = {}]

(* systemdCPUPlanReusableLocked *)
Reusable == mgr.complete /\ ~mgr.degraded /\ ~mgr.pending /\ mgr.fresh

NoOp == [kind |-> "none", at |-> "idle", attempt |-> 0, plan |-> NoPlan,
         todo |-> {}, failed |-> "no"]
NoReload == [at |-> "none", candidate |-> 0]

Idle == op = NoOp
Epoch == reload = NoReload

-----------------------------------------------------------------------------

Init ==
    /\ life = [s \in Slices |-> [inv |-> 1, up |-> TRUE]]
    /\ cpus \in CPUs
    /\ lease = [u \in Units |-> NoLease]
    /\ policy \in Policies
    /\ mgr = NewManager
    /\ op = NoOp
    /\ reload = NoReload
    /\ trouble = 0

(* Something goes wrong or changes, as often as the bound allows. *)
Fault == trouble < MaxTrouble /\ trouble' = trouble + 1
NoFault == UNCHANGED trouble

(* The host. *)

Depart(s) ==
    /\ Fault /\ life[s].up
    /\ life' = [life EXCEPT ![s].up = FALSE]
    /\ UNCHANGED <<cpus, lease, policy, mgr, op, reload>>

Return(s) ==
    /\ ~life[s].up /\ life[s].inv < MaxInv
    /\ life' = [life EXCEPT ![s] = [inv |-> @.inv + 1, up |-> TRUE]]
    /\ UNCHANGED <<cpus, lease, policy, mgr, op, reload, trouble>>

Hotplug ==
    /\ Fault
    /\ cpus' \in CPUs \ {cpus}
    /\ UNCHANGED <<life, lease, policy, mgr, op, reload>>

(* One polling interval has passed since the last complete verification. *)
Elapse ==
    /\ mgr.fresh
    /\ mgr' = [mgr EXCEPT !.fresh = FALSE]
    /\ UNCHANGED <<host, lease, policy, op, reload, trouble>>

-----------------------------------------------------------------------------
(* Operations begin. *)

Reconcile(kind, p) ==
    op' = [NoOp EXCEPT !.kind = kind, !.at = "owned", !.attempt = 1, !.plan.policy = p]
Restore(kind) == op' = [NoOp EXCEPT !.kind = kind, !.at = "restore"]

(* stageReconcileCPUPoints of a cycle whose plan is not reusable. *)
ReconcileCycle ==
    /\ Idle /\ Epoch
    /\ mgr.requested /\ ~Reusable
    /\ Reconcile("cycle", policy)
    /\ UNCHANGED <<host, lease, policy, mgr, reload, trouble>>

(* activateSystemdEnforcement; the sample says whether any user is eligible. *)
Activate(eligible) ==
    /\ Idle /\ Epoch
    /\ mgr' = [mgr EXCEPT !.requested = eligible]
    /\ IF eligible THEN Reconcile("cycle", policy) ELSE Restore("withdraw")
    /\ UNCHANGED <<host, lease, policy, reload, trouble>>

(* restoreSystemdCPUPoints: a decision, a blackout or an operator's command. *)
Deactivate ==
    /\ Idle /\ Epoch
    /\ Restore("deactivate")
    /\ UNCHANGED <<host, lease, policy, mgr, reload, trouble>>

(* Cleanup takes the operation gate but not the configuration epoch. *)
Cleanup ==
    /\ Idle
    /\ mgr.requested \/ mgr.active # {} \/ Leased # {}
    /\ Restore("deactivate")
    /\ UNCHANGED <<host, lease, policy, mgr, reload, trouble>>

-----------------------------------------------------------------------------
(* Operations end. *)

(* reconcileCPUPointsPolicyLocked clears the retry state after a success and
   keeps the fallback pending after an error; a rollback ends the reload either
   way. *)
Ended(next, ok) ==
    /\ op' = NoOp
    /\ IF op.kind # "reload" THEN mgr' = next /\ UNCHANGED reload
       ELSE /\ mgr' = [next EXCEPT !.degraded = ~ok, !.pending = ~ok]
            /\ reload' = IF ok /\ reload.at = "reconciling"
                         THEN [reload EXCEPT !.at = "reconciled"] ELSE NoReload

Incomplete == [mgr EXCEPT !.complete = FALSE]

(* deferSystemdCPUPointsError *)
Defer == Ended([Incomplete EXCEPT !.degraded = TRUE], FALSE)

(* Mutant: the second attempt starts from the topology of the first. *)
BlindRetry ==
    /\ mgr' = Incomplete
    /\ op' = [op EXCEPT !.at = "apply", !.attempt = 2, !.failed = "no",
                        !.todo = {Parent} \cup Members(op.plan.topo)]
    /\ UNCHANGED reload

(* A topology or capacity that changed underneath: one more attempt. *)
Retry ==
    IF op.attempt = 1
    THEN /\ mgr' = Incomplete
         /\ op' = [op EXCEPT !.at = "owned", !.attempt = 2, !.todo = {}, !.failed = "no"]
         /\ UNCHANGED reload
    ELSE Defer

-----------------------------------------------------------------------------
(* reconcileSystemdCPUPointsAttempt *)

(* ReconcileOwned removes the leases of slices that left or were replaced. *)
Reconciled == [u \in Units |-> IF lease[u].inv = Invocation(u) THEN lease[u] ELSE NoLease]

ReconcileOwned ==
    /\ op.at = "owned"
    /\ \/ NoFault /\ lease' = Reconciled /\ op' = [op EXCEPT !.at = "discover"]
          /\ UNCHANGED <<mgr, reload>>
       \/ Fault /\ Defer /\ UNCHANGED lease
    /\ UNCHANGED <<host, policy>>

Discover ==
    /\ op.at = "discover"
    /\ \/ /\ NoFault
          /\ op' = IF Members(Topology) \cap Eligible = {}
                   THEN [op EXCEPT !.at = "restore"]
                   ELSE [op EXCEPT !.at = "confirm", !.plan.cpus = cpus, !.plan.topo = Topology]
          /\ UNCHANGED <<mgr, reload>>
       \/ Fault /\ Defer
    /\ UNCHANGED <<host, lease, policy>>

(* The acknowledgement is withdrawn before the first mutation. *)
ConfirmTopology ==
    /\ op.at = "confirm"
    /\ IF Topology = op.plan.topo
       THEN /\ mgr' = Incomplete
            /\ op' = [op EXCEPT !.at = "apply", !.todo = {Parent} \cup Members(op.plan.topo)]
            /\ UNCHANGED reload
       ELSE Retry
    /\ NoFault
    /\ UNCHANGED <<host, lease, policy>>

Given(u) == [inv |-> Invocation(u), share |-> Share(op.plan, u)]
Same(u) == Invocation(u) = IF u = Parent THEN 1 ELSE op.plan.topo[u]

(* The parent first, then the weights. *)
Apply(u) ==
    /\ op.at = "apply" /\ u \in op.todo
    /\ Parent \in op.todo => u = Parent
    /\ \/ /\ NoFault /\ Same(u)
          /\ lease' = [lease EXCEPT ![u] = Given(u)]
          /\ op' = [op EXCEPT !.todo = @ \ {u}]
          /\ UNCHANGED <<mgr, reload>>
       \/ NoFault /\ ~Same(u) /\ Retry /\ UNCHANGED lease
       \/ Fault /\ Same(u) /\ Defer /\ lease' \in {lease, [lease EXCEPT ![u] = Given(u)]}
    /\ UNCHANGED <<host, policy>>

(* Every value and the capacity are read again. *)
ConfirmApplied ==
    /\ op.at = "apply" /\ op.todo = {}
    /\ \/ /\ NoFault
          /\ IF (\A s \in Members(op.plan.topo) : Same(s)) /\ cpus = op.plan.cpus
             THEN op' = [op EXCEPT !.at = "publish"] /\ UNCHANGED <<mgr, reload>>
             ELSE Retry
       \/ Fault /\ Defer
    /\ UNCHANGED <<host, lease, policy>>

(* publishSystemdCPUPointsPlan *)
Published ==
    [mgr EXCEPT !.complete = TRUE, !.fresh = TRUE, !.degraded = FALSE, !.pending = FALSE,
                !.plan = op.plan,
                !.tracked = [u \in Units |-> IF u = Parent THEN 1 ELSE op.plan.topo[u]],
                !.active = Members(op.plan.topo) \cap Eligible]

Publish ==
    /\ op.at = "publish"
    /\ IF Topology = op.plan.topo THEN Ended(Published, TRUE) ELSE Retry
    /\ NoFault
    /\ UNCHANGED <<host, lease, policy>>

-----------------------------------------------------------------------------
(* restoreSystemdCPUProperties releases what the manager tracks;
   restoreSystemdCPUPoints everything that is owned. *)

All == op.kind = "deactivate"
Wanted(leases) ==
    IF All THEN Held(leases) ELSE {u \in Held(leases) : mgr.tracked[u] > 0}
Known(u) == (IF All THEN lease[u].inv ELSE mgr.tracked[u]) = Invocation(u)
Failed(why) == IF op.failed = "no" THEN why ELSE op.failed

RestoreOwned ==
    /\ op.at = "restore"
    /\ \/ /\ NoFault
          /\ lease' = Reconciled
          /\ op' = [op EXCEPT !.at = "release", !.todo = Wanted(Reconciled)]
          /\ UNCHANGED <<mgr, reload>>
       \/ /\ Fault
          /\ IF All THEN op' = [op EXCEPT !.at = "release", !.todo = Wanted(lease), !.failed = "fault"]
                         /\ UNCHANGED <<mgr, reload>>
             ELSE IF op.kind = "withdraw" THEN Ended(mgr, FALSE) ELSE Defer
          /\ UNCHANGED lease
    /\ UNCHANGED <<host, policy>>

(* One unit of the batch: the weights in order, then the parent, and a unit that
   fails does not stop the others. *)
Release(u) ==
    /\ op.at = "release" /\ u \in op.todo
    /\ u = Parent => op.todo = {Parent}
    /\ \/ NoFault /\ Known(u) /\ lease' = [lease EXCEPT ![u] = NoLease]
          /\ op' = [op EXCEPT !.todo = @ \ {u}]
       \/ NoFault /\ ~Known(u) /\ UNCHANGED lease
          /\ op' = [op EXCEPT !.todo = @ \ {u}, !.failed = Failed("stale")]
       \/ Fault /\ UNCHANGED lease
          /\ op' = [op EXCEPT !.todo = @ \ {u}, !.failed = Failed("fault")]
    /\ UNCHANGED <<host, policy, mgr, reload>>

(* Mutant: a partly failed deactivation is published as a complete one. *)
HopefulReleaseDone ==
    /\ op.at = "release" /\ op.todo = {}
    /\ Ended(Released, TRUE)
    /\ NoFault
    /\ UNCHANGED <<host, lease, policy>>

ReleaseDone ==
    /\ op.at = "release" /\ op.todo = {}
    /\ CASE op.failed = "no"                        -> Ended(Released, TRUE)
         [] op.failed # "no" /\ op.kind = "withdraw" -> Ended(mgr, FALSE)
         [] op.failed = "stale" /\ op.kind # "withdraw" /\ ~All -> Retry
         [] OTHER                                    -> Defer
    /\ NoFault
    /\ UNCHANGED <<host, lease, policy>>

-----------------------------------------------------------------------------
(* OnConfigCandidate: reconcile the candidate, confirm the sources, publish; or
   go back to the policy in force. *)

BeginConfigUpdate(c) ==
    /\ Fault /\ Idle /\ Epoch /\ c # policy
    /\ reload' = [at |-> IF mgr.requested THEN "reconciling" ELSE "reconciled", candidate |-> c]
    /\ IF mgr.requested THEN Reconcile("reload", c) /\ UNCHANGED mgr
       ELSE mgr' = [mgr EXCEPT !.degraded = FALSE, !.pending = FALSE] /\ UNCHANGED op
    /\ UNCHANGED <<host, lease, policy>>

(* UpdateConfig forces the next cycle to verify; PublishCPUPointsPolicy. *)
PublishPolicy ==
    /\ Idle /\ reload.at = "reconciled"
    /\ policy' = reload.candidate
    /\ mgr' = [mgr EXCEPT !.fresh = FALSE, !.degraded = FALSE, !.pending = FALSE]
    /\ reload' = NoReload
    /\ UNCHANGED <<host, lease, op, trouble>>

(* Mutant: the sources changed and the candidate's plan stays. *)
ForgetfulRollBack ==
    /\ Idle /\ reload.at = "reconciled"
    /\ reload' = NoReload
    /\ UNCHANGED <<host, lease, policy, mgr, op, trouble>>

(* A source changed, before or after UpdateConfig. *)
RollBack ==
    /\ Idle /\ reload.at = "reconciled"
    /\ \E updated \in BOOLEAN :
         LET next == [mgr EXCEPT !.fresh = @ /\ ~updated] IN
         IF mgr.requested
         THEN /\ mgr' = next
              /\ Reconcile("reload", policy)
              /\ reload' = [reload EXCEPT !.at = "rollback"]
         ELSE /\ mgr' = [next EXCEPT !.degraded = FALSE, !.pending = FALSE]
              /\ reload' = NoReload
              /\ UNCHANGED op
    /\ UNCHANGED <<host, lease, policy, trouble>>

(* The daemon dies and starts again: leases survive, and the manager takes up
   what they name. *)
Restart ==
    /\ Fault
    /\ policy' \in Policies
    /\ lease' \in {lease, Reconciled}
    /\ mgr' = [NewManager EXCEPT !.requested = Leased' # {},
                               !.tracked = [u \in Units |-> lease'[u].inv]]
    /\ op' = NoOp
    /\ reload' = NoReload
    /\ UNCHANGED host

-----------------------------------------------------------------------------

Environment == Hotplug \/ \E s \in Slices : Depart(s) \/ Return(s)

Step ==
    \/ ReconcileOwned \/ Discover \/ ConfirmTopology \/ ConfirmApplied \/ Publish
    \/ RestoreOwned \/ ReleaseDone
    \/ \E u \in Units : Apply(u) \/ Release(u)

Next ==
    \/ Environment
    \/ Elapse
    \/ ReconcileCycle
    \/ \E eligible \in BOOLEAN : Activate(eligible)
    \/ Deactivate
    \/ Cleanup
    \/ Step
    \/ \E c \in Policies : BeginConfigUpdate(c)
    \/ PublishPolicy
    \/ RollBack
    \/ Restart

Spec == Init /\ [][Next]_vars

=============================================================================
