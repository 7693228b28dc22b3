----------------------------- MODULE MCCPUPoints -----------------------------
(***************************************************************************)
(* CPUPoints for TLC, and the moment after which the host is quiet.        *)
(***************************************************************************)
EXTENDS CPUPoints

VARIABLE settled  \* nothing changes or fails any more, and only cycles run

hvars == <<vars, settled>>

(* Policies and CPU counts are alike, so any of them may be the first. *)
HInit == Init /\ policy = 1 /\ cpus = 1 /\ settled = FALSE

Work == Step \/ ReconcileCycle \/ PublishPolicy \/ RollBack

HWork == Work /\ (settled => NoFault) /\ UNCHANGED settled

HElapse == Elapse /\ UNCHANGED settled

Disturb ==
    /\ ~settled
    /\ \/ Environment \/ Deactivate \/ Cleanup \/ Restart
       \/ \E eligible \in BOOLEAN : Activate(eligible)
       \/ \E c \in Policies : BeginConfigUpdate(c)
    /\ UNCHANGED settled

Settle == ~settled /\ settled' = TRUE /\ UNCHANGED vars

HNext == HWork \/ HElapse \/ Disturb \/ Settle

HSpec ==
    /\ HInit
    /\ [][HNext]_hvars
    /\ WF_hvars(settled /\ HWork)
    /\ WF_hvars(HElapse)

-----------------------------------------------------------------------------

(* The units that are still there carry what the plan gives them. *)
Holds(plan) ==
    /\ lease[Parent].share = Share(plan, Parent)
    /\ \A s \in Members(plan.topo) :
         Topology[s] = plan.topo[s] => lease[s] = [inv |-> plan.topo[s], share |-> Share(plan, s)]

(* A cycle that skips the reconciliation because the last plan is reusable
   (stageReconcileCPUPoints) can rely on it: the plan is one of the policy in
   force, whatever was reloaded and rolled back meanwhile, and every unit it
   names that is still there has the value the plan gives it. *)
ReusedPlanHolds ==
    Idle /\ Epoch /\ mgr.requested /\ Reusable =>
        mgr.plan.policy = policy /\ Holds(mgr.plan)

(* A release of everything that ends without an error (restoreSystemdCPUPoints)
   leaves no lease behind, although its units were released one by one while
   slices came and went. *)
DeactivationComplete ==
    [][op.kind = "deactivate" /\ op' = NoOp /\ mgr' = Released /\ trouble' = trouble
        => Leased' = {}]_vars

Converged ==
    \/ ~mgr.requested
    \/ Members(Topology) \cap Eligible = {}
    \/ Reusable /\ mgr.plan.topo = Topology /\ mgr.plan.cpus = cpus

(* Once the host is quiet and calls succeed, repeated cycles bring the plan up
   to the slices and CPUs that are there, from any state that failures, reloads
   and restarts have left, as long as an eligible user is logged in. *)
Converges == settled ~> Converged

(* The comment in restoreSystemdCPUPoints: "an incomplete release retains the
   conservative host reserve until all individual weights are safe". *)
ReserveRetained == Leased \cap Slices # {} => Parent \in Leased

(* The comment in reconcileSystemdCPUPointsAttempt: root "cannot keep the finite
   parent quota alive by itself": once the last eligible user has left and CPU
   Points count as released, user.slice has no quota of ours. *)
ReleaseComplete ==
    [][op.at = "release" /\ op' = NoOp /\ mgr' = Released /\ trouble' = trouble
        => Parent \notin Leased']_vars

=============================================================================
