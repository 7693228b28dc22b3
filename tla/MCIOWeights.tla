------------------------------ MODULE MCIOWeights ------------------------------
(***************************************************************************)
(* IOWeights for TLC, and the moment after which the host is quiet.        *)
(***************************************************************************)
EXTENDS IOWeights

VARIABLE settled  \* nothing changes or fails any more; timers and cycles run

hvars == <<vars, settled>>

Good == [found |-> "ok", ctl |-> "yes", sched |-> "selected", cost |-> "off"]

HInit == Init /\ device = Good /\ cfg.policy = 1 /\ settled = FALSE

HWork == (Step \/ Attempt) /\ (settled => NoFault) /\ UNCHANGED settled
HCycle == Cycle /\ UNCHANGED settled

Disturb ==
    /\ ~settled
    /\ Environment \/ Cancel \/ ReconcileByCPU \/ Deactivate \/ Reload \/ Restart
    /\ UNCHANGED settled

Settle == ~settled /\ device = Good /\ settled' = TRUE /\ UNCHANGED vars

HNext == HWork \/ HCycle \/ Disturb \/ Settle

HSpec ==
    HInit /\ [][HNext]_hvars /\ WF_hvars(settled /\ HWork) /\ SF_hvars(settled /\ HCycle)

-----------------------------------------------------------------------------

(* A control cycle that ends without an error has left one weight, of the policy
   in force, on every observed slice it found, and none on any other slice that was tracked,
   whatever earlier cycles programmed. *)
WeightsExactStep ==
    op.at = "stale" /\ op' = NoOp /\ mgr'.state = "accepted" =>
    /\ \A u \in op.plan : lease'[u] = [inv |-> op.seen[u], policy |-> mgr.policy]
    /\ \A u \in Users \ op.plan : mgr.units[u] > 0 => lease'[u] = NoLease

(* A refusal that needs intervention ends only with a reload or a restart: no
   timer, cycle, blackout or late answer takes it back (interventionStopped). *)
InterventionSticksStep ==
    mgr.state = "intervention" /\ mgr'.state # "intervention" =>
    moves' > moves /\ due'.reload

(* Weights survive an attempt that does not accept the device only once, for
   missing evidence; the next such attempt releases them
   (publishIODeviceWeightCapabilityFailure). *)
GraceEndsStep ==
    op.kind = "attempt" /\ op' = NoOp /\ moves' = moves /\ mgr'.programmed
        /\ mgr'.state \notin {"intervention", "accepted"} =>
    mgr.attempts = 0 /\ mgr'.attempts = 1

Settled ==
    \/ mgr.state = "intervention"
    \/ cfg.selector = "" /\ \A u \in Users : Current[u] = NoLease
    \/ /\ mgr.state = "accepted"
       /\ \A u \in covered : slice[u] > 0 => lease[u] = [inv |-> slice[u], policy |-> mgr.policy]

(* Once the host is quiet with a usable device and calls succeed, retries and
   cycles end, for good, in the configured weights on every observed slice, in no
   weight at all when no device is configured, or in a refusal for an operator. *)
Settles == settled ~> []Settled

(* docs/IO-WEIGHTS.md: "A deterministic mismatch after materialization, unsafe
   cleanup, or property conflict becomes `refused_intervention`", and "Only the
   latter class requires operator action".  While no call fails, users that come
   and go, devices and reloads never stop weighted I/O. *)
LogoutIsNotIntervention == faults = 0 => mgr.state # "intervention"

(* docs/IO-WEIGHTS.md: "Only an `evidence_unavailable` reconciliation receives one
   successful-control-cadence grace".  A cycle that cannot read the evidence keeps
   the weights the first time. *)
CadenceGrace ==
    [][op.at = "confirm" /\ Classify(<<device>>).reason = "evidence_unavailable" /\ mgr.cycles = 0
        => op'.at # "owned"]_vars

=============================================================================
