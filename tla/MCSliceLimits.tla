---------------------------- MODULE MCSliceLimits ----------------------------
(***************************************************************************)
(* ResourceLimits and IOWeights for TLC.  The two set different properties *)
(* of the user slices and share no state, so one run explores each of them *)
(* by itself: the focus, chosen at the start, is the component that moves. *)
(***************************************************************************)
EXTENDS Naturals

CONSTANTS
    Users,                \* UIDs
    Policies, Selectors,  \* weight policies, values of IO_WEIGHT_DEVICES
    Hosts,                \* what the configured device may look like
    RInv, RTrouble,       \* bounds of ResourceLimits
    WInv, WMoves, WFaults \* bounds of IOWeights

VARIABLES
    focus,
    rSlice, rBorn, rSplit, rEligible, rLease, rMgr, rOp, rTrouble, rSettled,
    wSlice, wCovered, wDevice, wLease, wCfg, wMgr, wDue, wOp, wMoves, wFaults, wSettled

resources == <<rSlice, rBorn, rSplit, rEligible, rLease, rMgr, rOp, rTrouble, rSettled>>
weights == <<wSlice, wCovered, wDevice, wLease, wCfg, wMgr, wDue, wOp, wMoves, wFaults, wSettled>>
allVars == <<focus, resources, weights>>

R == INSTANCE MCResourceLimits WITH
    MaxInv <- RInv, MaxTrouble <- RTrouble, slice <- rSlice, born <- rBorn, split <- rSplit,
    eligible <- rEligible, lease <- rLease, mgr <- rMgr, op <- rOp, trouble <- rTrouble,
    settled <- rSettled

(* A usable device, one that cannot be read for a moment, one without its
   scheduler, one with both mechanisms, and none. *)
MCHosts ==
    LET good == [found |-> "ok", ctl |-> "yes", sched |-> "selected", cost |-> "off"]
    IN {good, [good EXCEPT !.ctl = "unread"], [good EXCEPT !.sched = "available"],
        [good EXCEPT !.cost = "on"], [good EXCEPT !.found = "missing"]}

W == INSTANCE MCIOWeights WITH
    MaxInv <- WInv, MaxMoves <- WMoves, MaxFaults <- WFaults, slice <- wSlice,
    covered <- wCovered, device <- wDevice, lease <- wLease, cfg <- wCfg, mgr <- wMgr,
    due <- wDue, op <- wOp, moves <- wMoves, faults <- wFaults, settled <- wSettled

LimitsInit ==
    /\ focus \in {"resources", "weights"}
    /\ R!HInit /\ W!HInit
    /\ focus # "weights" => wCfg.selector = ""

Limit(A) == focus = "resources" /\ A /\ UNCHANGED <<focus, weights>>
Weigh(A) == focus = "weights" /\ A /\ UNCHANGED <<focus, resources>>

LimitsNext == Limit(R!HNext) \/ Weigh(W!HNext)

(* The fairness of each component, which asks nothing of one that cannot move. *)
LimitsSpec ==
    /\ LimitsInit
    /\ [][LimitsNext]_allVars
    /\ WF_allVars(Limit(rSettled /\ R!HWork))
    /\ WF_allVars(Weigh(wSettled /\ W!HWork)) /\ SF_allVars(Weigh(wSettled /\ W!HCycle))

-----------------------------------------------------------------------------

(* Whatever was pruned, refused, withdrawn or republished, a limit that counts
   as applied can still be taken back: its user is tracked, and only tracked users
   are restored (restoreAllSystemdResourceProperties). *)
AppliedIsReleasable == R!AppliedIsReleasable

(* A reconciliation, or a cycle of weighted I/O, that reports no error has brought
   about the sample: what it asks for is applied under a lease on the slice it found,
   a weight is of the policy in force, and no tracked user keeps what it does not
   ask for, whatever earlier cycles programmed. *)
SuccessExact == [][R!SuccessExactStep /\ W!WeightsExactStep]_allVars

(* A refusal that needs intervention ends only with a reload or a restart: no
   timer, cycle, blackout or late answer takes it back (interventionStopped).  For
   want of evidence weights survive one attempt that does not accept the device, and
   no second (publishIODeviceWeightCapabilityFailure). *)
RefusalsHold == [][W!InterventionSticksStep /\ W!GraceEndsStep]_allVars

(* Once the host is quiet and calls succeed, cycles and retries come to enforce, for
   good, every eligible limit of a user whose slice covers them, and end in the
   configured weights on every observed slice, in none when no device is configured,
   or in a refusal for an operator, from any state that failures, reloads and
   restarts have left. *)
Settles == R!Enforced /\ W!Settles

=============================================================================
