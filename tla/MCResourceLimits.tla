--------------------------- MODULE MCResourceLimits ---------------------------
(***************************************************************************)
(* ResourceLimits for TLC, and the moment after which the host is quiet.   *)
(***************************************************************************)
EXTENDS ResourceLimits

VARIABLE settled  \* nothing changes or fails any more, and only cycles run

hvars == <<vars, settled>>

HInit == Init /\ settled = FALSE

HWork == (Step \/ Maintain) /\ (settled => NoFault) /\ UNCHANGED settled

Disturb ==
    /\ ~settled
    /\ Environment \/ ReconcileByCPU \/ Activate \/ Deactivate \/ Restart
    /\ UNCHANGED settled

Settled == ~settled /\ settled' = TRUE /\ UNCHANGED vars

HNext == HWork \/ Disturb \/ Settled

HSpec == HInit /\ [][HNext]_hvars /\ WF_hvars(settled /\ HWork)

-----------------------------------------------------------------------------

(* Whatever was pruned, refused, withdrawn or republished, a limit that counts
   as applied can still be taken back: its user is tracked, and only tracked users
   are restored (restoreAllSystemdResourceProperties). *)
AppliedIsReleasable == \A l \in mgr.applied : mgr.tracked[l[1]] > 0

(* A reconciliation that reports no error has brought about the sample: what it
   asks for is applied under a lease on the tracked slice, and no tracked user
   keeps a limit that it does not ask for. *)
SuccessExactStep ==
    op.kind = "reconcile" /\ op.at = "restore" /\ op.todo = {} /\ op.ok /\ op' = NoOp
        /\ trouble' = trouble =>
    /\ mgr'.applied = op.want
    /\ \A l \in op.want : lease[l] = mgr'.tracked[l[1]]
    /\ \A l \in Limits \ op.want : mgr'.tracked[l[1]] > 0 => lease[l] = 0

Enforceable == {l \in eligible \ split : slice[l[1]] > 0}

(* Once the host is quiet and calls succeed, repeated cycles come to enforce
   every eligible limit of a user whose slice covers them and keep enforcing it,
   from any state that failures and restarts have left, while limits are asked for. *)
Enforced ==
    settled ~> [](~mgr.requested
                  \/ \A l \in Enforceable : l \in mgr.applied /\ lease[l] = slice[l[1]])

(* docs/SYSTEMD-PROPERTY-LEASES.md: "If a later decision sample observes that
   authority was lost, ResMan restores only that resource's owned properties before
   publishing the refusal".  Refusing a limit leaves no lease of ours on the slice. *)
RefusalReleases ==
    [][\A l \in Limits :
         Refuse(l) /\ op' # op /\ trouble' = trouble /\ slice[l[1]] = op.seen[l[1]]
            => lease'[l] = 0]_vars

=============================================================================
