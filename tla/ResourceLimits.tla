---------------------------- MODULE ResourceLimits ----------------------------
(***************************************************************************)
(* RAM and hard I/O limits: how state/systemd_resources.go brings the      *)
(* properties of the user slices to what the decision sample asks for,     *)
(* refuses users whose processes it cannot account for, and takes limits   *)
(* back, while users come and go, calls fail and the daemon restarts.      *)
(*                                                                         *)
(* One operation at a time holds the operation gate.  Each adapter call is *)
(* a step, and the adapter is taken at the promise PropertyLeases models:  *)
(* leases are durable, a failing apply leaves the old or the new value, a  *)
(* failing restore keeps the lease, and a replaced slice is refused.       *)
(***************************************************************************)
EXTENDS Naturals

CONSTANTS
    Users,      \* UIDs with processes
    MaxInv,     \* bound: invocations of one user's slice
    MaxTrouble  \* bound: logouts, lost authority, new eligibility, failing calls, restarts

Kinds == {"ram", "io"}
Limits == Users \X Kinds

(* The users of a plan in order, RAM before I/O. *)
Before(a, b) == a[1] < b[1] \/ (a[1] = b[1] /\ a[2] = "ram" /\ b[2] = "io")

VARIABLES
    slice,     \* systemd: the invocation of each user's slice, 0 while it is down
    born,      \* systemd: invocations each slice has had
    split,     \* limits whose user has processes outside the slice
    eligible,  \* limits the next decision sample asks for
    lease,     \* the adapter's leases: the invocation each limit is set on, or 0
    mgr,       \* the Manager's fields about RAM and I/O
    op,        \* the operation that holds the operation gate
    trouble    \* how much of it there has been

host == <<slice, born, split, eligible>>
vars == <<slice, born, split, eligible, lease, mgr, op, trouble>>

-----------------------------------------------------------------------------

(* resourceLimits: a limit is listed (state.ram, state.io) and applied;
   systemdResourceUnits: the invocation under which a user is tracked. *)
NewManager ==
    [listed |-> {}, applied |-> {}, tracked |-> [u \in Users |-> 0],
     requested |-> FALSE, active |-> FALSE]

NoOp == [kind |-> "none", at |-> "idle", attempt |-> 0, want |-> {},
         split |-> {}, seen |-> [u \in Users |-> 0], plan |-> {}, todo |-> {}, applied |-> {},
         ok |-> TRUE, first |-> "none"]
Idle == op = NoOp

Owned == {l \in Limits : lease[l] > 0}

Init ==
    /\ slice = [u \in Users |-> 1]
    /\ born = [u \in Users |-> 1]
    /\ split = {}
    /\ eligible = Limits
    /\ lease = [l \in Limits |-> 0]
    /\ mgr = NewManager
    /\ op = NoOp
    /\ trouble = 0

Fault == trouble < MaxTrouble /\ trouble' = trouble + 1
NoFault == UNCHANGED trouble

(* The host. *)

LogOut(u) ==
    /\ Fault /\ slice[u] > 0
    /\ slice' = [slice EXCEPT ![u] = 0]
    /\ UNCHANGED <<born, split, eligible, lease, mgr, op>>

LogIn(u) ==
    /\ slice[u] = 0 /\ born[u] < MaxInv
    /\ born' = [born EXCEPT ![u] = @ + 1]
    /\ slice' = [slice EXCEPT ![u] = born[u] + 1]
    /\ UNCHANGED <<split, eligible, lease, mgr, op, trouble>>

(* A process moves out of the slice, or back. *)
Migrate(l) ==
    /\ Fault
    /\ split' = IF l \in split THEN split \ {l} ELSE split \cup {l}
    /\ UNCHANGED <<slice, born, eligible, lease, mgr, op>>

(* Eligibility follows the configuration and the processes a user runs. *)
Reclassify(l) ==
    /\ Fault
    /\ eligible' = IF l \in eligible THEN eligible \ {l} ELSE eligible \cup {l}
    /\ UNCHANGED <<slice, born, split, lease, mgr, op>>

-----------------------------------------------------------------------------
(* Operations begin and end. *)

(* The sample fixes what is asked for and whom the authority inventory covers. *)
Begin(kind, at) ==
    op' = [NoOp EXCEPT !.kind = kind, !.at = at, !.attempt = 1, !.want = eligible, !.split = split]

(* restoreAllSystemdResourceProperties *)
Withdrawal ==
    [NoOp EXCEPT !.kind = "withdraw", !.at = "restore", !.seen = mgr.tracked,
                 !.todo = {l \in Limits : mgr.tracked[l[1]] > 0}]

(* activateSystemdEnforcement *)
Activate ==
    /\ Idle
    /\ mgr' = [mgr EXCEPT !.requested = eligible # {}]
    /\ IF eligible # {} THEN Begin("reconcile", "owned")
       ELSE op' = Withdrawal
    /\ UNCHANGED <<host, lease, trouble>>

(* executeDecision of MAINTAIN_CURRENT_STATE *)
Maintain ==
    /\ Idle /\ mgr.requested
    /\ Begin("reconcile", "owned")
    /\ UNCHANGED <<host, lease, mgr, trouble>>

(* restoreSystemdCPUPoints releases the resources with the CPU properties. *)
Deactivate ==
    /\ Idle
    /\ Begin("deactivate", "release")
    /\ UNCHANGED <<host, lease, mgr, trouble>>

(* refreshResourceLimitsActiveLocked *)
Refreshed(m, requested) == [m EXCEPT !.requested = requested, !.active = m.applied # {}]

(* The first adapter error of an attempt decides whether it is retried: a
   changed topology is, once, and a failed call waits for the next cycle. *)
Noted(o, cause) == [o EXCEPT !.ok = FALSE, !.first = IF @ = "none" THEN cause ELSE @]

EndAttempt(o) ==
    op' = IF o.kind = "reconcile" /\ o.first = "changed" /\ o.attempt = 1
          THEN [NoOp EXCEPT !.kind = o.kind, !.at = "owned", !.attempt = 2, !.want = o.want, !.split = o.split]
          ELSE NoOp

Fail(cause) == EndAttempt(Noted(op, cause))
Same(u) == slice[u] = op.seen[u]

-----------------------------------------------------------------------------
(* reconcileSystemdResourcesAttempt *)

Reconciled == [l \in Limits |-> IF lease[l] = slice[l[1]] THEN lease[l] ELSE 0]

ReconcileOwned ==
    /\ op.at = "owned"
    /\ \/ NoFault /\ lease' = Reconciled /\ op' = [op EXCEPT !.at = "discover"]
       \/ Fault /\ Fail("failed") /\ UNCHANGED lease
    /\ UNCHANGED <<host, mgr>>

(* pruneReleasedSystemdResourceState: what a tracked user no longer has a lease
   for is not applied, and a user without leases whose slice went is forgotten. *)
Pruned(seen) ==
    LET tracked(u) == mgr.tracked[u] > 0
        held(l) == lease[l] = mgr.tracked[l[1]]
        gone == {u \in Users : tracked(u) /\ mgr.tracked[u] # seen[u] /\ \A k \in Kinds : ~held(<<u, k>>)}
        dead == {l \in Limits : tracked(l[1]) /\ ~held(l)}
    IN [mgr EXCEPT !.listed = @ \ dead, !.applied = @ \ dead,
                   !.tracked = [u \in Users |-> IF u \in gone THEN 0 ELSE @[u]]]

Discover ==
    /\ op.at = "discover"
    /\ \/ NoFault /\ mgr' = Pruned(slice) /\ op' = [op EXCEPT !.at = "authority", !.seen = slice]
       \/ Fault /\ Fail("failed") /\ UNCHANGED mgr
    /\ UNCHANGED <<host, lease>>

(* recordSystemdResourceAuthority *)
Listed(m, S) == [m EXCEPT !.listed = @ \cup S]

Planned == {l \in op.want : op.seen[l[1]] > 0}
Missing == op.want \ Planned

(* The inventory of the sample, the I/O plan and the authorities.  A failed
   discovery or I/O plan ends the attempt, an unusable inventory refuses everything,
   a RAM quota that makes no assignment leaves the RAM limits out; a user without a
   slice is listed and reported. *)
Authorize ==
    /\ op.at = "authority"
    /\ \/ /\ NoFault
          /\ mgr' = Listed(mgr, Missing)
          /\ op' = [op EXCEPT !.at = "confirm", !.plan = Planned, !.ok = Missing = {}]
       \/ /\ Fault
          /\ \/ Fail("failed") /\ UNCHANGED mgr
             \/ /\ mgr' = Listed(mgr, Missing)
                /\ \/ op' = [op EXCEPT !.at = "refuse", !.todo = Planned, !.ok = FALSE]
                   \/ op' = [op EXCEPT !.at = "confirm", !.ok = FALSE,
                                       !.plan = {l \in Planned : l[2] = "io"}]
    /\ UNCHANGED <<host, lease>>

ConfirmTopology ==
    /\ op.at = "confirm"
    /\ IF slice = op.seen
       THEN op' = [op EXCEPT !.at = "mutate", !.todo = op.plan]
       ELSE Fail("changed")
    /\ NoFault
    /\ UNCHANGED <<host, lease, mgr>>

(* Mutant: a release forgets the user whatever else is applied. *)
HastyDropped(m, l) ==
    [m EXCEPT !.listed = @ \ {l}, !.applied = @ \ {l}, !.tracked[l[1]] = 0]

(* restoreSystemdResource: the last limit of a user takes the tracking with it. *)
Dropped(m, l) ==
    LET listed == m.listed \ {l}
        applied == m.applied \ {l}
        last == \A k \in Kinds : <<l[1], k>> \notin listed \cup applied
    IN [m EXCEPT !.listed = listed, !.applied = applied,
                 !.tracked[l[1]] = IF last THEN 0 ELSE @]

Turn(l) == l \in op.todo /\ ~\E e \in op.todo : Before(e, l)
Settle(l) == op' = [op EXCEPT !.todo = @ \ {l}, !.ok = FALSE]
Miss(l, cause) == op' = Noted([op EXCEPT !.todo = @ \ {l}], cause)

(* refuseSystemdResource: an applied limit is released before the refusal is
   recorded. *)
Refuse(l) ==
    /\ op.at \in {"refuse", "mutate"} /\ Turn(l)
    /\ op.at = "mutate" => l \in op.split
    /\ IF l \in mgr.applied /\ mgr.tracked[l[1]] = op.seen[l[1]]
       THEN \/ /\ NoFault /\ Same(l[1])
               /\ lease' = [lease EXCEPT ![l] = 0]
               /\ mgr' = Listed(Dropped(mgr, l), {l})
               /\ Settle(l)
            \/ /\ IF Same(l[1]) THEN Fault /\ Miss(l, "failed") ELSE NoFault /\ Miss(l, "changed")
               /\ mgr' = Listed(mgr, {l})
               /\ UNCHANGED lease
       ELSE /\ NoFault
            /\ mgr' = Listed(mgr, {l})
            /\ Settle(l)
            /\ UNCHANGED lease
    /\ UNCHANGED host

(* Refusing everything ends the attempt; only a complete one refreshes. *)
Refused ==
    /\ op.at = "refuse" /\ op.todo = {}
    /\ EndAttempt(op)
    /\ UNCHANGED <<host, lease, mgr, trouble>>

(* mutateSystemdResource *)
Apply(l) ==
    /\ op.at = "mutate" /\ Turn(l) /\ l \notin op.split
    /\ \/ /\ NoFault /\ Same(l[1])
          /\ lease' = [lease EXCEPT ![l] = op.seen[l[1]]]
          /\ op' = [op EXCEPT !.todo = @ \ {l}, !.applied = @ \cup {l}]
       \/ NoFault /\ ~Same(l[1]) /\ Miss(l, "changed") /\ UNCHANGED lease
       \/ /\ Fault /\ Same(l[1]) /\ Miss(l, "failed")
          /\ lease' \in {lease, [lease EXCEPT ![l] = op.seen[l[1]]]}
    /\ UNCHANGED <<host, mgr>>

Mutated ==
    /\ op.at = "mutate" /\ op.todo = {}
    /\ op' = [op EXCEPT !.at = IF op.applied = {} THEN "stale" ELSE "readback", !.todo = op.applied]
    /\ UNCHANGED <<host, lease, mgr, trouble>>

(* recordSystemdResourceUnapplied *)
Unapplied(m, l) == [Listed(m, {l}) EXCEPT !.applied = @ \ {l}]

(* ConfirmApplied: a changed slice is retried, another failure is recorded. *)
ConfirmApplied(l) ==
    /\ op.at = "readback" /\ Turn(l)
    /\ \/ NoFault /\ Same(l[1]) /\ op' = [op EXCEPT !.todo = @ \ {l}] /\ UNCHANGED mgr
       \/ NoFault /\ ~Same(l[1]) /\ Fail("changed") /\ UNCHANGED mgr
       \/ /\ Fault /\ Same(l[1])
          /\ mgr' = Unapplied(mgr, l)
          /\ op' = Noted([op EXCEPT !.todo = @ \ {l}, !.applied = @ \ {l}], "failed")
    /\ UNCHANGED <<host, lease>>

(* publishSystemdResource for every confirmed limit *)
Published(m) ==
    [Listed(m, op.applied) EXCEPT
        !.applied = @ \cup op.applied,
        !.tracked = [u \in Users |-> IF \E k \in Kinds : <<u, k>> \in op.applied THEN op.seen[u] ELSE @[u]]]

Publish ==
    /\ op.at = "readback" /\ op.todo = {}
    /\ IF slice = op.seen
       THEN /\ mgr' = Published(mgr)
            /\ op' = [op EXCEPT !.at = "stale"]
       ELSE Fail("changed") /\ UNCHANGED mgr
    /\ NoFault
    /\ UNCHANGED <<host, lease>>

(* Mutant: a tracked user loses its limits only when the sample asks for none. *)
StaleUsers ==
    /\ op.at = "stale"
    /\ op' = [op EXCEPT !.at = "restore", !.seen = mgr.tracked,
                        !.todo = {l \in Limits : mgr.tracked[l[1]] > 0
                                                  /\ \A k \in Kinds : <<l[1], k>> \notin op.want}]
    /\ UNCHANGED <<host, lease, mgr, trouble>>

(* The tracked users that the sample does not ask a limit for. *)
CollectStale ==
    /\ op.at = "stale"
    /\ op' = [op EXCEPT !.at = "restore", !.seen = mgr.tracked,
                        !.todo = {l \in Limits \ op.want : mgr.tracked[l[1]] > 0}]
    /\ UNCHANGED <<host, lease, mgr, trouble>>

RestoreStale(l) ==
    /\ op.at = "restore" /\ l \in op.todo
    /\ l[2] = "io" => <<l[1], "ram">> \notin op.todo
    /\ \/ /\ NoFault /\ Same(l[1])
          /\ lease' = [lease EXCEPT ![l] = 0]
          /\ mgr' = Dropped(mgr, l)
          /\ op' = [op EXCEPT !.todo = @ \ {l}]
       \/ /\ IF Same(l[1]) THEN Fault /\ Miss(l, "failed") ELSE NoFault /\ Miss(l, "changed")
          /\ UNCHANGED <<lease, mgr>>
    /\ UNCHANGED host

(* The end of the attempt, or of restoreAllSystemdResourceProperties. *)
Finish ==
    /\ op.at = "restore" /\ op.todo = {}
    /\ mgr' = IF op.kind = "reconcile" THEN Refreshed(mgr, op.want # {})
              ELSE IF op.ok THEN Refreshed(mgr, FALSE) ELSE mgr
    /\ EndAttempt(op)
    /\ UNCHANGED <<host, lease, trouble>>

(* The CPU side of the cycle reconciles the same leases. *)
ReconcileByCPU ==
    /\ Idle
    /\ lease' = Reconciled
    /\ UNCHANGED <<host, mgr, op, trouble>>

(* RestoreUnits of everything that is owned; what fails keeps its lease. *)
Release ==
    /\ op.at = "release"
    /\ \/ NoFault /\ lease' = [l \in Limits |-> 0] /\ mgr' = NewManager
       \/ /\ Fault
          /\ \E kept \in SUBSET Owned : lease' = [l \in Limits |-> IF l \in kept THEN lease[l] ELSE 0]
          /\ UNCHANGED mgr
    /\ op' = NoOp
    /\ UNCHANGED host

(* WithSystemdCPUEnforcement takes up the leases a former daemon left. *)
Restart ==
    /\ Fault
    /\ lease' \in {lease, Reconciled}
    /\ mgr' = [NewManager EXCEPT
                !.requested = \E l \in Limits : lease'[l] > 0,
                !.tracked = [u \in Users |-> IF lease'[<<u, "ram">>] > 0 THEN lease'[<<u, "ram">>]
                                             ELSE lease'[<<u, "io">>]]]
    /\ op' = NoOp
    /\ UNCHANGED host

-----------------------------------------------------------------------------

Environment ==
    \/ \E u \in Users : LogOut(u) \/ LogIn(u)
    \/ \E l \in Limits : Migrate(l) \/ Reclassify(l)

Step ==
    \/ ReconcileOwned \/ Discover \/ Authorize \/ ConfirmTopology \/ Refused \/ Mutated
    \/ Publish \/ CollectStale \/ Finish \/ Release
    \/ \E l \in Limits : Refuse(l) \/ Apply(l) \/ ConfirmApplied(l) \/ RestoreStale(l)

Next == Environment \/ ReconcileByCPU \/ Activate \/ Maintain \/ Deactivate \/ Step \/ Restart

Spec == Init /\ [][Next]_vars

=============================================================================
