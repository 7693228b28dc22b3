-------------------------- MODULE SliceLimitsProofs --------------------------
(***************************************************************************)
(* RAM, I/O and weight limits of the user slices, for any users, policies, *)
(* selectors and devices, and any number of failures, logouts, reloads and *)
(* restarts: a limit that counts as applied can be taken back, a cycle     *)
(* that reports no error has brought about its sample, and a refusal that  *)
(* needs intervention is taken back by a reload or a restart only.         *)
(***************************************************************************)
EXTENDS MCSliceLimits, TLAPS

-----------------------------------------------------------------------------
(* RAM and I/O limits.                                                     *)

\* What the variables of ResourceLimits hold.
RKinds == {"none", "reconcile", "withdraw", "deactivate"}
RSteps == {"idle", "owned", "discover", "authority", "confirm", "refuse", "mutate", "readback",
           "stale", "restore", "release"}
ROps == [kind : RKinds, at : RSteps, attempt : Nat, want : SUBSET R!Limits, split : SUBSET R!Limits,
         seen : [Users -> Nat], plan : SUBSET R!Limits, todo : SUBSET R!Limits,
         applied : SUBSET R!Limits, ok : BOOLEAN, first : {"none", "changed", "failed"}]
RManagers == [listed : SUBSET R!Limits, applied : SUBSET R!Limits, tracked : [Users -> Nat],
              requested : BOOLEAN, active : BOOLEAN]

\* Every variable has its type.
RTypes ==
    /\ rSlice \in [Users -> Nat] /\ rBorn \in [Users -> Nat]
    /\ rSplit \in SUBSET R!Limits /\ rEligible \in SUBSET R!Limits
    /\ rLease \in [R!Limits -> Nat]
    /\ rMgr \in RManagers /\ rOp \in ROps
    /\ rTrouble \in Nat

\* What an attempt plans and applies is on slices it has seen.
Seen(o, S) == \A l \in S : o.seen[l[1]] > 0
RSeen ==
    /\ rOp.at \in {"confirm", "mutate", "readback"} => Seen(rOp, rOp.plan \cup rOp.applied)
    /\ rOp.at = "mutate" => rOp.todo \subseteq rOp.plan

\* An attempt that has met no error: what it planned is the sample, what it has
\* dealt with is under a lease of the slice it saw, and what it published or has
\* released agrees with the leases.
OnSeen(o, leases) == \A l \in o.applied : leases[l] = o.seen[l[1]]
Taken(o, m, leases) == o.want \subseteq m.applied /\ \A l \in o.want : leases[l] = m.tracked[l[1]]
Left(o, m, leases) ==
    /\ o.todo \cap o.want = {}
    /\ m.applied \subseteq o.want \cup o.todo
    /\ \A l \in R!Limits \ (o.want \cup o.todo) : m.tracked[l[1]] > 0 => leases[l] = 0
Progressed(o, m, leases) ==
    /\ o.at \in {"owned", "discover", "authority", "confirm", "refuse"} => o.applied = {}
    /\ o.kind = "reconcile" /\ o.ok =>
        /\ o.at # "refuse"
        /\ o.at = "confirm" => o.plan = o.want
        /\ o.at = "mutate" => o.applied \cup o.todo = o.want /\ OnSeen(o, leases)
        /\ o.at = "readback" => o.applied = o.want /\ OnSeen(o, leases)
        /\ o.at \in {"stale", "restore"} => Taken(o, m, leases)
        /\ o.at = "restore" => Left(o, m, leases)
RExact == Progressed(rOp, rMgr, rLease)

\* The inductive invariant of the limits.
RIInv == RTypes /\ RSeen /\ RExact /\ AppliedIsReleasable

\* The fields of a limit.
LEMMA LimitParts ==
    \A l \in R!Limits : /\ l[1] \in Users /\ l[2] \in R!Kinds /\ l = <<l[1], l[2]>>
                        /\ \A k \in R!Kinds : <<l[1], k>> \in R!Limits
  BY DEF R!Limits, R!Kinds

\* Operations and the manager at their start.
LEMMA RStart ==
    /\ R!NoOp \in ROps /\ R!NoOp.at = "idle" /\ R!NoOp.kind = "none" /\ R!NoOp.applied = {}
    /\ R!NewManager \in RManagers /\ R!NewManager.applied = {}
<1>1. [u \in Users |-> 0] \in [Users -> Nat] /\ {} \in SUBSET R!Limits
  BY Zenon
<1>. QED
  BY <1>1, Zenon DEF R!NoOp, ROps, RKinds, RSteps, R!NewManager, RManagers

\* refreshResourceLimitsActiveLocked, recordSystemdResourceAuthority and
\* recordSystemdResourceUnapplied change what the manager lists.
LEMMA RListed ==
    ASSUME NEW m \in RManagers, NEW S \in SUBSET R!Limits
    PROVE  /\ R!Listed(m, S) \in RManagers
           /\ R!Listed(m, S).applied = m.applied /\ R!Listed(m, S).tracked = m.tracked
           /\ \A requested \in BOOLEAN :
                /\ R!Refreshed(m, requested) \in RManagers
                /\ R!Refreshed(m, requested).applied = m.applied
                /\ R!Refreshed(m, requested).tracked = m.tracked
<1>1. m.listed \cup S \in SUBSET R!Limits /\ (m.applied # {}) \in BOOLEAN
  BY Zenon DEF RManagers
<1>. QED
  BY <1>1, Zenon DEF R!Listed, R!Refreshed, RManagers

\* A limit that is no longer applied stays listed.
LEMMA RUnapplied ==
    ASSUME NEW m \in RManagers, NEW l \in R!Limits
    PROVE  /\ R!Unapplied(m, l) \in RManagers
           /\ R!Unapplied(m, l).applied = m.applied \ {l} /\ R!Unapplied(m, l).tracked = m.tracked
<1> DEFINE k == R!Listed(m, {l})
<1>1. k \in RManagers /\ k.applied = m.applied /\ k.tracked = m.tracked
  BY RListed, Zenon
<1>2. R!Unapplied(m, l) = [k EXCEPT !.applied = k.applied \ {l}]
  BY Zenon DEF R!Unapplied
<1>3. k.applied \ {l} \in SUBSET R!Limits
  BY <1>1, Zenon DEF RManagers
<1> HIDE DEF k
<1>. QED
  BY <1>1, <1>2, <1>3, Zenon DEF RManagers

\* A manager can release everything it applied.
Releasable(m) == \A l \in m.applied : m.tracked[l[1]] > 0

\* restoreSystemdResource forgets a user only with its last limit.
LEMMA RDropped ==
    ASSUME NEW m \in RManagers, NEW l \in R!Limits
    PROVE  /\ R!Dropped(m, l) \in RManagers
           /\ R!Dropped(m, l).applied = m.applied \ {l}
           /\ \A u \in Users : R!Dropped(m, l).tracked[u] = m.tracked[u] \/ R!Dropped(m, l).tracked[u] = 0
           /\ \A a \in m.applied \ {l} : R!Dropped(m, l).tracked[a[1]] = m.tracked[a[1]]
<1> DEFINE listed == m.listed \ {l}
           applied == m.applied \ {l}
           last == \A k \in R!Kinds : <<l[1], k>> \notin listed \cup applied
           tracked == [m.tracked EXCEPT ![l[1]] = IF last THEN 0 ELSE m.tracked[l[1]]]
<1>1. l[1] \in Users /\ m.tracked \in [Users -> Nat]
  BY LimitParts, Zenon DEF RManagers
<1>2. listed \in SUBSET R!Limits /\ applied \in SUBSET R!Limits
  BY Zenon DEF RManagers
<1>3. /\ tracked \in [Users -> Nat]
      /\ \A u \in Users : tracked[u] = m.tracked[u] \/ tracked[u] = 0
  BY <1>1, Zenon
<1>4. ASSUME NEW a \in applied PROVE tracked[a[1]] = m.tracked[a[1]]
  <2>1. a[1] \in Users /\ a[2] \in R!Kinds /\ a = <<a[1], a[2]>>
    BY <1>2, LimitParts, Zenon
  <2>2. CASE a[1] = l[1]
    <3>1. ~last
      BY <2>1, <2>2, Zenon
    <3>. QED
      BY <1>1, <2>1, <3>1, Zenon
  <2>3. CASE a[1] # l[1]
    BY <1>1, <2>1, <2>3, Zenon
  <2>. QED
    BY <2>2, <2>3, Zenon
<1>5. R!Dropped(m, l) = [m EXCEPT !.listed = listed, !.applied = applied, !.tracked = tracked]
  BY Zenon DEF R!Dropped
<1> HIDE DEF listed, applied, tracked
<1>6. /\ R!Dropped(m, l) \in RManagers
      /\ R!Dropped(m, l).applied = applied /\ R!Dropped(m, l).tracked = tracked
  BY <1>2, <1>3, <1>5, Zenon DEF RManagers
<1>. QED
  BY <1>3, <1>4, <1>6, Zenon DEF applied

\* pruneReleasedSystemdResourceState forgets users whose limits it drops.
LEMMA RPruned ==
    ASSUME RTypes, AppliedIsReleasable
    PROVE  R!Pruned(rSlice) \in RManagers /\ Releasable(R!Pruned(rSlice))
<1> DEFINE held(l) == rLease[l] = rMgr.tracked[l[1]]
           gone == {u \in Users : rMgr.tracked[u] > 0 /\ rMgr.tracked[u] # rSlice[u]
                                     /\ \A k \in R!Kinds : ~held(<<u, k>>)}
           dead == {l \in R!Limits : rMgr.tracked[l[1]] > 0 /\ ~held(l)}
           listed == rMgr.listed \ dead
           applied == rMgr.applied \ dead
           tracked == [u \in Users |-> IF u \in gone THEN 0 ELSE rMgr.tracked[u]]
<1>1. rMgr \in RManagers /\ rMgr.tracked \in [Users -> Nat] /\ rMgr.applied \in SUBSET R!Limits
  BY Zenon DEF RTypes, RManagers
<1>2. listed \in SUBSET R!Limits /\ applied \in SUBSET R!Limits /\ tracked \in [Users -> Nat]
  BY <1>1, Zenon DEF RManagers
<1>3. ASSUME NEW l \in applied PROVE tracked[l[1]] > 0
  <2>1. l \in R!Limits /\ l \in rMgr.applied /\ l[1] \in Users /\ l[2] \in R!Kinds /\ l = <<l[1], l[2]>>
    BY <1>2, LimitParts, Zenon
  <2>2. rMgr.tracked[l[1]] > 0
    BY <2>1, Zenon DEF AppliedIsReleasable, R!AppliedIsReleasable
  <2>3. held(l)
    BY <2>1, <2>2, Zenon
  <2>4. l[1] \notin gone
    BY <2>1, <2>3, Zenon
  <2>. QED
    BY <2>1, <2>2, <2>4, Zenon
<1>4. R!Pruned(rSlice) = [rMgr EXCEPT !.listed = listed, !.applied = applied, !.tracked = tracked]
  BY Zenon DEF R!Pruned
<1> HIDE DEF listed, applied, tracked
<1>5. /\ R!Pruned(rSlice) \in RManagers
      /\ R!Pruned(rSlice).applied = applied /\ R!Pruned(rSlice).tracked = tracked
  BY <1>1, <1>2, <1>4, Zenon DEF RManagers
<1>. QED
  BY <1>3, <1>5, Zenon DEF Releasable

\* What a step must leave to keep the invariant.
LEMMA RKeep ==
    ASSUME RIInv,
           rSlice' \in [Users -> Nat], rBorn' \in [Users -> Nat],
           rSplit' \in SUBSET R!Limits, rEligible' \in SUBSET R!Limits,
           rLease' \in [R!Limits -> Nat], rMgr' \in RManagers, rOp' \in ROps, rTrouble' \in Nat,
           RSeen', RExact', Releasable(rMgr')
    PROVE  RIInv'
<1>1. AppliedIsReleasable'
  BY Zenon DEF AppliedIsReleasable, R!AppliedIsReleasable, Releasable
<1>. QED
  BY <1>1, Zenon DEF RIInv, RTypes

\* An attempt ends or starts again.
LEMMA REnded ==
    ASSUME NEW o \in ROps, R!EndAttempt(o)
    PROVE  rOp' \in ROps /\ RSeen' /\ RExact'
<1>1. rOp' \in ROps /\ rOp'.at \in {"idle", "owned"} /\ rOp'.applied = {}
  <2>1. CASE rOp' = R!NoOp
    BY <2>1, RStart, Zenon
  <2>2. CASE rOp' = [R!NoOp EXCEPT !.kind = o.kind, !.at = "owned", !.attempt = 2,
                                   !.want = o.want, !.split = o.split]
    BY <2>2, RStart, Zenon DEF ROps, RSteps
  <2>. QED
    BY <2>1, <2>2, Zenon DEF R!EndAttempt
<1>. QED
  BY <1>1, Zenon DEF RSeen, RExact, Progressed

\* An error is noted.
LEMMA RNoted ==
    ASSUME NEW o \in ROps, NEW cause \in {"changed", "failed"}
    PROVE  LET n == R!Noted(o, cause) IN
           /\ n \in ROps /\ ~n.ok /\ n.at = o.at /\ n.kind = o.kind /\ n.applied = o.applied
           /\ n.seen = o.seen /\ n.plan = o.plan
  BY Zenon DEF R!Noted, ROps

\* A call fails and the attempt with it.
LEMMA RFails ==
    ASSUME RIInv, NEW cause \in {"changed", "failed"}, R!Fail(cause)
    PROVE  rOp' \in ROps /\ RSeen' /\ RExact'
<1>1. R!Noted(rOp, cause) \in ROps
  BY RNoted, Zenon DEF RIInv, RTypes
<1>. QED
  BY <1>1, REnded, Zenon DEF R!Fail

\* Users come and go, their processes move, their eligibility changes.
LEMMA REnvironment ==
    ASSUME RIInv, R!Environment
    PROVE  RIInv'
<1>1. UNCHANGED <<rLease, rMgr, rOp>> /\ rTrouble' \in Nat
  BY DEF RIInv, RTypes, R!Environment, R!LogOut, R!LogIn, R!Migrate, R!Reclassify, R!Fault
<1>2. /\ rSlice' \in [Users -> Nat] /\ rBorn' \in [Users -> Nat]
      /\ rSplit' \in SUBSET R!Limits /\ rEligible' \in SUBSET R!Limits
  BY DEF RIInv, RTypes, R!Environment, R!LogOut, R!LogIn, R!Migrate, R!Reclassify
<1>3. RSeen' /\ RExact' /\ Releasable(rMgr')
  BY <1>1, Zenon DEF RIInv, RSeen, RExact, Releasable, AppliedIsReleasable, R!AppliedIsReleasable
<1>. QED
  BY <1>1, <1>2, <1>3, RKeep, Zenon DEF RIInv, RTypes

\* Leases of slices that are gone are dropped.
LEMMA RReconciled ==
    ASSUME RTypes
    PROVE  R!Reconciled \in [R!Limits -> Nat]
  BY Zenon DEF RTypes, R!Reconciled

\* An operation starts.
LEMMA RBegins ==
    ASSUME RIInv, R!Activate \/ R!Maintain \/ R!Deactivate
    PROVE  RIInv'
<1>0. rMgr \in RManagers /\ rEligible \in SUBSET R!Limits /\ rSplit \in SUBSET R!Limits
      /\ Releasable(rMgr)
  BY Zenon DEF RIInv, RTypes, Releasable, AppliedIsReleasable, R!AppliedIsReleasable
<1>1. UNCHANGED <<rSlice, rBorn, rSplit, rEligible, rLease, rTrouble>>
  BY Zenon DEF R!Activate, R!Maintain, R!Deactivate, R!host
<1>2. rMgr' \in RManagers /\ Releasable(rMgr')
  <2>1. CASE R!Activate
    <3>1. rMgr' = [rMgr EXCEPT !.requested = rEligible # {}]
      BY <2>1, Zenon DEF R!Activate
    <3>2. (rEligible # {}) \in BOOLEAN
      BY Zenon
    <3>. QED
      BY <1>0, <3>1, <3>2, Zenon DEF RManagers, Releasable
  <2>. QED
    BY <1>0, <2>1, Zenon DEF R!Maintain, R!Deactivate
<1>3. rOp' \in ROps /\ rOp'.applied = {} /\ (rOp'.kind = "reconcile" => rOp'.at = "owned")
      /\ rOp'.at \in {"owned", "restore", "release"}
  <2>1. ASSUME NEW kind \in {"reconcile", "deactivate"}, NEW at \in {"owned", "release"},
               R!Begin(kind, at), kind = "reconcile" => at = "owned"
        PROVE  rOp' \in ROps /\ rOp'.applied = {} /\ (rOp'.kind = "reconcile" => rOp'.at = "owned")
               /\ rOp'.at \in {"owned", "restore", "release"}
    <3>1. rOp' = [R!NoOp EXCEPT !.kind = kind, !.at = at, !.attempt = 1,
                                !.want = rEligible, !.split = rSplit]
      BY <2>1, Zenon DEF R!Begin
    <3>. QED
      BY <1>0, <2>1, <3>1, RStart, Zenon DEF ROps, RSteps, RKinds
  <2>2. CASE rOp' = R!Withdrawal
    <3>1. /\ {l \in R!Limits : rMgr.tracked[l[1]] > 0} \in SUBSET R!Limits
          /\ rMgr.tracked \in [Users -> Nat]
      BY <1>0, Zenon DEF RManagers
    <3>2. rOp' = [R!NoOp EXCEPT !.kind = "withdraw", !.at = "restore", !.seen = rMgr.tracked,
                                !.todo = {l \in R!Limits : rMgr.tracked[l[1]] > 0}]
      BY <2>2, Zenon DEF R!Withdrawal
    <3>. QED
      BY <3>1, <3>2, RStart, Zenon DEF ROps, RSteps, RKinds
  <2>. QED
    BY <2>1, <2>2, Zenon DEF R!Activate, R!Maintain, R!Deactivate
<1>4. RSeen' /\ RExact'
  BY <1>3, Zenon DEF RSeen, RExact, Progressed
<1>. QED
  BY <1>1, <1>2, <1>3, <1>4, RKeep, Zenon DEF RIInv, RTypes

\* Everything is released, or the daemon starts again, or the CPU side drops leases.
LEMMA RRestarts ==
    ASSUME RIInv, R!Release \/ R!Restart \/ R!ReconcileByCPU
    PROVE  RIInv'
<1>0. /\ rMgr \in RManagers /\ Releasable(rMgr) /\ rLease \in [R!Limits -> Nat]
      /\ R!Reconciled \in [R!Limits -> Nat] /\ rTrouble \in Nat
  BY RReconciled, Zenon DEF RIInv, RTypes, Releasable, AppliedIsReleasable, R!AppliedIsReleasable
<1>1. UNCHANGED <<rSlice, rBorn, rSplit, rEligible>> /\ rTrouble' \in Nat
  BY <1>0 DEF R!Release, R!Restart, R!ReconcileByCPU, R!host, R!Fault, R!NoFault
<1>2. rOp' = R!NoOp
  BY Zenon DEF R!Release, R!Restart, R!ReconcileByCPU, R!Idle
<1>3. rOp' \in ROps /\ RSeen' /\ RExact'
  BY <1>2, RStart, Zenon DEF RSeen, RExact, Progressed
<1>4. rLease' \in [R!Limits -> Nat]
  <2>1. CASE R!Release
    <3>1. \/ rLease' = [l \in R!Limits |-> 0]
          \/ \E kept \in SUBSET R!Owned :
               rLease' = [l \in R!Limits |-> IF l \in kept THEN rLease[l] ELSE 0]
      BY <2>1, Zenon DEF R!Release
    <3>. QED
      BY <1>0, <3>1
  <2>. QED
    BY <1>0, <2>1, Zenon DEF R!Restart, R!ReconcileByCPU
<1>5. rMgr' \in RManagers /\ Releasable(rMgr')
  <2>1. CASE R!Restart
    <3> DEFINE asked == \E l \in R!Limits : rLease'[l] > 0
               tracked == [u \in Users |-> IF rLease'[<<u, "ram">>] > 0 THEN rLease'[<<u, "ram">>]
                                           ELSE rLease'[<<u, "io">>]]
    <3>1. tracked \in [Users -> Nat] /\ asked \in BOOLEAN
      BY <1>4, Zenon DEF R!Limits, R!Kinds
    <3>2. rMgr' = [R!NewManager EXCEPT !.requested = asked, !.tracked = tracked]
      BY <2>1, Zenon DEF R!Restart
    <3> HIDE DEF asked, tracked
    <3>. QED
      BY <3>1, <3>2, RStart, Zenon DEF RManagers, Releasable
  <2>2. CASE rMgr' \in {rMgr, R!NewManager}
    BY <1>0, <2>2, RStart, Zenon DEF Releasable
  <2>. QED
    BY <2>1, <2>2, Zenon DEF R!Release, R!ReconcileByCPU
<1>. QED
  BY <1>1, <1>3, <1>4, <1>5, RKeep, Zenon DEF RIInv, RTypes

\* reconcileSystemdResourcesAttempt up to the first mutation.
LEMMA RPlans ==
    ASSUME RIInv, R!ReconcileOwned \/ R!Discover \/ R!Authorize \/ R!ConfirmTopology
    PROVE  RIInv'
<1>0. /\ rMgr \in RManagers /\ Releasable(rMgr) /\ rLease \in [R!Limits -> Nat] /\ rOp \in ROps
      /\ R!Reconciled \in [R!Limits -> Nat] /\ rTrouble \in Nat /\ rSlice \in [Users -> Nat]
      /\ rOp.at \in {"owned", "discover", "authority", "confirm"} => rOp.applied = {}
  BY RReconciled, Zenon DEF RIInv, RTypes, Releasable, AppliedIsReleasable, R!AppliedIsReleasable,
                     RExact, Progressed
<1>1. CASE R!ReconcileOwned
  <2>1. UNCHANGED <<rSlice, rBorn, rSplit, rEligible, rMgr>> /\ rTrouble' \in Nat
        /\ rLease' \in [R!Limits -> Nat]
    BY <1>0, <1>1 DEF R!ReconcileOwned, R!host, R!Fault, R!NoFault
  <2>2. CASE rOp.at = "owned" /\ rOp' = [rOp EXCEPT !.at = "discover"]
    <3>1. rOp' \in ROps /\ rOp'.at = "discover" /\ rOp'.applied = {}
      BY <1>0, <2>2, Zenon DEF ROps, RSteps
    <3>2. RSeen' /\ RExact'
      BY <3>1, Zenon DEF RSeen, RExact, Progressed
    <3>. QED
      BY <1>0, <2>1, <3>1, <3>2, RKeep, Zenon DEF RIInv, RTypes
  <2>3. CASE R!Fail("failed")
    BY <1>0, <2>1, <2>3, RFails, RKeep, Zenon DEF RIInv, RTypes
  <2>. QED
    BY <1>1, <2>2, <2>3, Zenon DEF R!ReconcileOwned
<1>2. CASE R!Discover
  <2>1. UNCHANGED <<rSlice, rBorn, rSplit, rEligible, rLease>> /\ rTrouble' \in Nat
    BY <1>0, <1>2 DEF R!Discover, R!host, R!Fault, R!NoFault
  <2>2. CASE /\ rOp.at = "discover" /\ rMgr' = R!Pruned(rSlice)
             /\ rOp' = [rOp EXCEPT !.at = "authority", !.seen = rSlice]
    <3>1. rOp' \in ROps /\ rOp'.at = "authority" /\ rOp'.applied = {}
      BY <1>0, <2>2, Zenon DEF ROps, RSteps
    <3>2. RSeen' /\ RExact'
      BY <3>1, Zenon DEF RSeen, RExact, Progressed
    <3>3. rMgr' \in RManagers /\ Releasable(rMgr')
      BY <2>2, RPruned, Zenon DEF RIInv
    <3>. QED
      BY <1>0, <2>1, <3>1, <3>2, <3>3, RKeep, Zenon DEF RIInv, RTypes
  <2>3. CASE R!Fail("failed") /\ UNCHANGED rMgr
    BY <1>0, <2>1, <2>3, RFails, RKeep, Zenon DEF RIInv, RTypes
  <2>. QED
    BY <1>2, <2>2, <2>3, Zenon DEF R!Discover
<1>3. CASE R!Authorize
  <2>1. UNCHANGED <<rSlice, rBorn, rSplit, rEligible, rLease>> /\ rTrouble' \in Nat /\ rOp.at = "authority"
    BY <1>0, <1>3 DEF R!Authorize, R!host, R!Fault, R!NoFault
  <2>2. CASE R!Fail("failed") /\ UNCHANGED rMgr
    BY <1>0, <2>1, <2>2, RFails, RKeep, Zenon DEF RIInv, RTypes
  <2>3. CASE rMgr' = R!Listed(rMgr, R!Missing)
    <3>1. /\ rOp.want \in SUBSET R!Limits /\ R!Missing \in SUBSET R!Limits /\ R!Planned \in SUBSET R!Limits
          /\ \A l \in R!Planned : rOp.seen[l[1]] > 0
          /\ R!Missing = {} => R!Planned = rOp.want
      BY <1>0, Zenon DEF ROps, R!Planned, R!Missing
    <3>2. rMgr' \in RManagers /\ Releasable(rMgr')
      BY <1>0, <2>3, <3>1, RListed, Zenon DEF Releasable
    <3>3. CASE rOp' = [rOp EXCEPT !.at = "refuse", !.todo = R!Planned, !.ok = FALSE]
      <4>1. rOp' \in ROps /\ rOp'.at = "refuse" /\ rOp'.applied = {} /\ ~rOp'.ok
        BY <1>0, <2>1, <3>1, <3>3, Zenon DEF ROps, RSteps
      <4>2. RSeen' /\ RExact'
        BY <4>1, Zenon DEF RSeen, RExact, Progressed
      <4>. QED
        BY <1>0, <2>1, <3>2, <4>1, <4>2, RKeep, Zenon DEF RIInv, RTypes
    <3>4. ASSUME NEW plan \in SUBSET R!Planned, NEW ok \in BOOLEAN, ok => plan = rOp.want,
                 rOp' = [rOp EXCEPT !.at = "confirm", !.plan = plan, !.ok = ok]
          PROVE  RIInv'
      <4>1. /\ rOp' \in ROps /\ rOp'.at = "confirm" /\ rOp'.applied = {} /\ rOp'.ok = ok
            /\ rOp'.plan = plan /\ rOp'.want = rOp.want /\ rOp'.seen = rOp.seen
        <5>1. plan \in SUBSET R!Limits
          BY <3>1, Zenon
        <5>. QED
          BY <1>0, <2>1, <3>4, <5>1, Zenon DEF ROps, RSteps
      <4>2. RSeen'
        BY <3>1, <4>1, Zenon DEF RSeen, Seen
      <4>3. RExact'
        BY <3>4, <4>1, Zenon DEF RExact, Progressed
      <4>. QED
        BY <1>0, <2>1, <3>2, <4>1, <4>2, <4>3, RKeep, Zenon DEF RIInv, RTypes
    <3>5. CASE rOp' = [rOp EXCEPT !.at = "confirm", !.plan = R!Planned, !.ok = R!Missing = {}]
      <4>1. (R!Missing = {}) \in BOOLEAN
        BY Zenon
      <4>. QED
        BY <3>1, <3>4, <3>5, <4>1, Zenon
    <3>6. CASE rOp' = [rOp EXCEPT !.at = "confirm", !.ok = FALSE, !.plan = {l \in R!Planned : l[2] = "io"}]
      <4> DEFINE plan == {l \in R!Planned : l[2] = "io"}
      <4>1. plan \in SUBSET R!Planned
        BY Zenon
      <4> HIDE DEF plan
      <4>2. rOp' = [rOp EXCEPT !.at = "confirm", !.plan = plan, !.ok = FALSE]
        BY <1>0, <3>6, Zenon DEF ROps, plan
      <4>. QED
        BY <3>4, <4>1, <4>2, Zenon
    <3>. QED
      BY <1>3, <2>2, <3>3, <3>5, <3>6, Zenon DEF R!Authorize
  <2>. QED
    BY <1>3, <2>2, <2>3, Zenon DEF R!Authorize
<1>4. CASE R!ConfirmTopology
  <2>1. UNCHANGED <<rSlice, rBorn, rSplit, rEligible, rLease, rMgr, rTrouble>> /\ rOp.at = "confirm"
    BY <1>4, Zenon DEF R!ConfirmTopology, R!host, R!NoFault
  <2>2. CASE rOp' = [rOp EXCEPT !.at = "mutate", !.todo = rOp.plan]
    <3>1. /\ rOp' \in ROps /\ rOp'.at = "mutate" /\ rOp'.applied = {} /\ rOp'.ok = rOp.ok
          /\ rOp'.plan = rOp.plan /\ rOp'.want = rOp.want /\ rOp'.seen = rOp.seen
          /\ rOp'.todo = rOp.plan /\ rOp'.kind = rOp.kind
      BY <1>0, <2>1, <2>2, Zenon DEF ROps, RSteps
    <3>2. RSeen'
      BY <2>1, <3>1, Zenon DEF RIInv, RSeen, Seen
    <3>3. RExact'
      BY <2>1, <3>1, Zenon DEF RIInv, RExact, Progressed, OnSeen
    <3>. QED
      BY <1>0, <2>1, <3>1, <3>2, <3>3, RKeep, Zenon DEF RIInv, RTypes
  <2>3. CASE R!Fail("changed")
    BY <1>0, <2>1, <2>3, RFails, RKeep, Zenon DEF RIInv, RTypes
  <2>. QED
    BY <1>4, <2>2, <2>3, Zenon DEF R!ConfirmTopology
<1>. QED
  BY <1>1, <1>2, <1>3, <1>4, Zenon

\* A limit is passed over.
LEMMA RMissed ==
    ASSUME RIInv, NEW l \in R!Limits, rOp.at \in {"refuse", "mutate", "restore"},
           R!Settle(l) \/ \E cause \in {"changed", "failed"} : R!Miss(l, cause)
    PROVE  rOp' \in ROps /\ RSeen' /\ RExact'
<1> DEFINE o == [rOp EXCEPT !.todo = rOp.todo \ {l}]
<1>1. rOp \in ROps /\ rOp.todo \ {l} \in SUBSET R!Limits
  BY Zenon DEF RIInv, RTypes, ROps
<1>2. /\ o \in ROps /\ o.at = rOp.at /\ o.applied = rOp.applied /\ o.plan = rOp.plan
      /\ o.seen = rOp.seen /\ o.todo = rOp.todo \ {l}
  BY <1>1, Zenon DEF ROps
<1>3. /\ rOp' \in ROps /\ ~rOp'.ok /\ rOp'.at = rOp.at /\ rOp'.applied = rOp.applied
      /\ rOp'.plan = rOp.plan /\ rOp'.seen = rOp.seen /\ rOp'.todo = rOp.todo \ {l}
  <2>1. CASE R!Settle(l)
    <3>1. rOp' = [rOp EXCEPT !.todo = rOp.todo \ {l}, !.ok = FALSE]
      BY <2>1, Zenon DEF R!Settle
    <3>. QED
      BY <1>1, <3>1, Zenon DEF ROps
  <2>2. ASSUME NEW cause \in {"changed", "failed"}, R!Miss(l, cause)
        PROVE  /\ rOp' \in ROps /\ ~rOp'.ok /\ rOp'.at = rOp.at /\ rOp'.applied = rOp.applied
               /\ rOp'.plan = rOp.plan /\ rOp'.seen = rOp.seen /\ rOp'.todo = rOp.todo \ {l}
    <3>1. rOp' = R!Noted(o, cause)
      BY <2>2, Zenon DEF R!Miss
    <3>2. rOp'.todo = o.todo
      BY <1>2, <3>1, Zenon DEF R!Noted, ROps
    <3> HIDE DEF o
    <3>. QED
      BY <1>2, <3>1, <3>2, RNoted, Zenon
  <2>. QED
    BY <2>1, <2>2, Zenon
<1>. QED
  BY <1>3, Zenon DEF RIInv, RSeen, Seen, RExact, Progressed

\* refuseSystemdResource
LEMMA RRefuses ==
    ASSUME RIInv, R!Refused \/ \E l \in R!Limits : R!Refuse(l)
    PROVE  RIInv'
<1>0. /\ rMgr \in RManagers /\ Releasable(rMgr) /\ rLease \in [R!Limits -> Nat] /\ rOp \in ROps
      /\ rTrouble \in Nat
  BY Zenon DEF RIInv, RTypes, Releasable, AppliedIsReleasable, R!AppliedIsReleasable
<1>1. CASE R!Refused
  BY <1>0, <1>1, REnded, RKeep, Zenon DEF RIInv, RTypes, R!Refused, R!host
<1>2. ASSUME NEW l \in R!Limits, R!Refuse(l) PROVE RIInv'
  <2>1. UNCHANGED <<rSlice, rBorn, rSplit, rEligible>> /\ rTrouble' \in Nat
        /\ rOp.at \in {"refuse", "mutate"}
    <3>1. UNCHANGED <<rSlice, rBorn, rSplit, rEligible>> /\ rOp.at \in {"refuse", "mutate"}
      BY <1>2, Zenon DEF R!Refuse, R!host
    <3>2. rTrouble' = rTrouble \/ rTrouble' = rTrouble + 1
      BY <1>2, Zenon DEF R!Refuse, R!Fault, R!NoFault
    <3>. QED
      BY <1>0, <3>1, <3>2
  <2>2. R!Settle(l) \/ \E cause \in {"changed", "failed"} : R!Miss(l, cause)
    BY <1>2, Zenon DEF R!Refuse
  <2>3. rOp' \in ROps /\ RSeen' /\ RExact'
    BY <2>1, <2>2, RMissed, Zenon
  <2>4. rLease' \in [R!Limits -> Nat]
    <3>1. rLease' = rLease \/ rLease' = [rLease EXCEPT ![l] = 0]
      BY <1>2, Zenon DEF R!Refuse
    <3>. QED
      BY <1>0, <3>1
  <2>5. rMgr' \in RManagers /\ Releasable(rMgr')
    <3>1. rMgr' = R!Listed(rMgr, {l}) \/ rMgr' = R!Listed(R!Dropped(rMgr, l), {l})
      BY <1>2, Zenon DEF R!Refuse
    <3>2. CASE rMgr' = R!Listed(rMgr, {l})
      BY <1>0, <3>2, RListed DEF Releasable
    <3>3. CASE rMgr' = R!Listed(R!Dropped(rMgr, l), {l})
      <4>1. R!Dropped(rMgr, l) \in RManagers /\ Releasable(R!Dropped(rMgr, l))
        BY <1>0, RDropped DEF Releasable
      <4>. QED
        BY <3>3, <4>1, RListed DEF Releasable
    <3>. QED
      BY <3>1, <3>2, <3>3, Zenon
  <2>. QED
    BY <2>1, <2>3, <2>4, <2>5, RKeep, Zenon DEF RIInv, RTypes
<1>. QED
  BY <1>1, <1>2, Zenon

\* mutateSystemdResource
LEMMA RApplies ==
    ASSUME RIInv, NEW l \in R!Limits, R!Apply(l)
    PROVE  RIInv'
<1>0. /\ rMgr \in RManagers /\ Releasable(rMgr) /\ rLease \in [R!Limits -> Nat] /\ rOp \in ROps
      /\ rTrouble \in Nat /\ rOp.seen[l[1]] \in Nat /\ rOp.applied \cup {l} \in SUBSET R!Limits
      /\ rOp.todo \ {l} \in SUBSET R!Limits
  BY LimitParts, Zenon DEF RIInv, RTypes, Releasable, AppliedIsReleasable, R!AppliedIsReleasable, ROps
<1>1. /\ UNCHANGED <<rSlice, rBorn, rSplit, rEligible, rMgr>> /\ rTrouble' \in Nat
      /\ rOp.at = "mutate" /\ l \in rOp.todo
  BY <1>0 DEF R!Apply, R!host, R!Fault, R!NoFault, R!Turn
<1>2. [rLease EXCEPT ![l] = rOp.seen[l[1]]] \in [R!Limits -> Nat]
  BY <1>0, Zenon
<1>3. CASE /\ rLease' = [rLease EXCEPT ![l] = rOp.seen[l[1]]]
           /\ rOp' = [rOp EXCEPT !.todo = rOp.todo \ {l}, !.applied = rOp.applied \cup {l}]
  <2>1. /\ rOp' \in ROps /\ rOp'.at = "mutate" /\ rOp'.applied = rOp.applied \cup {l} /\ rOp'.ok = rOp.ok
        /\ rOp'.plan = rOp.plan /\ rOp'.want = rOp.want /\ rOp'.seen = rOp.seen
        /\ rOp'.todo = rOp.todo \ {l} /\ rOp'.kind = rOp.kind
    BY <1>0, <1>1, <1>3, Zenon DEF ROps
  <2>2. RSeen'
    BY <1>1, <2>1, Zenon DEF RIInv, RSeen, Seen
  <2>3. ASSUME OnSeen(rOp, rLease) PROVE OnSeen(rOp', rLease')
    <3>1. rOp.applied \in SUBSET R!Limits
      BY <1>0, Zenon DEF ROps
    <3>. QED
      BY <1>0, <1>3, <2>1, <2>3, <3>1, Zenon DEF OnSeen
  <2>4. RExact'
    BY <1>1, <2>1, <2>3, Zenon DEF RIInv, RExact, Progressed
  <2>. QED
    BY <1>0, <1>1, <1>2, <1>3, <2>1, <2>2, <2>4, RKeep, Zenon DEF RIInv, RTypes
<1>4. CASE /\ rLease' \in {rLease, [rLease EXCEPT ![l] = rOp.seen[l[1]]]}
           /\ \E cause \in {"changed", "failed"} : R!Miss(l, cause)
  BY <1>0, <1>1, <1>2, <1>4, RMissed, RKeep, Zenon DEF RIInv, RTypes
<1>. QED
  BY <1>3, <1>4, Zenon DEF R!Apply

\* ConfirmApplied reads a value again.
LEMMA RConfirms ==
    ASSUME RIInv, R!Mutated \/ \E l \in R!Limits : R!ConfirmApplied(l)
    PROVE  RIInv'
<1>0. /\ rMgr \in RManagers /\ Releasable(rMgr) /\ rLease \in [R!Limits -> Nat] /\ rOp \in ROps
      /\ rTrouble \in Nat /\ rOp.applied \in SUBSET R!Limits
  BY Zenon DEF RIInv, RTypes, Releasable, AppliedIsReleasable, R!AppliedIsReleasable, ROps
<1>1. CASE R!Mutated
  <2>1. UNCHANGED <<rSlice, rBorn, rSplit, rEligible, rLease, rMgr, rTrouble>>
        /\ rOp.at = "mutate" /\ rOp.todo = {}
    BY <1>1, Zenon DEF R!Mutated, R!host
  <2>2. /\ rOp' \in ROps /\ rOp'.at = (IF rOp.applied = {} THEN "stale" ELSE "readback")
        /\ rOp'.applied = rOp.applied /\ rOp'.ok = rOp.ok /\ rOp'.plan = rOp.plan
        /\ rOp'.want = rOp.want /\ rOp'.seen = rOp.seen /\ rOp'.kind = rOp.kind
    BY <1>0, <1>1, Zenon DEF R!Mutated, ROps, RSteps
  <2>3. RSeen'
    BY <2>1, <2>2, Zenon DEF RIInv, RSeen, Seen
  <2>4. RExact'
    BY <2>1, <2>2 DEF RIInv, RExact, Progressed, OnSeen, Taken
  <2>. QED
    BY <1>0, <2>1, <2>2, <2>3, <2>4, RKeep, Zenon DEF RIInv, RTypes
<1>2. ASSUME NEW l \in R!Limits, R!ConfirmApplied(l) PROVE RIInv'
  <2>0. rOp.todo \ {l} \in SUBSET R!Limits /\ rOp.applied \ {l} \in SUBSET R!Limits
    BY <1>0, Zenon DEF ROps
  <2>1. UNCHANGED <<rSlice, rBorn, rSplit, rEligible, rLease>> /\ rTrouble' \in Nat
        /\ rOp.at = "readback"
    <3>1. UNCHANGED <<rSlice, rBorn, rSplit, rEligible, rLease>> /\ rOp.at = "readback"
      BY <1>2, Zenon DEF R!ConfirmApplied, R!host
    <3>2. rTrouble' = rTrouble \/ rTrouble' = rTrouble + 1
      BY <1>2, Zenon DEF R!ConfirmApplied, R!Fault, R!NoFault
    <3>. QED
      BY <1>0, <3>1, <3>2
  <2>2. CASE rOp' = [rOp EXCEPT !.todo = rOp.todo \ {l}] /\ UNCHANGED rMgr
    <3>1. /\ rOp' \in ROps /\ rOp'.at = "readback" /\ rOp'.applied = rOp.applied /\ rOp'.ok = rOp.ok
          /\ rOp'.plan = rOp.plan /\ rOp'.want = rOp.want /\ rOp'.seen = rOp.seen /\ rOp'.kind = rOp.kind
      BY <1>0, <2>0, <2>1, <2>2, Zenon DEF ROps
    <3>2. RSeen' /\ RExact'
      BY <2>1, <3>1, Zenon DEF RIInv, RSeen, Seen, RExact, Progressed, OnSeen
    <3>. QED
      BY <1>0, <2>1, <2>2, <3>1, <3>2, RKeep, Zenon DEF RIInv, RTypes
  <2>3. CASE R!Fail("changed") /\ UNCHANGED rMgr
    BY <1>0, <2>1, <2>3, RFails, RKeep, Zenon DEF RIInv, RTypes
  <2>4. CASE /\ rMgr' = R!Unapplied(rMgr, l)
             /\ rOp' = R!Noted([rOp EXCEPT !.todo = rOp.todo \ {l}, !.applied = rOp.applied \ {l}], "failed")
    <3> DEFINE o == [rOp EXCEPT !.todo = rOp.todo \ {l}, !.applied = rOp.applied \ {l}]
    <3>1. /\ o \in ROps /\ o.at = "readback" /\ o.applied = rOp.applied \ {l}
          /\ o.plan = rOp.plan /\ o.seen = rOp.seen
      BY <1>0, <2>0, <2>1, Zenon DEF ROps
    <3>2. rOp' = R!Noted(o, "failed")
      BY <2>4, Zenon
    <3> HIDE DEF o
    <3>3. /\ rOp' \in ROps /\ rOp'.at = "readback" /\ rOp'.applied = rOp.applied \ {l} /\ ~rOp'.ok
          /\ rOp'.plan = rOp.plan /\ rOp'.seen = rOp.seen
      BY <3>1, <3>2, RNoted, Zenon
    <3>4. RSeen' /\ RExact'
      BY <2>1, <3>3, Zenon DEF RIInv, RSeen, Seen, RExact, Progressed
    <3>5. rMgr' \in RManagers /\ Releasable(rMgr')
      BY <1>0, <2>4, RUnapplied DEF Releasable
    <3>. QED
      BY <2>1, <1>0, <3>3, <3>4, <3>5, RKeep, Zenon DEF RIInv, RTypes
  <2>. QED
    BY <1>2, <2>2, <2>3, <2>4, Zenon DEF R!ConfirmApplied
<1>. QED
  BY <1>1, <1>2, Zenon

\* publishSystemdResource tracks the slices that the confirmed limits are on.
LEMMA RPublishes ==
    ASSUME RIInv, R!Publish
    PROVE  RIInv'
<1>0. /\ rMgr \in RManagers /\ Releasable(rMgr) /\ rLease \in [R!Limits -> Nat] /\ rOp \in ROps
      /\ rTrouble \in Nat /\ rOp.applied \in SUBSET R!Limits
      /\ rOp.seen \in [Users -> Nat] /\ rMgr.tracked \in [Users -> Nat] /\ rMgr.applied \in SUBSET R!Limits
  BY Zenon DEF RIInv, RTypes, Releasable, AppliedIsReleasable, R!AppliedIsReleasable, ROps, RManagers
<1>1. /\ UNCHANGED <<rSlice, rBorn, rSplit, rEligible, rLease, rTrouble>>
      /\ rOp.at = "readback" /\ rOp.todo = {}
  BY Zenon DEF R!Publish, R!host, R!NoFault
<1>2. CASE R!Fail("changed") /\ UNCHANGED rMgr
  BY <1>0, <1>1, <1>2, RFails, RKeep, Zenon DEF RIInv, RTypes
<1>3. CASE rMgr' = R!Published(rMgr) /\ rOp' = [rOp EXCEPT !.at = "stale"]
  <2> DEFINE m == R!Listed(rMgr, rOp.applied)
             tracked == [u \in Users |-> IF \E k \in R!Kinds : <<u, k>> \in rOp.applied
                                         THEN rOp.seen[u] ELSE rMgr.tracked[u]]
             applied == rMgr.applied \cup rOp.applied
  <2>1. m \in RManagers /\ m.applied = rMgr.applied /\ m.tracked = rMgr.tracked
    BY <1>0, RListed, Zenon
  <2>2. tracked \in [Users -> Nat] /\ applied \in SUBSET R!Limits
    BY <1>0, Zenon
  <2>3. ASSUME NEW l \in rOp.applied PROVE tracked[l[1]] = rOp.seen[l[1]] /\ rOp.seen[l[1]] > 0
    <3>1. l[1] \in Users /\ l[2] \in R!Kinds /\ l = <<l[1], l[2]>>
      BY <1>0, LimitParts, Zenon
    <3>2. rOp.seen[l[1]] > 0
      BY <1>1, Zenon DEF RIInv, RSeen, Seen
    <3>. QED
      BY <3>1, <3>2, Zenon
  <2>4. ASSUME NEW l \in applied PROVE tracked[l[1]] > 0
    <3>0. l[1] \in Users
      BY <2>2, LimitParts, Zenon
    <3>1. CASE \E k \in R!Kinds : <<l[1], k>> \in rOp.applied
      <4>1. PICK k \in R!Kinds : <<l[1], k>> \in rOp.applied
        BY <3>1, Zenon
      <4>2. <<l[1], k>>[1] = l[1]
        BY Zenon
      <4>. QED
        BY <2>3, <4>1, <4>2, Zenon
    <3>2. CASE ~\E k \in R!Kinds : <<l[1], k>> \in rOp.applied
      <4>1. l \in rMgr.applied
        BY <1>0, <3>2, LimitParts
      <4>. QED
        BY <1>0, <3>0, <3>2, <4>1, Zenon DEF Releasable
    <3>. QED
      BY <3>1, <3>2, Zenon
  <2>5. R!Published(rMgr) = [m EXCEPT !.applied = m.applied \cup rOp.applied,
                               !.tracked = [u \in Users |-> IF \E k \in R!Kinds : <<u, k>> \in rOp.applied
                                                            THEN rOp.seen[u] ELSE m.tracked[u]]]
    BY Zenon DEF R!Published
  <2>6. rMgr' = [m EXCEPT !.applied = applied, !.tracked = tracked]
    BY <1>3, <2>1, <2>5, Zenon
  <2> HIDE DEF m, applied, tracked
  <2>7. rMgr' \in RManagers /\ rMgr'.applied = applied /\ rMgr'.tracked = tracked
    BY <2>1, <2>2, <2>6, Zenon DEF RManagers
  <2>8. Releasable(rMgr')
    BY <2>4, <2>7, Zenon DEF Releasable
  <2>9. /\ rOp' \in ROps /\ rOp'.at = "stale" /\ rOp'.applied = rOp.applied /\ rOp'.ok = rOp.ok
        /\ rOp'.want = rOp.want /\ rOp'.seen = rOp.seen /\ rOp'.kind = rOp.kind
    BY <1>0, <1>3, Zenon DEF ROps, RSteps
  <2>10. ASSUME rOp.applied = rOp.want, OnSeen(rOp, rLease) PROVE Taken(rOp', rMgr', rLease')
    BY <1>1, <2>3, <2>7, <2>9, <2>10, Zenon DEF Taken, OnSeen, applied
  <2>11. RSeen' /\ RExact'
    BY <1>1, <2>9, <2>10, Zenon DEF RIInv, RSeen, RExact, Progressed
  <2>. QED
    BY <1>0, <1>1, <2>7, <2>8, <2>9, <2>11, RKeep, Zenon DEF RIInv, RTypes
<1>. QED
  BY <1>2, <1>3, Zenon DEF R!Publish

\* The limits that the sample does not ask for are released.
LEMMA RReleases ==
    ASSUME RIInv, R!CollectStale \/ R!Finish \/ \E l \in R!Limits : R!RestoreStale(l)
    PROVE  RIInv'
<1>0. /\ rMgr \in RManagers /\ Releasable(rMgr) /\ rLease \in [R!Limits -> Nat] /\ rOp \in ROps
      /\ rTrouble \in Nat /\ rOp.want \in SUBSET R!Limits
      /\ rMgr.tracked \in [Users -> Nat] /\ rMgr.applied \in SUBSET R!Limits
  BY Zenon DEF RIInv, RTypes, Releasable, AppliedIsReleasable, R!AppliedIsReleasable, ROps, RManagers
<1>1. CASE R!CollectStale
  <2> DEFINE todo == {l \in R!Limits \ rOp.want : rMgr.tracked[l[1]] > 0}
  <2>1. UNCHANGED <<rSlice, rBorn, rSplit, rEligible, rLease, rMgr, rTrouble>> /\ rOp.at = "stale"
        /\ rOp' = [rOp EXCEPT !.at = "restore", !.seen = rMgr.tracked, !.todo = todo]
    BY <1>1, Zenon DEF R!CollectStale, R!host
  <2>2. todo \in SUBSET R!Limits
    BY Zenon
  <2>3. rMgr.applied \subseteq rOp.want \cup todo /\ todo \cap rOp.want = {}
    BY <1>0, Zenon DEF Releasable
  <2>4. \A l \in R!Limits \ (rOp.want \cup todo) : ~(rMgr.tracked[l[1]] > 0)
    BY Zenon
  <2> HIDE DEF todo
  <2>5. /\ rOp' \in ROps /\ rOp'.at = "restore" /\ rOp'.ok = rOp.ok /\ rOp'.todo = todo
        /\ rOp'.want = rOp.want /\ rOp'.kind = rOp.kind
    BY <1>0, <2>1, <2>2, Zenon DEF ROps, RSteps
  <2>6. Left(rOp', rMgr', rLease')
    BY <2>1, <2>3, <2>4, <2>5, Zenon DEF Left
  <2>7. RSeen' /\ RExact'
    BY <2>1, <2>5, <2>6, Zenon DEF RIInv, RSeen, RExact, Progressed, Taken
  <2>. QED
    BY <1>0, <2>1, <2>5, <2>7, RKeep, Zenon DEF RIInv, RTypes
<1>2. CASE R!Finish
  <2>1. UNCHANGED <<rSlice, rBorn, rSplit, rEligible, rLease, rTrouble>> /\ R!EndAttempt(rOp)
    BY <1>2, Zenon DEF R!Finish, R!host
  <2>2. rMgr' \in {rMgr, R!Refreshed(rMgr, FALSE), R!Refreshed(rMgr, rOp.want # {})}
    BY <1>2, Zenon DEF R!Finish
  <2>3. FALSE \in BOOLEAN /\ (rOp.want # {}) \in BOOLEAN /\ {} \in SUBSET R!Limits
    BY Zenon
  <2>4. rMgr' \in RManagers /\ Releasable(rMgr')
    BY <1>0, <2>2, <2>3, RListed, Zenon DEF Releasable
  <2>. QED
    BY <1>0, <2>1, <2>4, REnded, RKeep, Zenon DEF RIInv, RTypes
<1>3. ASSUME NEW l \in R!Limits, R!RestoreStale(l) PROVE RIInv'
  <2>1. UNCHANGED <<rSlice, rBorn, rSplit, rEligible>> /\ rTrouble' \in Nat
        /\ rOp.at = "restore" /\ l \in rOp.todo
    <3>1. UNCHANGED <<rSlice, rBorn, rSplit, rEligible>> /\ rOp.at = "restore" /\ l \in rOp.todo
      BY <1>3, Zenon DEF R!RestoreStale, R!host
    <3>2. rTrouble' = rTrouble \/ rTrouble' = rTrouble + 1
      BY <1>3, Zenon DEF R!RestoreStale, R!Fault, R!NoFault
    <3>. QED
      BY <1>0, <3>1, <3>2
  <2>2. CASE UNCHANGED <<rLease, rMgr>> /\ \E cause \in {"changed", "failed"} : R!Miss(l, cause)
    BY <1>0, <2>1, <2>2, RMissed, RKeep, Zenon DEF RIInv, RTypes
  <2>3. CASE /\ rLease' = [rLease EXCEPT ![l] = 0] /\ rMgr' = R!Dropped(rMgr, l)
             /\ rOp' = [rOp EXCEPT !.todo = rOp.todo \ {l}]
    <3>1. /\ rOp' \in ROps /\ rOp'.at = "restore" /\ rOp'.ok = rOp.ok /\ rOp'.todo = rOp.todo \ {l}
          /\ rOp'.want = rOp.want /\ rOp'.kind = rOp.kind
      <4>1. rOp.todo \ {l} \in SUBSET R!Limits
        BY <1>0, Zenon DEF ROps
      <4>. QED
        BY <1>0, <2>1, <2>3, <4>1, Zenon DEF ROps
    <3>2. /\ rMgr' \in RManagers /\ rMgr'.applied = rMgr.applied \ {l}
          /\ \A u \in Users : rMgr'.tracked[u] = rMgr.tracked[u] \/ rMgr'.tracked[u] = 0
          /\ \A a \in rMgr.applied \ {l} : rMgr'.tracked[a[1]] = rMgr.tracked[a[1]]
      BY <1>0, <2>3, RDropped
    <3>3. Releasable(rMgr')
      BY <1>0, <3>2, Zenon DEF Releasable
    <3>4. rLease' \in [R!Limits -> Nat] /\ rLease'[l] = 0 /\ \A a \in R!Limits \ {l} : rLease'[a] = rLease[a]
      BY <1>0, <2>3, Zenon
    <3>5. ASSUME Taken(rOp, rMgr, rLease), Left(rOp, rMgr, rLease)
          PROVE  Taken(rOp', rMgr', rLease') /\ Left(rOp', rMgr', rLease')
      <4>0. l \notin rOp.want /\ rOp'.todo \cap rOp'.want = {}
        BY <2>1, <3>1, <3>5, Zenon DEF Left
      <4>1. rOp.want \subseteq rMgr'.applied
        BY <3>2, <3>5, <4>0, Zenon DEF Taken
      <4>2. ASSUME NEW a \in rOp.want PROVE rLease'[a] = rMgr'.tracked[a[1]]
        BY <1>0, <3>2, <3>4, <3>5, <4>0, Zenon DEF Taken
      <4>3. rMgr'.applied \subseteq rOp'.want \cup rOp'.todo
        BY <3>1, <3>2, <3>5, Zenon DEF Left
      <4>4. ASSUME NEW a \in R!Limits \ (rOp'.want \cup rOp'.todo), rMgr'.tracked[a[1]] > 0
            PROVE  rLease'[a] = 0
        <5>1. CASE a = l
          BY <3>4, <5>1, Zenon
        <5>2. CASE a # l
          <6>1. a \in R!Limits \ (rOp.want \cup rOp.todo) /\ a[1] \in Users
            BY <3>1, <5>2, LimitParts, Zenon
          <6>2. rMgr.tracked[a[1]] > 0
            BY <3>2, <4>4, <6>1
          <6>. QED
            BY <3>4, <3>5, <5>2, <6>1, <6>2, Zenon DEF Left
        <5>. QED
          BY <5>1, <5>2, Zenon
      <4>. QED
        BY <3>1, <4>0, <4>1, <4>2, <4>3, <4>4, Zenon DEF Taken, Left
    <3>6. RSeen' /\ RExact'
      BY <2>1, <3>1, <3>5, Zenon DEF RIInv, RSeen, RExact, Progressed
    <3>. QED
      BY <1>0, <2>1, <3>1, <3>2, <3>3, <3>4, <3>6, RKeep, Zenon DEF RIInv, RTypes
  <2>. QED
    BY <1>3, <2>2, <2>3, Zenon DEF R!RestoreStale
<1>. QED
  BY <1>1, <1>2, <1>3, Zenon

\* Every step of RAM and I/O enforcement keeps the invariant, and the weights
\* leave it alone.
LEMMA RStep ==
    ASSUME RIInv, [LimitsNext]_allVars
    PROVE  RIInv'
<1>1. CASE UNCHANGED R!vars
  <2>1. RTypes' /\ RSeen' /\ RExact' /\ AppliedIsReleasable'
    BY <1>1, Zenon DEF R!vars, RIInv, RTypes, RSeen, RExact, AppliedIsReleasable, R!AppliedIsReleasable
  <2>. QED
    BY <2>1, Zenon DEF RIInv
<1>2. CASE R!Next
  BY <1>2, REnvironment, RBegins, RRestarts, RPlans, RRefuses, RApplies, RConfirms, RPublishes,
     RReleases, Zenon DEF R!Next, R!Step
<1>3. UNCHANGED R!vars \/ R!Next
  BY Zenon DEF LimitsNext, Limit, Weigh, allVars, resources, R!HNext, R!HWork, R!Disturb, R!Settled,
         R!Next, R!vars
<1>. QED
  BY <1>1, <1>2, <1>3, Zenon

\* Nothing is applied at the start.
LEMMA RInit == LimitsInit => RIInv
<1> SUFFICES ASSUME LimitsInit PROVE RIInv
  BY Zenon
<1>1. R!Init
  BY Zenon DEF LimitsInit, R!HInit
<1>2. rMgr = R!NewManager /\ rOp = R!NoOp
  BY <1>1, Zenon DEF R!Init
<1>3. RTypes
  BY <1>1, RStart, Zenon DEF R!Init, RTypes
<1>4. RSeen /\ RExact /\ AppliedIsReleasable
  BY <1>2, RStart, Zenon DEF RSeen, RExact, Progressed, AppliedIsReleasable, R!AppliedIsReleasable
<1>. QED
  BY <1>3, <1>4, Zenon DEF RIInv

\* Whatever was pruned, refused, withdrawn or republished, a limit that counts as
\* applied can still be taken back, because its user is tracked and
\* restoreAllSystemdResourceProperties releases the tracked users: for any users
\* and any number of logouts, failing calls and restarts.
THEOREM AppliedStaysReleasable == LimitsSpec => []AppliedIsReleasable
<1>1. RIInv => AppliedIsReleasable
  BY Zenon DEF RIInv
<1>2. RIInv /\ [LimitsNext]_allVars => RIInv'
  BY RStep, Zenon
<1>. QED
  BY <1>1, <1>2, RInit, PTL DEF LimitsSpec

\* An attempt that ends without an error has brought about its sample.
LEMMA RSuccess ==
    ASSUME RIInv, [LimitsNext]_allVars
    PROVE  R!SuccessExactStep
<1> SUFFICES ASSUME rOp.kind = "reconcile", rOp.at = "restore", rOp.todo = {}, rOp.ok,
                    rOp' = R!NoOp, rTrouble' = rTrouble
             PROVE  /\ rMgr'.applied = rOp.want
                    /\ \A l \in rOp.want : rLease[l] = rMgr'.tracked[l[1]]
                    /\ \A l \in R!Limits \ rOp.want : rMgr'.tracked[l[1]] > 0 => rLease[l] = 0
  BY Zenon DEF R!SuccessExactStep
<1>0. rMgr \in RManagers /\ rTrouble \in Nat /\ rOp # R!NoOp
  BY RStart, Zenon DEF RIInv, RTypes
<1>1. Taken(rOp, rMgr, rLease) /\ Left(rOp, rMgr, rLease)
  BY Zenon DEF RIInv, RExact, Progressed
<1>2. R!Finish
  <2>1. ~R!Fault
    BY <1>0 DEF R!Fault
  <2>2. R!Next
    BY <1>0, Zenon DEF LimitsNext, Limit, Weigh, allVars, resources, R!HNext, R!HWork, R!Disturb, R!Settled,
         R!Next, R!vars
  <2>3. R!Step
    BY <1>0, <2>1, <2>2, Zenon DEF R!Next, R!Environment, R!LogOut, R!LogIn, R!Migrate, R!Reclassify,
       R!ReconcileByCPU, R!Activate, R!Maintain, R!Deactivate, R!Restart, R!Idle
  <2>4. ASSUME NEW l \in R!Limits
        PROVE  ~(R!Refuse(l) \/ R!Apply(l) \/ R!ConfirmApplied(l) \/ R!RestoreStale(l))
    BY Zenon DEF R!Refuse, R!Apply, R!ConfirmApplied, R!RestoreStale, R!Turn
  <2>. QED
    BY <2>3, <2>4, Zenon DEF R!Step, R!ReconcileOwned, R!Discover, R!Authorize, R!ConfirmTopology,
       R!Refused, R!Mutated, R!Publish, R!CollectStale, R!Release
<1>3. rMgr'.applied = rMgr.applied /\ rMgr'.tracked = rMgr.tracked
  <2>1. rMgr' = R!Refreshed(rMgr, rOp.want # {})
    BY <1>2, Zenon DEF R!Finish
  <2>2. (rOp.want # {}) \in BOOLEAN /\ {} \in SUBSET R!Limits
    BY Zenon
  <2>. QED
    BY <1>0, <2>1, <2>2, RListed, Zenon
<1>. QED
  BY <1>1, <1>3, Zenon DEF Taken, Left

-----------------------------------------------------------------------------
(* I/O weights.                                                            *)

\* What the variables of IOWeights hold.
WStates == {"disabled", "candidate", "accepted", "pending", "observation", "intervention",
            "release_pending"}
WAttempt == {"reconfirm", "classify", "probe", "accept"}
WCycle == {"confirm", "discover", "topology", "apply", "stale"}
WLeases == [inv : Nat, policy : Policies \cup {0}]
WConfigs == [selector : Selectors, policy : Policies]
WDues == [timer : BOOLEAN, reload : BOOLEAN]
WThens == [state : WStates \cup {""}, refuse : BOOLEAN, readback : BOOLEAN, retry : BOOLEAN]
WManagers == [state : WStates, selector : Selectors \cup {""}, programmed : BOOLEAN,
              readback : BOOLEAN, device : Hosts \cup {W!NoDevice}, policy : Policies,
              pending : BOOLEAN, units : [Users -> Nat], attempts : Nat, cycles : Nat]
WOps == [kind : {"none", "attempt", "cycle"}, at : {"idle", "owned", "restore"} \cup WAttempt \cup WCycle,
         cancelled : BOOLEAN, seen : [Users -> Nat], plan : SUBSET Users, todo : SUBSET Users,
         clean : BOOLEAN, then : WThens]

\* Every variable has its type.
WTypes ==
    /\ wSlice \in [Users -> Nat] /\ wCovered \in SUBSET Users /\ wDevice \in Hosts
    /\ wLease \in [Users -> WLeases] /\ wCfg \in WConfigs /\ wMgr \in WManagers
    /\ wDue \in WDues /\ wOp \in WOps /\ wMoves \in Nat /\ wFaults \in Nat

\* Where an attempt and a cycle may be, and that nothing is under way which could
\* end an intervention.
Placed(o) ==
    /\ o.at = "idle" \/ o.kind = "none" => o = W!NoOp
    /\ o.kind = "attempt" => o.at \in {"owned", "restore"} \cup WAttempt
    /\ o.kind = "cycle" => o.at \in {"owned", "restore"} \cup WCycle
    /\ o.kind = "attempt" /\ o.at \in {"owned", "restore"} => o.then.refuse
\* An operation that will publish nothing, and a manager that was stopped for an operator.
Quiescent(o) == o.at \in {"idle", "owned", "restore"} /\ ~o.then.refuse /\ o.then.state = ""
Stopped(m, c, o) == m.state = "intervention" => m.selector = c.selector /\ Quiescent(o)
WControl == Placed(wOp) /\ Stopped(wMgr, wCfg, wOp)

\* What a cycle has dealt with has the weight of the policy in force, and what it
\* releases is not of its plan.
Weight(o, m, u) == [inv |-> o.seen[u], policy |-> m.policy]
Weighted(o, m, leases, slices) ==
    /\ o.at = "apply" => \A u \in o.plan \ o.todo : leases[u] = Weight(o, m, u)
    /\ o.at = "stale" =>
        /\ \A u \in o.plan : leases[u] = Weight(o, m, u)
        /\ \A u \in o.plan \cap o.todo : m.units[u] > 0 /\ slices[u] # m.units[u]
        /\ o.clean => \A u \in Users \ (o.plan \cup o.todo) : m.units[u] > 0 => leases[u] = W!NoLease
WExact == Weighted(wOp, wMgr, wLease, wSlice)

\* The inductive invariant of the weights.
WIInv == WTypes /\ WControl /\ WExact

\* What a step of the Manager leaves of the host.
WFrame ==
    /\ UNCHANGED <<wSlice, wCovered, wDevice, wCfg>> /\ wLease' \in [Users -> WLeases]
    /\ wMoves' \in Nat /\ wFaults' \in Nat

\* Nothing is under way at the start.
LEMMA WStart ==
    /\ W!NoThen \in WThens /\ W!NoLease \in WLeases
    /\ W!NoOp \in WOps /\ W!NoOp.at = "idle" /\ W!NoOp.kind = "none"
    /\ Placed(W!NoOp) /\ Quiescent(W!NoOp)
<1>1. [u \in Users |-> 0] \in [Users -> Nat] /\ {} \in SUBSET Users
  BY Zenon
<1>2. /\ W!NoThen \in WThens /\ ~W!NoThen.refuse /\ W!NoThen.state = ""
      /\ W!NoLease \in WLeases
  BY Zenon DEF W!NoThen, WThens, W!NoLease, WLeases
<1>3. /\ W!NoOp \in WOps /\ W!NoOp.at = "idle" /\ W!NoOp.kind = "none" /\ W!NoOp.then = W!NoThen
  BY <1>1, <1>2, Zenon DEF W!NoOp, WOps
<1>. QED
  BY <1>2, <1>3, Zenon DEF Placed, Quiescent

\* publishIODeviceWeightCapability
LEMMA WPublished ==
    ASSUME WTypes, NEW m \in WManagers, NEW state \in WStates, NEW snapshot \in Hosts \cup {W!NoDevice},
           NEW p \in BOOLEAN, NEW r \in BOOLEAN
    PROVE  LET n == W!Published(m, state, snapshot, p, r) IN
           /\ n \in WManagers /\ n.state = state /\ n.selector = wCfg.selector
           /\ n.programmed = (m.programmed /\ p)
           /\ state # "accepted" => n.attempts = m.attempts
<1> DEFINE keep == m.programmed /\ p
           back == m.readback /\ r
           attempts == IF state = "accepted" THEN 0 ELSE m.attempts
           cycles == IF state = "accepted" THEN 0 ELSE m.cycles
<1>1. /\ keep \in BOOLEAN /\ back \in BOOLEAN /\ attempts \in Nat /\ cycles \in Nat
      /\ wCfg.selector \in Selectors \cup {""}
  BY Zenon DEF WManagers, WTypes, WConfigs
<1>2. W!Published(m, state, snapshot, p, r) =
        [m EXCEPT !.state = state, !.selector = wCfg.selector, !.device = snapshot,
                  !.programmed = keep, !.readback = back, !.attempts = attempts, !.cycles = cycles]
  BY Zenon DEF W!Published
<1>3. state # "accepted" => attempts = m.attempts
  BY Zenon
<1> HIDE DEF back, attempts, cycles
<1>. QED
  BY <1>1, <1>2, <1>3, Zenon DEF WManagers

\* What it publishes is the state it was given.
LEMMA WPublishedState ==
    ASSUME WTypes, NEW m \in WManagers, NEW state \in WStates, NEW snapshot \in Hosts \cup {W!NoDevice},
           NEW r \in BOOLEAN
    PROVE  /\ W!Published(m, state, snapshot, TRUE, r) \in WManagers
           /\ W!Published(m, state, snapshot, TRUE, r).state = state
<1>1. TRUE \in BOOLEAN
  BY Zenon
<1>. QED
  BY <1>1, WPublished, Zenon

\* resetSystemdIODeviceWeightStatus
LEMMA WReset ==
    ASSUME NEW m \in WManagers
    PROVE  /\ W!Reset(m) \in WManagers /\ W!Reset(m).state = m.state
           /\ W!Reset(m).selector = m.selector /\ ~W!Reset(m).programmed
<1>1. [u \in Users |-> 0] \in [Users -> Nat]
  BY Zenon
<1>. QED
  BY <1>1, Zenon DEF W!Reset, WManagers

\* An attempt or a cycle ends.
LEMMA WEnds ==
    ASSUME WIInv, WFrame, wOp' = W!NoOp, wDue' \in WDues, wMgr' \in WManagers,
           wMgr'.state = "intervention" => wMgr'.selector = wCfg.selector
    PROVE  WIInv'
<1>1. WTypes'
  BY WStart, Zenon DEF WIInv, WTypes, WFrame
<1>2. WControl'
  BY WStart, Zenon DEF WControl, Stopped, WFrame
<1>3. WExact'
  BY WStart, Zenon DEF WExact, Weighted
<1>. QED
  BY <1>1, <1>2, <1>3, Zenon DEF WIInv

\* restoreAllSystemdIODeviceWeights begins while no intervention is needed.
LEMMA WBeginsRestore ==
    ASSUME WIInv, WFrame, NEW then \in WThens, then.refuse, W!BeginRestore(then),
           wOp.kind # "none", wMgr' \in WManagers, wMgr'.state # "intervention"
    PROVE  WIInv'
<1>1. wOp' = [wOp EXCEPT !.at = "owned", !.then = then] /\ wDue' = wDue
  BY Zenon DEF W!BeginRestore
<1>2. wOp' \in WOps /\ wOp'.at = "owned" /\ wOp'.then = then /\ wOp'.kind = wOp.kind
  BY <1>1, Zenon DEF WIInv, WTypes, WOps
<1>3. WTypes'
  BY <1>1, <1>2, Zenon DEF WIInv, WTypes, WFrame
<1>4. WControl'
  BY <1>2, Zenon DEF WControl, Placed, Stopped
<1>5. WExact'
  BY <1>2, Zenon DEF WExact, Weighted
<1>. QED
  BY <1>3, <1>4, <1>5, Zenon DEF WIInv

\* What the end of an attempt leaves scheduled.
LEMMA WDueTypes ==
    ASSUME WTypes, NEW retry \in BOOLEAN,
           W!EndAttempt(retry) \/ W!EndCycle \/ W!End(retry)
    PROVE  wOp' = W!NoOp /\ wDue' \in WDues
<1>1. wOp' = W!NoOp /\ (wDue' = [wDue EXCEPT !.timer = retry] \/ wDue' = wDue)
  BY Zenon DEF W!EndAttempt, W!EndCycle, W!End
<1>. QED
  BY <1>1, Zenon DEF WTypes, WDues

\* publishIODeviceWeightCapabilityFailure
LEMMA WCapabilityFails ==
    ASSUME WIInv, WFrame, wOp.kind = "attempt", NEW state \in {"pending", "observation"}, NEW reason,
           W!CapabilityFailure(state, reason), wMgr.state # "intervention"
    PROVE  WIInv'
<1> DEFINE grace == reason = "evidence_unavailable"
           attempts == IF ~grace THEN 0 ELSE IF wMgr.programmed THEN wMgr.attempts + 1 ELSE wMgr.attempts
           counted == [wMgr EXCEPT !.attempts = attempts]
<1>0. wMgr \in WManagers /\ WTypes /\ wDevice \in Hosts
  BY Zenon DEF WIInv, WTypes
<1>1. attempts \in Nat
  <2>1. wMgr.attempts \in Nat
    BY <1>0, Zenon DEF WManagers
  <2>2. wMgr.attempts + 1 \in Nat
    BY <2>1
  <2> HIDE DEF grace
  <2>. QED
    BY <2>1, <2>2, Zenon
<1>2. IF wMgr.programmed /\ (~grace \/ attempts > 1)
      THEN /\ W!BeginRestore([W!NoThen EXCEPT !.state = state, !.refuse = TRUE, !.retry = TRUE])
           /\ wMgr' = counted
      ELSE wMgr' = W!Published(counted, state, wDevice, TRUE, FALSE) /\ W!EndAttempt(TRUE)
  BY Zenon DEF W!CapabilityFailure
<1> HIDE DEF attempts
<1>3. counted \in WManagers /\ counted.state = wMgr.state
  BY <1>0, <1>1, Zenon DEF WManagers
<1> HIDE DEF counted
<1>4. CASE /\ W!BeginRestore([W!NoThen EXCEPT !.state = state, !.refuse = TRUE, !.retry = TRUE])
           /\ wMgr' = counted
  <2> DEFINE then == [W!NoThen EXCEPT !.state = state, !.refuse = TRUE, !.retry = TRUE]
  <2>1. then \in WThens /\ then.refuse
    BY WStart, Zenon DEF WThens, WStates
  <2> HIDE DEF then
  <2>2. W!BeginRestore(then)
    BY <1>4, Zenon DEF then
  <2>. QED
    BY <1>3, <1>4, <2>1, <2>2, WBeginsRestore, Zenon
<1>5. CASE wMgr' = W!Published(counted, state, wDevice, TRUE, FALSE) /\ W!EndAttempt(TRUE)
  <2>0. state \in WStates /\ wDevice \in Hosts \cup {W!NoDevice} /\ TRUE \in BOOLEAN /\ FALSE \in BOOLEAN
    BY <1>0, Zenon DEF WStates
  <2>1. wMgr' \in WManagers /\ wMgr'.state = state
    BY <1>0, <1>3, <1>5, <2>0, WPublished
  <2>. QED
    BY <1>0, <1>5, <2>1, WDueTypes, WEnds, Zenon
<1>. QED
  BY <1>2, <1>4, <1>5, Zenon

\* releaseFailedIODeviceWeightPlan
LEMMA WReleaseFails ==
    ASSUME WIInv, WFrame, wOp.kind # "none", wMgr.state # "intervention", NEW state \in WStates,
           W!ReleaseFailed(state)
    PROVE  WIInv'
<1> DEFINE then == [W!NoThen EXCEPT !.state = state, !.refuse = TRUE]
<1>1. then \in WThens /\ then.refuse
  BY WStart, Zenon DEF WThens
<1>2. W!BeginRestore(then) /\ wMgr' = wMgr
  BY Zenon DEF W!ReleaseFailed
<1> HIDE DEF then
<1>. QED
  BY <1>1, <1>2, WBeginsRestore, Zenon DEF WIInv, WTypes

\* deferOrReleaseIODeviceWeights
LEMMA WDefers ==
    ASSUME WIInv, WFrame, wOp.kind = "cycle", NEW state \in {"pending", "observation"}, NEW reason,
           W!DeferOrRelease(state, reason)
    PROVE  WIInv'
<1> DEFINE grace == reason = "evidence_unavailable"
           cycles == IF grace THEN wMgr.cycles + 1 ELSE 0
           then == [W!NoThen EXCEPT !.refuse = TRUE]
<1>0. wMgr \in WManagers /\ WTypes
  BY Zenon DEF WIInv, WTypes
<1>1. cycles \in Nat
  <2>1. wMgr.cycles \in Nat
    BY <1>0, Zenon DEF WManagers
  <2>2. wMgr.cycles + 1 \in Nat
    BY <2>1
  <2> HIDE DEF grace
  <2>. QED
    BY <2>2, Zenon
<1>2. /\ wMgr' = [wMgr EXCEPT !.cycles = cycles, !.state = state, !.readback = FALSE]
      /\ W!EndCycle \/ W!BeginRestore(then)
  BY Zenon DEF W!DeferOrRelease
<1>3. then \in WThens /\ then.refuse
  BY WStart, Zenon DEF WThens
<1> HIDE DEF cycles, then
<1>4. wMgr' \in WManagers /\ wMgr'.state = state
  BY <1>0, <1>1, <1>2, Zenon DEF WManagers, WStates
<1>5. CASE W!EndCycle
  BY <1>0, <1>4, <1>5, WDueTypes, WEnds, Zenon
<1>6. CASE W!BeginRestore(then)
  BY <1>3, <1>4, <1>6, WBeginsRestore, Zenon
<1>. QED
  BY <1>2, <1>5, <1>6, Zenon

\* Work is under way only while no intervention is needed.
LEMMA WBusy ==
    ASSUME WIInv, wOp.at \in WAttempt \cup WCycle
    PROVE  /\ wMgr.state # "intervention" /\ wOp.kind # "none"
           /\ wOp.at \in WAttempt => wOp.kind = "attempt"
           /\ wOp.at \in WCycle => wOp.kind = "cycle"
<1>1. wOp.at \notin {"idle", "owned", "restore"}
  BY Zenon DEF WAttempt, WCycle
<1>2. wOp.kind \in {"none", "attempt", "cycle"} /\ WAttempt \cap WCycle = {}
  BY Zenon DEF WIInv, WTypes, WOps, WAttempt, WCycle
<1>3. wOp.kind # "none"
  BY <1>1, WStart, Zenon DEF WIInv, WControl, Placed
<1>. QED
  BY <1>1, <1>2, <1>3, Zenon DEF WIInv, WControl, Placed, Stopped, Quiescent

\* A step of an attempt or of a cycle.
LEMMA WAdvances ==
    ASSUME WIInv, WFrame, wDue' \in WDues, wOp' \in WOps,
           \/ wOp'.kind = "attempt" /\ wOp'.at \in WAttempt
           \/ wOp'.kind = "cycle" /\ wOp'.at \in WCycle,
           wMgr' \in WManagers, wMgr'.state # "intervention", WExact'
    PROVE  WIInv'
<1>1. WTypes'
  BY Zenon DEF WIInv, WTypes, WFrame
<1>2. WControl'
  BY Zenon DEF WControl, Placed, Stopped, WAttempt, WCycle
<1>. QED
  BY <1>1, <1>2, Zenon DEF WIInv

\* AttemptIODeviceWeightCapability starts.
LEMMA WAttempts ==
    ASSUME WIInv, W!Attempt
    PROVE  WIInv'
<1>0. /\ wMgr \in WManagers /\ wDue \in WDues /\ wLease \in [Users -> WLeases]
      /\ wMoves \in Nat /\ wFaults \in Nat /\ W!NoOp \in WOps /\ W!NoThen \in WThens
      /\ wMgr.state = "intervention" => wMgr.selector = wCfg.selector
  BY WStart, Zenon DEF WIInv, WTypes, WControl, Stopped
<1>1. WFrame /\ wMgr' = wMgr
  BY <1>0, Zenon DEF W!Attempt, WFrame, W!host, W!NoFault
<1>2. wDue' \in WDues
  <2>1. wDue' = [timer |-> FALSE, reload |-> FALSE] \/ wDue' = [wDue EXCEPT !.timer = FALSE]
    BY Zenon DEF W!Attempt
  <2>2. CASE wDue' = [timer |-> FALSE, reload |-> FALSE]
    BY <2>2, Zenon DEF WDues
  <2>3. CASE wDue' = [wDue EXCEPT !.timer = FALSE]
    BY <1>0, <2>3, Zenon DEF WDues
  <2>. QED
    BY <2>1, <2>2, <2>3, Zenon
<1>3. CASE wOp' = W!NoOp
  BY <1>0, <1>1, <1>2, <1>3, WEnds, Zenon
<1> DEFINE then == [W!NoThen EXCEPT !.state = "disabled", !.refuse = TRUE, !.readback = TRUE]
<1>4. CASE /\ ~W!InterventionStopped
           /\ wOp' = [W!NoOp EXCEPT !.kind = "attempt", !.at = "owned", !.then = then]
  <2>1. then \in WThens /\ then.refuse
    BY <1>0, Zenon DEF WThens, WStates
  <2> HIDE DEF then
  <2>2. wOp' \in WOps /\ wOp'.at = "owned" /\ wOp'.then = then /\ wOp'.kind = "attempt"
    BY <1>0, <1>4, <2>1, Zenon DEF WOps
  <2>3. wMgr.state # "intervention"
    BY <1>0, <1>4, Zenon DEF W!InterventionStopped
  <2>4. WTypes'
    BY <1>0, <1>1, <1>2, <2>2, Zenon DEF WIInv, WTypes, WFrame
  <2>5. WControl' /\ WExact'
    BY <1>1, <2>1, <2>2, <2>3, Zenon DEF WControl, Placed, Stopped, WExact, Weighted
  <2>. QED
    BY <2>4, <2>5, Zenon DEF WIInv
<1>5. ASSUME NEW at \in {"reconfirm", "classify"}, ~W!InterventionStopped,
             wOp' = [W!NoOp EXCEPT !.kind = "attempt", !.at = at]
      PROVE  WIInv'
  <2>1. wOp' \in WOps /\ wOp'.at = at /\ wOp'.kind = "attempt"
    BY <1>0, <1>5, Zenon DEF WOps, WAttempt
  <2>2. wMgr.state # "intervention"
    BY <1>0, <1>5, Zenon DEF W!InterventionStopped
  <2>3. WExact' /\ at \in WAttempt
    BY <2>1, Zenon DEF WExact, Weighted, WAttempt
  <2>. QED
    BY <1>0, <1>1, <1>2, <2>1, <2>2, <2>3, WAdvances, Zenon
<1>6. \/ wOp' = W!NoOp
      \/ /\ ~W!InterventionStopped
         /\ \/ wOp' = [W!NoOp EXCEPT !.kind = "attempt", !.at = "owned", !.then = then]
            \/ wOp' = [W!NoOp EXCEPT !.kind = "attempt", !.at = "reconfirm"]
            \/ wOp' = [W!NoOp EXCEPT !.kind = "attempt", !.at = "classify"]
  <2>1. CASE W!InterventionStopped
    BY <2>1, Zenon DEF W!Attempt, W!InterventionStopped
  <2>2. CASE ~W!InterventionStopped /\ wCfg.selector = ""
    BY Zenon, <2>2 DEF W!Attempt
  <2>3. CASE /\ ~W!InterventionStopped /\ wCfg.selector # ""
             /\ wMgr.state = "accepted" /\ wMgr.selector = wCfg.selector
    BY <2>3, Zenon DEF W!Attempt
  <2>4. CASE /\ ~W!InterventionStopped /\ wCfg.selector # ""
             /\ ~(wMgr.state = "accepted" /\ wMgr.selector = wCfg.selector)
    BY <2>4, Zenon DEF W!Attempt
  <2>. QED
    BY <2>1, <2>2, <2>3, <2>4, Zenon
<1>. QED
  BY <1>3, <1>4, <1>5, <1>6, Zenon

\* Its steps.
LEMMA WAttemptSteps ==
    ASSUME WIInv, W!Reconfirm \/ W!ClassifyStep \/ W!Probe \/ W!Accept
    PROVE  WIInv'
<1>0. /\ wMgr \in WManagers /\ wDue \in WDues /\ wLease \in [Users -> WLeases] /\ wOp \in WOps
      /\ wMoves \in Nat /\ wFaults \in Nat /\ WTypes /\ wMgr.device \in Hosts \cup {W!NoDevice}
      /\ wDevice \in Hosts \cup {W!NoDevice} /\ TRUE \in BOOLEAN /\ FALSE \in BOOLEAN
  BY Zenon DEF WIInv, WTypes, WManagers
<1>1. wOp.at \in WAttempt
  BY Zenon DEF W!Reconfirm, W!ClassifyStep, W!Probe, W!Accept, WAttempt
<1>2. wOp.kind = "attempt" /\ wMgr.state # "intervention"
  BY <1>1, WBusy, Zenon
<1>3. WFrame
  <2>1. UNCHANGED <<wSlice, wCovered, wDevice, wCfg, wLease>>
    BY Zenon DEF W!Reconfirm, W!ClassifyStep, W!Probe, W!Accept, W!host
  <2>2. W!NoFault \/ W!Fault
    BY Zenon DEF W!Reconfirm, W!ClassifyStep, W!Probe, W!Accept
  <2>. QED
    BY <1>0, <2>1, <2>2 DEF WFrame, W!NoFault, W!Fault
<1>4. ASSUME NEW state \in {"pending", "observation"}, NEW reason, W!CapabilityFailure(state, reason)
      PROVE  WIInv'
  BY <1>2, <1>3, <1>4, WCapabilityFails, Zenon
<1>5. ASSUME W!EndAttempt(TRUE),
             \/ wMgr' = W!Published([wMgr EXCEPT !.pending = FALSE], "accepted", wMgr.device, TRUE, TRUE)
             \/ wMgr' = W!Published([wMgr EXCEPT !.pending = FALSE], "accepted", wMgr.device, TRUE, FALSE)
      PROVE  WIInv'
  <2> DEFINE m == [wMgr EXCEPT !.pending = FALSE]
  <2>1. m \in WManagers /\ "accepted" \in WStates
    BY <1>0, Zenon DEF WManagers, WStates
  <2> HIDE DEF m
  <2>2. \/ wMgr' = W!Published(m, "accepted", wMgr.device, TRUE, TRUE)
        \/ wMgr' = W!Published(m, "accepted", wMgr.device, TRUE, FALSE)
    BY <1>5, Zenon DEF m
  <2>3. WTypes /\ wMgr.device \in Hosts \cup {W!NoDevice}
    BY <1>0, Zenon
  <2>4. ASSUME NEW r \in BOOLEAN, NEW d \in Hosts \cup {W!NoDevice}
        PROVE  /\ W!Published(m, "accepted", d, TRUE, r) \in WManagers
               /\ W!Published(m, "accepted", d, TRUE, r).state = "accepted"
    BY <2>1, <2>3, <2>4, WPublishedState, Zenon
  <2>5. wMgr' \in WManagers /\ wMgr'.state = "accepted"
    BY <2>2, <2>3, <2>4, Zenon
  <2>. QED
    BY <1>0, <1>3, <1>5, <2>5, WDueTypes, WEnds, Zenon
<1>6. ASSUME NEW at \in WAttempt, wOp' = [wOp EXCEPT !.at = at], UNCHANGED wDue,
             wMgr' \in WManagers, wMgr'.state # "intervention"
      PROVE  WIInv'
  <2>1. wOp' \in WOps /\ wOp'.at = at /\ wOp'.kind = "attempt"
    BY <1>0, <1>2, <1>6, Zenon DEF WOps
  <2>2. WExact'
    BY <2>1, Zenon DEF WExact, Weighted, WAttempt
  <2>. QED
    BY <1>0, <1>3, <1>6, <2>1, <2>2, WAdvances, Zenon
<1>7. CASE W!Reconfirm
  <2>1. CASE wOp' = [wOp EXCEPT !.at = "classify"] /\ UNCHANGED <<wMgr, wDue>>
    BY <1>0, <1>2, <1>6, <2>1, Zenon DEF WAttempt
  <2>. QED
    BY <1>4, <1>5, <1>7, <2>1, Zenon DEF W!Reconfirm
<1>8. CASE W!ClassifyStep
  <2>1. CASE /\ wMgr' = W!Published(wMgr, "candidate", wDevice, TRUE, FALSE)
             /\ wOp' = [wOp EXCEPT !.at = "probe"] /\ UNCHANGED wDue
    <3>1. "candidate" \in WStates /\ "probe" \in WAttempt
      BY Zenon DEF WStates, WAttempt
    <3>2. wMgr' \in WManagers /\ wMgr'.state = "candidate"
      BY <1>0, <2>1, <3>1, WPublished, Zenon
    <3>. QED
      BY <1>6, <2>1, <3>1, <3>2, Zenon
  <2>2. \/ /\ wMgr' = W!Published(wMgr, "candidate", wDevice, TRUE, FALSE)
           /\ wOp' = [wOp EXCEPT !.at = "probe"] /\ UNCHANGED wDue
        \/ W!CapabilityFailure("pending", W!Classify(<<W!Looked>>).reason)
        \/ W!CapabilityFailure("observation", W!Classify(<<W!Looked>>).reason)
    BY <1>8, Zenon DEF W!ClassifyStep
  <2>. QED
    BY <1>4, <2>1, <2>2, Zenon
<1>9. CASE W!Probe
  <2>1. CASE wOp' = [wOp EXCEPT !.at = "accept"] /\ UNCHANGED <<wMgr, wDue>>
    BY <1>0, <1>2, <1>6, <2>1, Zenon DEF WAttempt
  <2>2. CASE W!ReleaseFailed("intervention")
    BY <1>2, <1>3, <2>2, WReleaseFails, Zenon DEF WStates
  <2>. QED
    BY <1>4, <1>9, <2>1, <2>2, Zenon DEF W!Probe
<1>10. CASE W!Accept
  <2>1. \/ /\ wMgr' = W!Published([wMgr EXCEPT !.pending = FALSE], "accepted", wMgr.device, TRUE, FALSE)
           /\ W!EndAttempt(TRUE)
        \/ LET change == W!Change(<<wMgr.device>>, <<W!Looked>>)
           IN W!CapabilityFailure(W!Loss(change), change)
    BY <1>10, Zenon DEF W!Accept
  <2>2. \A change : W!Loss(change) \in {"pending", "observation"}
    BY Zenon DEF W!Loss
  <2>. QED
    BY <1>4, <1>5, <2>1, <2>2, Zenon
<1>. QED
  BY <1>7, <1>8, <1>9, <1>10, Zenon

\* BeginConfigUpdate cancels the probe.
LEMMA WCancels ==
    ASSUME WIInv, W!Cancel
    PROVE  WIInv'
<1>0. wOp \in WOps /\ wMgr \in WManagers /\ wDue \in WDues /\ wMoves \in Nat /\ wFaults \in Nat
      /\ wLease \in [Users -> WLeases] /\ TRUE \in BOOLEAN
  BY Zenon DEF WIInv, WTypes
<1>1. wOp.at \in WAttempt /\ wOp.kind = "attempt"
  BY Zenon DEF W!Cancel, WAttempt
<1>2. wOp' = [wOp EXCEPT !.cancelled = TRUE] /\ wMgr' = wMgr /\ wDue' = wDue
  BY Zenon DEF W!Cancel
<1>3. WFrame
  BY <1>0 DEF W!Cancel, W!host, W!Move, WFrame
<1>4. wOp' \in WOps /\ wOp'.at = wOp.at /\ wOp'.kind = "attempt"
  BY <1>0, <1>1, <1>2, Zenon DEF WOps
<1>5. WExact'
  BY <1>1, <1>4, Zenon DEF WExact, Weighted, WAttempt
<1>. QED
  BY <1>0, <1>1, <1>2, <1>3, <1>4, <1>5, WBusy, WAdvances, Zenon

\* stageReconcileIODeviceWeights starts.
LEMMA WCycles ==
    ASSUME WIInv, W!Cycle
    PROVE  WIInv'
<1>0. /\ wMgr \in WManagers /\ wDue \in WDues /\ wLease \in [Users -> WLeases]
      /\ wMoves \in Nat /\ wFaults \in Nat /\ W!NoOp \in WOps
      /\ wMgr.state = "intervention" => wMgr.selector = wCfg.selector
  BY WStart, Zenon DEF WIInv, WTypes, WControl, Stopped
<1>1. WFrame /\ wDue' = wDue /\ wOp = W!NoOp
  BY <1>0, Zenon DEF W!Cycle, WFrame, W!host, W!NoFault, W!Idle
<1>2. CASE wMgr' = W!Reset(wMgr) /\ UNCHANGED wOp
  BY <1>0, <1>1, <1>2, WReset, WEnds, Zenon
<1>3. CASE wOp' = [W!NoOp EXCEPT !.kind = "cycle", !.at = "owned"] /\ UNCHANGED wMgr
  <2>1. wOp' \in WOps /\ wOp'.at = "owned" /\ wOp'.kind = "cycle" /\ wOp'.then = W!NoOp.then
    BY <1>0, <1>3, Zenon DEF WOps
  <2>2. WTypes'
    BY <1>0, <1>1, <1>3, <2>1, Zenon DEF WIInv, WTypes, WFrame
  <2>3. ~W!NoOp.then.refuse /\ W!NoOp.then.state = ""
    BY WStart, Zenon DEF Quiescent
  <2>4. WControl' /\ WExact'
    BY <1>0, <1>1, <1>3, <2>1, <2>3, Zenon DEF WControl, Placed, Stopped, Quiescent, WExact, Weighted, WFrame
  <2>. QED
    BY <2>2, <2>4, Zenon DEF WIInv
<1>4. CASE /\ wMgr.state = "accepted"
           /\ wOp' = [W!NoOp EXCEPT !.kind = "cycle", !.at = "confirm"] /\ UNCHANGED wMgr
  <2>1. wOp' \in WOps /\ wOp'.at = "confirm" /\ wOp'.kind = "cycle" /\ "confirm" \in WCycle
    BY <1>0, <1>4, Zenon DEF WOps, WCycle
  <2>2. WExact'
    BY <2>1, Zenon DEF WExact, Weighted
  <2>. QED
    BY <1>0, <1>1, <1>4, <2>1, <2>2, WAdvances, Zenon
<1>. QED
  BY <1>2, <1>3, <1>4, Zenon DEF W!Cycle

\* Its steps before a weight is set.
LEMMA WCycleSteps ==
    ASSUME WIInv, W!CycleConfirm \/ W!Discover \/ W!ConfirmTopology
    PROVE  WIInv'
<1>0. /\ wMgr \in WManagers /\ wDue \in WDues /\ wLease \in [Users -> WLeases] /\ wOp \in WOps
      /\ wMoves \in Nat /\ wFaults \in Nat /\ wSlice \in [Users -> Nat] /\ wCovered \in SUBSET Users
  BY Zenon DEF WIInv, WTypes
<1>1. wOp.at \in WCycle
  BY Zenon DEF W!CycleConfirm, W!Discover, W!ConfirmTopology, WCycle
<1>2. wOp.kind = "cycle" /\ wMgr.state # "intervention"
  BY <1>1, WBusy, Zenon
<1>3. WFrame
  <2>1. UNCHANGED <<wSlice, wCovered, wDevice, wCfg, wLease>>
    BY Zenon DEF W!CycleConfirm, W!Discover, W!ConfirmTopology, W!host
  <2>2. W!NoFault \/ W!Fault
    BY Zenon DEF W!CycleConfirm, W!Discover, W!ConfirmTopology
  <2>. QED
    BY <1>0, <2>1, <2>2 DEF WFrame, W!NoFault, W!Fault
<1>4. ASSUME NEW state \in {"pending", "observation"}, NEW reason, W!DeferOrRelease(state, reason)
      PROVE  WIInv'
  BY <1>2, <1>3, <1>4, WDefers, Zenon
<1>5. ASSUME wOp' \in WOps, wOp'.kind = "cycle", wOp'.at \in WCycle, UNCHANGED <<wMgr, wDue>>, WExact'
      PROVE  WIInv'
  BY <1>0, <1>2, <1>3, <1>5, WAdvances, Zenon
<1>6. CASE W!CycleConfirm
  <2>1. CASE wOp' = [wOp EXCEPT !.at = "discover"] /\ UNCHANGED <<wMgr, wDue>>
    <3>1. wOp' \in WOps /\ wOp'.kind = "cycle" /\ wOp'.at = "discover" /\ "discover" \in WCycle
      BY <1>0, <1>2, <2>1, Zenon DEF WOps, WCycle
    <3>2. WExact'
      BY <3>1, Zenon DEF WExact, Weighted
    <3>. QED
      BY <1>5, <2>1, <3>1, <3>2, Zenon
  <2>2. \/ wOp' = [wOp EXCEPT !.at = "discover"] /\ UNCHANGED <<wMgr, wDue>>
        \/ LET change == W!Change(<<wMgr.device>>, <<wDevice>>)
           IN W!DeferOrRelease(W!Loss(change), change)
    BY <1>6, Zenon DEF W!CycleConfirm
  <2>3. \A change : W!Loss(change) \in {"pending", "observation"}
    BY Zenon DEF W!Loss
  <2>. QED
    BY <1>4, <2>1, <2>2, <2>3, Zenon
<1>7. CASE W!Discover
  <2> DEFINE plan == {u \in wCovered : wSlice[u] > 0}
  <2>1. CASE wOp' = [wOp EXCEPT !.at = "topology", !.seen = wSlice, !.plan = plan] /\ UNCHANGED <<wMgr, wDue>>
    <3>1. plan \in SUBSET Users /\ "topology" \in WCycle
      BY <1>0, Zenon DEF WCycle
    <3> HIDE DEF plan
    <3>2. wOp' \in WOps /\ wOp'.kind = "cycle" /\ wOp'.at = "topology"
      BY <1>0, <1>2, <2>1, <3>1, Zenon DEF WOps
    <3>3. WExact'
      BY <3>2, Zenon DEF WExact, Weighted
    <3>. QED
      BY <1>5, <2>1, <3>1, <3>2, <3>3, Zenon
  <2>. QED
    BY <1>4, <1>7, <2>1, Zenon DEF W!Discover
<1>8. CASE W!ConfirmTopology
  <2>1. CASE wOp' = [wOp EXCEPT !.at = "apply", !.todo = wOp.plan] /\ UNCHANGED <<wMgr, wDue>>
    <3>1. /\ wOp' \in WOps /\ wOp'.kind = "cycle" /\ wOp'.at = "apply" /\ "apply" \in WCycle
          /\ wOp'.plan = wOp'.todo
      BY <1>0, <1>2, <2>1, Zenon DEF WOps, WCycle
    <3>2. WExact'
      BY <3>1, Zenon DEF WExact, Weighted
    <3>. QED
      BY <1>5, <2>1, <3>1, <3>2, Zenon
  <2>. QED
    BY <1>4, <1>8, <2>1, Zenon DEF W!ConfirmTopology
<1>. QED
  BY <1>6, <1>7, <1>8, Zenon

\* A weight is set, or the plan is given up.
LEMMA WApplies ==
    ASSUME WIInv, NEW u \in Users, W!Apply(u)
    PROVE  WIInv'
<1>0. /\ wMgr \in WManagers /\ wDue \in WDues /\ wLease \in [Users -> WLeases] /\ wOp \in WOps
      /\ wMoves \in Nat /\ wFaults \in Nat /\ wOp.at = "apply" /\ u \in wOp.todo
  BY Zenon DEF WIInv, WTypes, W!Apply, W!Turn
<1>1. wOp.at \in WCycle /\ wOp.kind = "cycle" /\ wOp.kind # "none" /\ wMgr.state # "intervention"
  BY <1>0, WBusy, Zenon DEF WCycle
<1>2. Weight(wOp, wMgr, u) \in WLeases
  BY <1>0, Zenon DEF WLeases, Weight, WOps, WManagers
<1>3. W!Programmed(u) = [wLease EXCEPT ![u] = Weight(wOp, wMgr, u)]
  BY Zenon DEF W!Programmed, Weight
<1>4. WFrame
  <2>1. UNCHANGED <<wSlice, wCovered, wDevice, wCfg>> /\ (W!NoFault \/ W!Fault)
    BY Zenon DEF W!Apply, W!host
  <2>2. wLease' = wLease \/ wLease' = W!Programmed(u)
    BY Zenon DEF W!Apply
  <2>3. wLease' \in [Users -> WLeases]
    BY <1>0, <1>2, <1>3, <2>2, Zenon
  <2>. QED
    BY <1>0, <2>1, <2>3 DEF WFrame, W!NoFault, W!Fault
<1>5. ASSUME NEW state \in {"pending", "intervention"}, W!ReleaseFailed(state)
      PROVE  WIInv'
  BY <1>1, <1>4, <1>5, WReleaseFails, Zenon DEF WStates
<1>6. CASE /\ wLease' = W!Programmed(u)
           /\ wOp' = [wOp EXCEPT !.todo = @ \ {u}] /\ UNCHANGED <<wMgr, wDue>>
  <2>1. wOp' = [wOp EXCEPT !.todo = wOp.todo \ {u}]
    BY <1>6, Zenon
  <2>2. /\ wOp' \in WOps /\ wOp'.kind = "cycle" /\ wOp'.at = "apply" /\ wOp'.plan = wOp.plan
        /\ wOp'.seen = wOp.seen /\ wOp'.todo = wOp.todo \ {u}
    BY <1>0, <1>1, <2>1, Zenon DEF WOps
  <2>3. ASSUME NEW v \in wOp'.plan \ wOp'.todo
        PROVE  wLease'[v] = Weight(wOp', wMgr', v)
    <3>1. v \in Users /\ Weight(wOp', wMgr', v) = Weight(wOp, wMgr, v)
      BY <1>0, <1>6, <2>2, Zenon DEF Weight, WOps
    <3>2. CASE v = u
      BY <1>0, <1>3, <1>6, <3>1, <3>2, Zenon
    <3>3. CASE v # u
      <4>1. v \in wOp.plan \ wOp.todo
        BY <2>2, <2>3, <3>3, Zenon
      <4>2. wLease[v] = Weight(wOp, wMgr, v)
        BY <1>0, <4>1, Zenon DEF WIInv, WExact, Weighted
      <4>. QED
        BY <1>0, <1>3, <1>6, <3>1, <3>3, <4>2, Zenon
    <3>. QED
      BY <3>2, <3>3, Zenon
  <2>4. WExact'
    BY <2>2, <2>3, Zenon DEF WExact, Weighted
  <2>. QED
    BY <1>0, <1>1, <1>4, <1>6, <2>2, <2>4, WAdvances, Zenon DEF WCycle
<1>. QED
  BY <1>5, <1>6, Zenon DEF W!Apply

\* The weights are read back.
LEMMA WReadsBack ==
    ASSUME WIInv, W!ReadBack
    PROVE  WIInv'
<1>0. /\ wMgr \in WManagers /\ wDue \in WDues /\ wLease \in [Users -> WLeases] /\ wOp \in WOps
      /\ wMoves \in Nat /\ wFaults \in Nat /\ wOp.at = "apply" /\ wOp.todo = {}
  BY Zenon DEF WIInv, WTypes, W!ReadBack
<1>1. wOp.at \in WCycle /\ wOp.kind = "cycle" /\ wOp.kind # "none" /\ wMgr.state # "intervention"
  BY <1>0, WBusy, Zenon DEF WCycle
<1>2. WFrame
  <2>1. UNCHANGED <<wSlice, wCovered, wDevice, wCfg, wLease>> /\ (W!NoFault \/ W!Fault)
    BY Zenon DEF W!ReadBack, W!host
  <2>. QED
    BY <1>0, <2>1 DEF WFrame, W!NoFault, W!Fault
<1>3. ASSUME NEW state \in {"pending", "observation", "intervention"}, W!ReleaseFailed(state)
      PROVE  WIInv'
  BY <1>1, <1>2, <1>3, WReleaseFails, Zenon DEF WStates
<1>4. CASE /\ wSlice = wOp.seen /\ UNCHANGED wLease
           /\ wOp' = [wOp EXCEPT !.at = "stale", !.todo = W!Stale] /\ UNCHANGED <<wMgr, wDue>>
  <2>1. W!Stale \in SUBSET Users
    BY Zenon DEF W!Stale
  <2>2. /\ wOp' \in WOps /\ wOp'.kind = "cycle" /\ wOp'.at = "stale" /\ wOp'.plan = wOp.plan
        /\ wOp'.seen = wOp.seen /\ wOp'.todo = W!Stale
    BY <1>0, <1>1, <1>4, <2>1, Zenon DEF WOps, WCycle
  <2>3. \A u \in wOp.plan : wLease[u] = Weight(wOp, wMgr, u)
    BY <1>0, Zenon DEF WIInv, WExact, Weighted
  <2>4. \A u \in wOp'.plan : wLease'[u] = Weight(wOp', wMgr', u)
    BY <1>4, <2>2, <2>3, Zenon DEF Weight
  <2>5. wSlice' = wSlice /\ wMgr' = wMgr
    BY <1>2, <1>4, Zenon DEF WFrame
  <2>6. \A u \in wOp'.plan \cap wOp'.todo : wMgr'.units[u] > 0 /\ wSlice'[u] # wMgr'.units[u]
    BY <1>4, <2>2, <2>5, Zenon DEF W!Stale
  <2>7. \A u \in Users \ (wOp'.plan \cup wOp'.todo) : ~(wMgr'.units[u] > 0)
    BY <2>2, <2>5, Zenon DEF W!Stale
  <2>8. WExact'
    BY <2>2, <2>4, <2>6, <2>7, Zenon DEF WExact, Weighted
  <2>. QED
    BY <1>0, <1>1, <1>2, <1>4, <2>2, <2>8, WAdvances, Zenon DEF WCycle
<1>. QED
  BY <1>3, <1>4, Zenon DEF W!ReadBack

\* restoreStaleSystemdIODeviceWeights
LEMMA WRestoresStale ==
    ASSUME WIInv, NEW u \in Users, W!RestoreStale(u)
    PROVE  WIInv'
<1>0. /\ wMgr \in WManagers /\ wDue \in WDues /\ wLease \in [Users -> WLeases] /\ wOp \in WOps
      /\ wMoves \in Nat /\ wFaults \in Nat /\ wOp.at = "stale" /\ u \in wOp.todo
      /\ wMgr' = wMgr /\ wDue' = wDue /\ W!NoLease \in WLeases
  BY WStart, Zenon DEF WIInv, WTypes, W!RestoreStale
<1>1. wOp.at \in WCycle /\ wOp.kind = "cycle" /\ wMgr.state # "intervention"
  BY <1>0, WBusy, Zenon DEF WCycle
<1>2. \/ /\ wSlice[u] = wMgr.units[u] /\ wLease' = [wLease EXCEPT ![u] = W!NoLease]
         /\ wOp' = [wOp EXCEPT !.todo = wOp.todo \ {u}]
      \/ wLease' = wLease /\ wOp' = [wOp EXCEPT !.todo = wOp.todo \ {u}, !.clean = FALSE]
  BY Zenon DEF W!RestoreStale
<1>3. WFrame
  <2>1. UNCHANGED <<wSlice, wCovered, wDevice, wCfg>> /\ (W!NoFault \/ W!Fault)
    BY Zenon DEF W!RestoreStale, W!host
  <2>2. wLease' \in [Users -> WLeases]
    BY <1>0, <1>2, Zenon
  <2>. QED
    BY <1>0, <2>1, <2>2 DEF WFrame, W!NoFault, W!Fault
<1>4. /\ \A v \in wOp.plan : wLease[v] = Weight(wOp, wMgr, v)
      /\ \A v \in wOp.plan \cap wOp.todo : wMgr.units[v] > 0 /\ wSlice[v] # wMgr.units[v]
      /\ wOp.clean => \A v \in Users \ (wOp.plan \cup wOp.todo) : wMgr.units[v] > 0 => wLease[v] = W!NoLease
  BY <1>0, Zenon DEF WIInv, WExact, Weighted
<1>5. /\ wOp' \in WOps /\ wOp'.kind = "cycle" /\ wOp'.at = "stale" /\ wOp'.plan = wOp.plan
      /\ wOp'.seen = wOp.seen /\ wOp'.todo = wOp.todo \ {u}
      /\ wOp'.clean => wOp.clean /\ wLease' = [wLease EXCEPT ![u] = W!NoLease]
  BY <1>0, <1>1, <1>2 DEF WOps
<1>6. wOp.plan \in SUBSET Users /\ wSlice' = wSlice
  BY <1>0, <1>3, Zenon DEF WOps, WFrame
<1>7. \A v \in wOp'.plan : wLease'[v] = Weight(wOp', wMgr', v)
  <2>1. ASSUME NEW v \in wOp.plan
        PROVE  wLease'[v] = wLease[v]
    BY <1>0, <1>2, <1>4, <1>6, <2>1, Zenon
  <2>. QED
    BY <1>0, <1>4, <1>5, <2>1 DEF Weight
<1>8. \A v \in wOp'.plan \cap wOp'.todo : wMgr'.units[v] > 0 /\ wSlice'[v] # wMgr'.units[v]
  BY <1>0, <1>4, <1>5, <1>6, Zenon
<1>9. ASSUME wOp'.clean, NEW v \in Users \ (wOp'.plan \cup wOp'.todo), wMgr'.units[v] > 0
      PROVE  wLease'[v] = W!NoLease
  <2>1. CASE v = u
    BY <1>0, <1>5, <1>9, <2>1, Zenon
  <2>2. CASE v # u
    BY <1>0, <1>4, <1>5, <1>9, <2>2, Zenon
  <2>. QED
    BY <2>1, <2>2, Zenon
<1>10. WExact'
  BY <1>5, <1>7, <1>8, <1>9, Zenon DEF WExact, Weighted
<1>. QED
  BY <1>0, <1>1, <1>3, <1>5, <1>10, WAdvances, Zenon

\* The cycle publishes, or gives up what it could not release.
LEMMA WFinishes ==
    ASSUME WIInv, W!FinishCycle
    PROVE  WIInv'
<1>0. /\ wMgr \in WManagers /\ wLease \in [Users -> WLeases] /\ wOp \in WOps /\ WTypes
      /\ wMoves \in Nat /\ wFaults \in Nat /\ wOp.at = "stale" /\ wOp.kind # "none" /\ wMgr.state # "intervention"
  BY WBusy, Zenon DEF WIInv, WTypes, W!FinishCycle, WCycle
<1>1. WFrame
  BY <1>0, Zenon DEF W!FinishCycle, W!host, W!NoFault, WFrame
<1>2. CASE W!ReleaseFailed("intervention")
  BY <1>0, <1>1, <1>2, WReleaseFails, Zenon DEF WStates
<1> DEFINE units == [u \in Users |-> IF u \in wOp.plan THEN wOp.seen[u] ELSE 0]
           some == wOp.plan # {}
<1>3. CASE /\ wMgr' = [wMgr EXCEPT !.units = units, !.state = "accepted", !.programmed = some, !.readback = some,
                                   !.attempts = 0, !.cycles = 0]
           /\ W!EndCycle
  <2>1. units \in [Users -> Nat] /\ some \in BOOLEAN /\ "accepted" \in WStates
    BY <1>0, Zenon DEF WOps, WStates
  <2> HIDE DEF units, some
  <2>2. wMgr' \in WManagers /\ wMgr'.state = "accepted"
    BY <1>0, <1>3, <2>1, Zenon DEF WManagers
  <2>. QED
    BY <1>0, <1>1, <1>3, <2>2, WDueTypes, WEnds, Zenon
<1>. QED
  BY <1>2, <1>3, Zenon DEF W!FinishCycle

\* A restore that did not succeed.
LEMMA WRestoreFails ==
    ASSUME WIInv, WFrame, wOp.at \in {"owned", "restore"}, W!RestoreFailed
    PROVE  WIInv'
<1>0. /\ wMgr \in WManagers /\ WTypes /\ wOp.then.readback \in BOOLEAN
      /\ wMgr.device \in Hosts \cup {W!NoDevice} /\ TRUE \in BOOLEAN /\ FALSE \in BOOLEAN
      /\ "intervention" \in WStates
      /\ wMgr.state = "intervention" => wMgr.selector = wCfg.selector
  BY Zenon DEF WIInv, WTypes, WOps, WThens, WManagers, WStates, WControl, Stopped
<1>1. W!End(FALSE)
  BY Zenon DEF W!RestoreFailed
<1>2. \/ wMgr' = wMgr
      \/ wMgr' = W!Published(wMgr, "intervention", wMgr.device, TRUE, wOp.then.readback)
  BY Zenon DEF W!RestoreFailed
<1>3. CASE wMgr' = W!Published(wMgr, "intervention", wMgr.device, TRUE, wOp.then.readback)
  <2>1. \/ wMgr' = W!Published(wMgr, "intervention", wMgr.device, TRUE, TRUE)
        \/ wMgr' = W!Published(wMgr, "intervention", wMgr.device, TRUE, FALSE)
    BY <1>0, <1>3, Zenon
  <2>2. /\ WTypes /\ wMgr \in WManagers /\ wMgr.device \in Hosts \cup {W!NoDevice}
        /\ "intervention" \in WStates
    BY <1>0, Zenon
  <2>3. ASSUME NEW r \in BOOLEAN, NEW d \in Hosts \cup {W!NoDevice}
        PROVE  W!Published(wMgr, "intervention", d, TRUE, r) \in WManagers
    BY <2>2, <2>3, WPublished, Zenon
  <2>4. wMgr' \in WManagers
    BY <2>1, <2>2, <2>3, Zenon
  <2>5. wMgr'.selector = wCfg.selector
    BY <2>1, <2>2, Zenon DEF WManagers, W!Published
  <2>. QED
    BY <1>0, <1>1, <2>4, <2>5, WDueTypes, WEnds, Zenon
<1>4. CASE wMgr' = wMgr
  BY <1>0, <1>1, <1>4, WDueTypes, WEnds, Zenon
<1>. QED
  BY <1>2, <1>3, <1>4, Zenon

\* What a restore does while it goes on.
LEMMA WRestores ==
    ASSUME WIInv, WFrame, wOp.at \in {"owned", "restore"}, UNCHANGED <<wMgr, wDue>>,
           wOp' \in WOps, wOp'.at = "restore", wOp'.kind = wOp.kind, wOp'.then = wOp.then
    PROVE  WIInv'
<1>0. wMgr \in WManagers /\ wDue \in WDues
  BY Zenon DEF WIInv, WTypes
<1>2. wOp.kind # "none"
  BY WStart, Zenon DEF WIInv, WControl, Placed
<1>3. WTypes'
  BY <1>0, Zenon DEF WIInv, WTypes, WFrame
<1>4. WControl'
  BY <1>2, Zenon DEF WIInv, WControl, Placed, Stopped, Quiescent, WFrame
<1>5. WExact'
  BY Zenon DEF WExact, Weighted
<1>. QED
  BY <1>3, <1>4, <1>5, Zenon DEF WIInv

\* ReconcileOwned forgets what is no longer there.
LEMMA WCurrent ==
    ASSUME WTypes
    PROVE  W!Current \in [Users -> WLeases]
<1>1. wLease \in [Users -> WLeases] /\ W!NoLease \in WLeases
  BY WStart, Zenon DEF WTypes
<1>. QED
  BY <1>1, Zenon DEF W!Current

\* The restore reads what is owned first.
LEMMA WReconcilesOwned ==
    ASSUME WIInv, W!ReconcileOwned
    PROVE  WIInv'
<1>0. /\ wLease \in [Users -> WLeases] /\ wMoves \in Nat /\ wFaults \in Nat /\ wOp.at = "owned"
      /\ W!Current \in [Users -> WLeases] /\ TRUE \in BOOLEAN
  BY WCurrent, Zenon DEF WIInv, WTypes, W!ReconcileOwned
<1>1. WFrame
  <2>1. /\ UNCHANGED <<wSlice, wCovered, wDevice, wCfg>> /\ (W!NoFault \/ W!Fault)
        /\ wLease' \in {wLease, W!Current}
    BY Zenon DEF W!ReconcileOwned, W!host
  <2>. QED
    BY <1>0, <2>1 DEF WFrame, W!NoFault, W!Fault
<1> DEFINE todo == {u \in Users : W!Current[u] # W!NoLease}
<1>2. \/ /\ wOp' = [wOp EXCEPT !.at = "restore", !.todo = todo, !.clean = TRUE]
         /\ UNCHANGED <<wMgr, wDue>>
      \/ W!RestoreFailed
  BY Zenon DEF W!ReconcileOwned
<1>3. todo \in SUBSET Users
  BY Zenon
<1> HIDE DEF todo
<1>4. CASE /\ wOp' = [wOp EXCEPT !.at = "restore", !.todo = todo, !.clean = TRUE]
           /\ UNCHANGED <<wMgr, wDue>>
  <2>1. wOp' \in WOps /\ wOp'.at = "restore" /\ wOp'.kind = wOp.kind /\ wOp'.then = wOp.then
    BY <1>3, <1>4, Zenon DEF WIInv, WTypes, WOps
  <2>. QED
    BY <1>0, <1>1, <1>4, <2>1, WRestores, Zenon
<1>. QED
  BY <1>0, <1>1, <1>2, <1>4, WRestoreFails, Zenon

\* One weight is given back.
LEMMA WRestoresOne ==
    ASSUME WIInv, NEW u \in Users, W!Restore(u)
    PROVE  WIInv'
<1>0. /\ wLease \in [Users -> WLeases] /\ wMoves \in Nat /\ wFaults \in Nat /\ wOp.at = "restore"
      /\ W!NoLease \in WLeases /\ UNCHANGED <<wMgr, wDue>> /\ wOp \in WOps
  BY WStart, Zenon DEF WIInv, WTypes, W!Restore
<1>1. /\ wLease' = wLease \/ wLease' = [wLease EXCEPT ![u] = W!NoLease]
      /\ \/ wOp' = [wOp EXCEPT !.todo = wOp.todo \ {u}]
         \/ wOp' = [wOp EXCEPT !.todo = wOp.todo \ {u}, !.clean = FALSE]
  BY Zenon DEF W!Restore
<1>2. WFrame
  <2>1. UNCHANGED <<wSlice, wCovered, wDevice, wCfg>> /\ (W!NoFault \/ W!Fault)
    BY Zenon DEF W!Restore, W!host
  <2>2. wLease' \in [Users -> WLeases]
    BY <1>0, <1>1, Zenon
  <2>. QED
    BY <1>0, <2>1, <2>2 DEF WFrame, W!NoFault, W!Fault
<1>3. wOp.todo \ {u} \in SUBSET Users /\ wOp.clean \in BOOLEAN /\ FALSE \in BOOLEAN
  BY <1>0, Zenon DEF WOps
<1>4. wOp' \in WOps /\ wOp'.at = "restore" /\ wOp'.kind = wOp.kind /\ wOp'.then = wOp.then
  BY <1>0, <1>1, <1>3, Zenon DEF WOps
<1>. QED
  BY <1>0, <1>2, <1>4, WRestores, Zenon

\* The end of restoreAllSystemdIODeviceWeights.
LEMMA WFinishesRestore ==
    ASSUME WIInv, W!FinishRestore
    PROVE  WIInv'
<1>0. /\ wMgr \in WManagers /\ wLease \in [Users -> WLeases] /\ wMoves \in Nat /\ wFaults \in Nat
      /\ wOp.at = "restore" /\ WTypes /\ wOp.then \in WThens
      /\ wMgr.state = "intervention" => wMgr.selector = wCfg.selector
  BY Zenon DEF WIInv, WTypes, WOps, WControl, Stopped, W!FinishRestore
<1>1. WFrame
  BY <1>0, Zenon DEF W!FinishRestore, W!host, W!NoFault, WFrame
<1>2. wOp.then.retry \in BOOLEAN /\ wOp.then.state \in WStates \cup {""}
  BY <1>0, Zenon DEF WThens
<1>3. \/ W!RestoreFailed
      \/ wMgr' = W!Reset(wMgr) /\ W!End(wOp.then.retry)
      \/ /\ wOp.then.state # ""
         /\ wMgr' = W!Published(W!Reset(wMgr), wOp.then.state, wMgr.device, FALSE, FALSE)
         /\ W!End(wOp.then.retry)
  BY Zenon DEF W!FinishRestore
<1>4. CASE wMgr' = W!Reset(wMgr) /\ W!End(wOp.then.retry)
  BY <1>0, <1>1, <1>2, <1>4, WReset, WDueTypes, WEnds, Zenon
<1>5. CASE /\ wOp.then.state # ""
           /\ wMgr' = W!Published(W!Reset(wMgr), wOp.then.state, wMgr.device, FALSE, FALSE)
           /\ W!End(wOp.then.retry)
  <2>1. /\ wOp.then.state \in WStates /\ W!Reset(wMgr) \in WManagers /\ FALSE \in BOOLEAN
        /\ wMgr.device \in Hosts \cup {W!NoDevice}
    BY <1>0, <1>2, <1>5, WReset, Zenon DEF WManagers
  <2>2. wMgr' \in WManagers /\ wMgr'.selector = wCfg.selector
    BY <1>0, <1>5, <2>1, WPublished
  <2>. QED
    BY <1>0, <1>1, <1>2, <1>5, <2>2, WDueTypes, WEnds, Zenon
<1>. QED
  BY <1>0, <1>1, <1>3, <1>4, <1>5, WRestoreFails, Zenon

\* Operations of others on the same leases, between attempts and cycles.
LEMMA WOthers ==
    ASSUME WIInv, W!ReconcileByCPU \/ W!Deactivate
    PROVE  WIInv'
<1>0. /\ wMgr \in WManagers /\ wDue \in WDues /\ wLease \in [Users -> WLeases]
      /\ wMoves \in Nat /\ wFaults \in Nat /\ W!NoLease \in WLeases
      /\ W!Current \in [Users -> WLeases]
      /\ wMgr.state = "intervention" => wMgr.selector = wCfg.selector
  BY WStart, WCurrent, Zenon DEF WIInv, WTypes, WControl, Stopped
<1>1. wOp' = W!NoOp /\ wDue' = wDue
  BY Zenon DEF W!ReconcileByCPU, W!Deactivate, W!Idle
<1>2. wLease' \in [Users -> WLeases]
  <2>1. \/ wLease' = W!Current \/ wLease' = [u \in Users |-> W!NoLease]
        \/ \E kept \in SUBSET W!Leased :
              wLease' = [u \in Users |-> IF u \in kept THEN wLease[u] ELSE W!NoLease]
    BY Zenon DEF W!ReconcileByCPU, W!Deactivate
  <2>. QED
    BY <1>0, <2>1, Zenon
<1>3. WFrame
  <2>1. UNCHANGED <<wSlice, wCovered, wDevice, wCfg>> /\ (W!NoFault \/ W!Fault \/ W!Move)
    BY Zenon DEF W!ReconcileByCPU, W!Deactivate, W!host
  <2>. QED
    BY <1>0, <1>2, <2>1 DEF WFrame, W!NoFault, W!Fault, W!Move
<1>4. /\ wMgr' \in WManagers /\ wMgr'.state = wMgr.state /\ wMgr'.selector = wMgr.selector
  <2>1. \/ wMgr' = wMgr
        \/ wMgr' = [wMgr EXCEPT !.units = [u \in Users |-> 0], !.programmed = FALSE, !.readback = FALSE]
    BY Zenon DEF W!ReconcileByCPU, W!Deactivate
  <2>2. [u \in Users |-> 0] \in [Users -> Nat]
    BY Zenon
  <2>. QED
    BY <1>0, <2>1, <2>2 DEF WManagers
<1>. QED
  BY <1>0, <1>1, <1>3, <1>4, WEnds, Zenon

\* UpdateConfig
LEMMA WUpdated ==
    ASSUME NEW m \in WManagers, NEW selector \in Selectors
    PROVE  W!Updated(m, selector) \in WManagers
<1> DEFINE had == m.programmed \/ \E u \in Users : m.units[u] > 0
           state == IF selector # "" THEN "pending" ELSE IF had THEN "release_pending" ELSE "disabled"
<1>1. /\ had \in BOOLEAN /\ state \in WStates /\ selector \in Selectors \cup {""}
      /\ W!NoDevice \in Hosts \cup {W!NoDevice}
  BY Zenon DEF WManagers, WStates
<1> DEFINE changed == [m EXCEPT !.device = W!NoDevice, !.selector = selector, !.programmed = had,
                                !.readback = FALSE, !.state = state, !.attempts = 0, !.cycles = 0]
<1>2. W!Updated(m, selector) = m \/ W!Updated(m, selector) = changed
  BY Zenon DEF W!Updated
<1> HIDE DEF had, state
<1>3. changed \in WManagers
  BY <1>1, Zenon DEF WManagers
<1>. QED
  BY <1>2, <1>3, Zenon

\* PublishIODeviceWeightPolicy ends an intervention.
LEMMA WPolicy ==
    ASSUME NEW m \in WManagers, NEW c \in WConfigs
    PROVE  W!WithPolicy(m, c) \in WManagers /\ W!WithPolicy(m, c).state # "intervention"
<1> DEFINE state == IF m.state = "accepted" THEN m.state ELSE "pending"
           queued == IF m.policy # c.policy /\ c.selector # ""
                     THEN [m EXCEPT !.pending = TRUE, !.state = state]
                     ELSE m
           next == IF c.selector # "" THEN "pending" ELSE "release_pending"
<1>0. /\ state \in {"accepted", "pending"} /\ next \in {"pending", "release_pending"}
      /\ W!NoDevice \in Hosts \cup {W!NoDevice}
  BY Zenon
<1>1. queued \in WManagers
  BY <1>0 DEF WManagers, WStates
<1>2. m.policy = c.policy => queued = m
  BY Zenon
<1>3. W!WithPolicy(m, c) =
        CASE m.policy = c.policy /\ m.state # "intervention" -> m
          [] queued.state = "intervention" ->
               [queued EXCEPT !.policy = c.policy, !.device = W!NoDevice, !.readback = FALSE,
                              !.state = next, !.attempts = 0, !.cycles = 0]
          [] OTHER -> [queued EXCEPT !.policy = c.policy]
  BY Zenon DEF W!WithPolicy
<1>4. c.policy \in Policies
  BY Zenon DEF WConfigs
<1> HIDE DEF state, queued, next
<1>5. CASE m.policy = c.policy /\ m.state # "intervention"
  <2>1. W!WithPolicy(m, c) = m
    BY <1>2, <1>3, <1>5, Zenon
  <2>. QED
    BY <1>5, <2>1, Zenon
<1>6. CASE queued.state = "intervention"
  <2> DEFINE ended == [queued EXCEPT !.policy = c.policy, !.device = W!NoDevice, !.readback = FALSE,
                                     !.state = next, !.attempts = 0, !.cycles = 0]
  <2>1. W!WithPolicy(m, c) = ended
    BY <1>2, <1>3, <1>6, Zenon
  <2>2. next \in WStates /\ next # "intervention"
    BY <1>0, Zenon DEF WStates
  <2>3. ended \in WManagers
    BY <1>0, <1>1, <1>4, <2>2, Zenon DEF WManagers
  <2>4. ended.state = next
    BY <1>1, Zenon DEF WManagers
  <2>. QED
    BY <2>1, <2>2, <2>3, <2>4, Zenon
<1>7. CASE queued.state # "intervention" /\ ~(m.policy = c.policy /\ m.state # "intervention")
  <2>1. W!WithPolicy(m, c) = [queued EXCEPT !.policy = c.policy]
    BY <1>3, <1>7, Zenon
  <2>. QED
    BY <1>1, <1>4, <1>7, <2>1, Zenon DEF WManagers
<1>. QED
  BY <1>5, <1>6, <1>7, Zenon

\* A reload.
LEMMA WReloads ==
    ASSUME WIInv, W!Reload
    PROVE  WIInv' /\ wMgr'.state # "intervention" /\ wDue'.reload
<1>0. /\ wMgr \in WManagers /\ wDue \in WDues /\ wMoves \in Nat /\ wFaults \in Nat /\ WTypes
  BY Zenon DEF WIInv, WTypes
<1>1. /\ wCfg' \in WConfigs /\ wMgr' = W!WithPolicy(W!Updated(wMgr, wCfg'.selector), wCfg')
      /\ wDue' = [wDue EXCEPT !.reload = TRUE] /\ wOp' = W!NoOp
      /\ UNCHANGED <<wSlice, wCovered, wDevice, wLease>> /\ W!Move
  BY Zenon DEF W!Reload, WConfigs, W!Idle
<1>2. wCfg'.selector \in Selectors
  BY <1>1, Zenon DEF WConfigs
<1>3. W!Updated(wMgr, wCfg'.selector) \in WManagers
  BY <1>0, <1>2, WUpdated, Zenon
<1>4. wMgr' \in WManagers /\ wMgr'.state # "intervention"
  BY <1>1, <1>3, WPolicy, Zenon
<1>5. wDue' \in WDues /\ wDue'.reload
  BY <1>0, <1>1, Zenon DEF WDues
<1>6. wMoves' \in Nat /\ wFaults' \in Nat
  BY <1>0, <1>1 DEF W!Move
<1>7. WTypes'
  BY <1>0, <1>1, <1>4, <1>5, <1>6, WStart, Zenon DEF WTypes
<1>8. WControl' /\ WExact'
  BY <1>1, <1>4, WStart, Zenon DEF WControl, Stopped, WExact, Weighted
<1>. QED
  BY <1>4, <1>5, <1>7, <1>8, Zenon DEF WIInv

\* newDisabledIODeviceWeightStatus
LEMMA WNewManager ==
    ASSUME wCfg \in WConfigs, NEW leases \in [Users -> WLeases]
    PROVE  W!NewManager(leases) \in WManagers /\ W!NewManager(leases).state = "disabled"
<1> DEFINE some == \E u \in Users : leases[u] # W!NoLease
           units == [u \in Users |-> leases[u].inv]
<1>1. /\ some \in BOOLEAN /\ units \in [Users -> Nat] /\ wCfg.policy \in Policies /\ "disabled" \in WStates
      /\ "" \in Selectors \cup {""} /\ W!NoDevice \in Hosts \cup {W!NoDevice}
  BY Zenon DEF WLeases, WConfigs, WStates
<1> DEFINE new == [state |-> "disabled", selector |-> "", programmed |-> some, readback |-> FALSE,
                   device |-> W!NoDevice, policy |-> wCfg.policy, pending |-> FALSE,
                   units |-> units, attempts |-> 0, cycles |-> 0]
<1>2. W!NewManager(leases) = new
  BY Zenon DEF W!NewManager
<1> HIDE DEF some, units
<1>3. new.state = "disabled"
  BY Zenon
<1>4. new \in WManagers
  BY <1>1, Zenon DEF WManagers
<1>. QED
  BY <1>2, <1>3, <1>4, Zenon

\* A restart.
LEMMA WRestarts ==
    ASSUME WIInv, W!Restart
    PROVE  WIInv' /\ wMgr'.state = "disabled" /\ wDue'.reload
<1>0. /\ wLease \in [Users -> WLeases] /\ W!Current \in [Users -> WLeases] /\ wMoves \in Nat /\ wFaults \in Nat
      /\ wCfg \in WConfigs
  BY WCurrent, Zenon DEF WIInv, WTypes
<1>1. /\ wMgr' = W!NewManager(wLease') /\ wDue' = [timer |-> FALSE, reload |-> TRUE] /\ wOp' = W!NoOp
      /\ wLease' \in {wLease, W!Current} /\ UNCHANGED <<wSlice, wCovered, wDevice, wCfg>> /\ W!Move
  BY Zenon DEF W!Restart, W!host
<1>2. WFrame
  BY <1>0, <1>1 DEF WFrame, W!Move
<1>3. wMgr' \in WManagers /\ wMgr'.state = "disabled"
  <2>1. wLease' \in [Users -> WLeases]
    BY <1>0, <1>1, Zenon
  <2>. QED
    BY <1>0, <1>1, <2>1, WNewManager, Zenon
<1>4. wDue' \in WDues /\ wDue'.reload
  BY <1>1, Zenon DEF WDues
<1>. QED
  BY <1>1, <1>2, <1>3, <1>4, WEnds, Zenon

\* Users, slices and the device change by themselves.
LEMMA WEnvironment ==
    ASSUME WIInv, W!Environment
    PROVE  WIInv'
<1>0. /\ wSlice \in [Users -> Nat] /\ wCovered \in SUBSET Users /\ wDevice \in Hosts /\ wMgr \in WManagers
      /\ wMoves \in Nat /\ wFaults \in Nat /\ WTypes
  BY Zenon DEF WIInv, WTypes
<1>1. UNCHANGED <<wLease, wCfg, wMgr, wDue, wOp>> /\ wMoves' \in Nat /\ wFaults' \in Nat
  BY <1>0 DEF W!Environment, W!ChangeDevice, W!LogOut, W!LogIn, W!Cover, W!Move
<1>2. wCovered' \in SUBSET Users /\ wDevice' \in Hosts
  BY <1>0, Zenon DEF W!Environment, W!ChangeDevice, W!LogOut, W!LogIn, W!Cover
<1>3. \/ wSlice' = wSlice
      \/ \E u \in Users : wSlice' = [wSlice EXCEPT ![u] = 0]
      \/ \E u \in Users, inv \in 1 .. WInv : wSlice' = [wSlice EXCEPT ![u] = inv] /\ inv > wMgr.units[u]
  BY Zenon DEF W!Environment, W!ChangeDevice, W!LogOut, W!LogIn, W!Cover
<1>4. wMgr.units \in [Users -> Nat]
  BY <1>0, Zenon DEF WManagers
<1>5. wSlice' \in [Users -> Nat]
  BY <1>0, <1>3, <1>4
<1>6. \A v \in Users : wMgr.units[v] > 0 /\ wSlice[v] # wMgr.units[v] => wSlice'[v] # wMgr.units[v]
  BY <1>0, <1>3, <1>4
<1>7. WTypes' /\ WControl'
  BY <1>0, <1>1, <1>2, <1>5, Zenon DEF WIInv, WTypes, WControl
<1>8. wOp.plan \in SUBSET Users
  BY <1>0, Zenon DEF WTypes, WOps
<1>9. WExact'
  BY <1>1, <1>6, <1>8, Zenon DEF WIInv, WExact, Weighted
<1>. QED
  BY <1>7, <1>9, Zenon DEF WIInv

\* What a step of the weights may be.
LEMMA WSteps ==
    ASSUME [LimitsNext]_allVars
    PROVE  \/ UNCHANGED W!vars
           \/ W!Environment \/ W!Attempt \/ W!Cycle \/ W!Cancel \/ W!ReconcileByCPU \/ W!Deactivate
           \/ W!Reload \/ W!Restart
           \/ W!Reconfirm \/ W!ClassifyStep \/ W!Probe \/ W!Accept
           \/ W!CycleConfirm \/ W!Discover \/ W!ConfirmTopology \/ W!ReadBack \/ W!FinishCycle
           \/ W!ReconcileOwned \/ W!FinishRestore
           \/ \E u \in Users : W!Apply(u) \/ W!RestoreStale(u) \/ W!Restore(u)
<1>1. UNCHANGED W!vars \/ W!HNext
  BY Zenon DEF LimitsNext, Limit, Weigh, allVars, weights, W!vars
<1>2. W!HNext => \/ UNCHANGED W!vars
                 \/ W!Environment \/ W!Attempt \/ W!Cycle \/ W!Cancel \/ W!ReconcileByCPU \/ W!Deactivate
                 \/ W!Reload \/ W!Restart \/ W!Step
  BY Zenon DEF W!HNext, W!HWork, W!HCycle, W!Disturb, W!Settle
<1>. QED
  BY Zenon, <1>1, <1>2 DEF W!Step

\* The invariant holds at the start.
LEMMA WInit ==
    ASSUME LimitsInit
    PROVE  WIInv
<1>1. W!Init
  BY Zenon DEF LimitsInit, W!HInit
<1>2. /\ wSlice = [u \in Users |-> 1] /\ wCovered = Users /\ wDevice \in Hosts
      /\ wLease = [u \in Users |-> W!NoLease] /\ wCfg \in WConfigs /\ wMgr = W!NewManager(wLease)
      /\ wDue = [timer |-> FALSE, reload |-> TRUE] /\ wOp = W!NoOp /\ wMoves = 0 /\ wFaults = 0
  BY <1>1, Zenon DEF W!Init, WConfigs
<1>3. wLease \in [Users -> WLeases]
  BY <1>2, WStart, Zenon
<1>4. wMgr \in WManagers /\ wMgr.state = "disabled"
  BY <1>2, <1>3, WNewManager, Zenon
<1>5. WTypes
  BY <1>2, <1>3, <1>4, WStart, Zenon DEF WTypes, WDues
<1>6. WControl /\ WExact
  BY <1>2, <1>4, WStart, Zenon DEF WControl, Stopped, WExact, Weighted
<1>. QED
  BY <1>5, <1>6, Zenon DEF WIInv

\* Every step keeps it.
LEMMA WStep ==
    ASSUME WIInv, [LimitsNext]_allVars
    PROVE  WIInv'
<1>1. CASE UNCHANGED W!vars
  BY <1>1, Zenon DEF W!vars, WIInv, WTypes, WControl, WExact
<1>2. ASSUME NEW u \in Users, W!Apply(u) \/ W!RestoreStale(u) \/ W!Restore(u)
      PROVE  WIInv'
  BY <1>2, WApplies, WRestoresStale, WRestoresOne, Zenon
<1>. QED
  BY <1>1, <1>2, WSteps, WEnvironment, WAttempts, WCycles, WCancels, WOthers, WReloads, WRestarts,
     WAttemptSteps, WCycleSteps, WReadsBack, WFinishes, WReconcilesOwned, WFinishesRestore, Zenon

\* A cycle that ends well has left exactly the weights of its sample.
LEMMA WSuccess ==
    ASSUME WIInv, [LimitsNext]_allVars
    PROVE  W!WeightsExactStep
<1> SUFFICES ASSUME wOp.at = "stale", wOp' = W!NoOp, wMgr'.state = "accepted"
             PROVE  /\ \A u \in wOp.plan : wLease'[u] = [inv |-> wOp.seen[u], policy |-> wMgr.policy]
                    /\ \A u \in Users \ wOp.plan : wMgr.units[u] > 0 => wLease'[u] = W!NoLease
  BY Zenon DEF W!WeightsExactStep
<1>0. wOp \in WOps /\ wOp # W!NoOp /\ wOp'.at = "idle" /\ wOp.at = "stale"
  BY WStart, Zenon DEF WIInv, WTypes
<1>1. W!FinishCycle
  <2>1. ~UNCHANGED W!vars /\ ~W!Environment
    BY <1>0, Zenon DEF W!vars, W!Environment, W!ChangeDevice, W!LogOut, W!LogIn, W!Cover
  <2>2. ~(W!Attempt \/ W!Cycle \/ W!ReconcileByCPU \/ W!Deactivate \/ W!Reload)
    BY <1>0, Zenon DEF W!Attempt, W!Cycle, W!ReconcileByCPU, W!Deactivate, W!Reload, W!Idle
  <2>3. ~W!Restart
    BY WRestarts, Zenon
  <2>4. ~(W!Cancel \/ W!Reconfirm \/ W!ClassifyStep \/ W!Probe \/ W!Accept)
    BY <1>0, Zenon DEF W!Cancel, W!Reconfirm, W!ClassifyStep, W!Probe, W!Accept
  <2>5. ~(W!CycleConfirm \/ W!Discover \/ W!ConfirmTopology \/ W!ReadBack \/ W!ReconcileOwned \/ W!FinishRestore)
    BY <1>0, Zenon DEF W!CycleConfirm, W!Discover, W!ConfirmTopology, W!ReadBack, W!ReconcileOwned, W!FinishRestore
  <2>6. ASSUME NEW u \in Users
        PROVE  ~(W!Apply(u) \/ W!RestoreStale(u) \/ W!Restore(u))
    <3>1. ~(W!Apply(u) \/ W!Restore(u))
      BY <1>0, Zenon DEF W!Apply, W!Restore
    <3>2. W!RestoreStale(u) => \/ wOp' = [wOp EXCEPT !.todo = wOp.todo \ {u}]
                               \/ wOp' = [wOp EXCEPT !.todo = wOp.todo \ {u}, !.clean = FALSE]
      BY Zenon DEF W!RestoreStale
    <3>3. W!RestoreStale(u) => wOp'.at = "stale"
      BY <1>0, <3>2, Zenon DEF WOps
    <3>. QED
      BY <1>0, <3>1, <3>3, Zenon
  <2>. QED
    BY <2>1, <2>2, <2>3, <2>4, <2>5, <2>6, WSteps, Zenon
<1>2. wOp.clean /\ wOp.todo = {} /\ wLease' = wLease
  <2>1. W!ReleaseFailed("intervention") => wOp'.at = "owned"
    BY <1>0, Zenon DEF W!ReleaseFailed, W!BeginRestore, WOps
  <2>. QED
    BY <1>0, <1>1, <2>1, Zenon DEF W!FinishCycle
<1>. QED
  BY <1>0, <1>2, Zenon DEF WIInv, WExact, Weighted, Weight

\* Only a reload or a restart ends an intervention.
LEMMA WSticks ==
    ASSUME WIInv, [LimitsNext]_allVars
    PROVE  W!InterventionSticksStep
<1> SUFFICES ASSUME wMgr.state = "intervention", wMgr'.state # "intervention"
             PROVE  wMoves' > wMoves /\ wDue'.reload
  BY Zenon DEF W!InterventionSticksStep
<1>0. /\ wMgr \in WManagers /\ wMoves \in Nat /\ wMgr' # wMgr /\ wOp.at \in {"idle", "owned", "restore"}
      /\ ~wOp.then.refuse /\ wOp.then.state = ""
  BY Zenon DEF WIInv, WTypes, WControl, Stopped, Quiescent
<1>1. wMgr' # W!Reset(wMgr)
  BY <1>0, WReset, Zenon
<1>2. CASE W!Reload
  <2>1. wMoves' > wMoves
    <3>1. wMoves' = wMoves + 1 /\ wMoves \in Nat
      BY <1>0, <1>2, Zenon DEF W!Reload, W!Move
    <3>. QED
      BY <3>1
  <2>2. wDue'.reload
    BY <1>2, WReloads, Zenon
  <2>. QED
    BY <2>1, <2>2, Zenon
<1>3. CASE W!Restart
  <2>1. wMoves' > wMoves
    <3>1. wMoves' = wMoves + 1 /\ wMoves \in Nat
      BY <1>0, <1>3, Zenon DEF W!Restart, W!Move
    <3>. QED
      BY <3>1
  <2>2. wDue'.reload
    BY <1>3, WRestarts, Zenon
  <2>. QED
    BY <2>1, <2>2, Zenon
<1>4. ~UNCHANGED W!vars /\ ~W!Environment
  BY <1>0, Zenon DEF W!vars, W!Environment, W!ChangeDevice, W!LogOut, W!LogIn, W!Cover
<1>5. ~(W!Attempt \/ W!Cycle \/ W!ReconcileByCPU \/ W!Cancel)
  BY <1>0, <1>1, Zenon DEF W!Attempt, W!Cycle, W!ReconcileByCPU, W!Cancel
<1>6. ~W!Deactivate
  <2>1. W!Deactivate => \/ wMgr' = wMgr
                        \/ wMgr' = [wMgr EXCEPT !.units = [u \in Users |-> 0], !.programmed = FALSE,
                                                !.readback = FALSE]
    BY Zenon DEF W!Deactivate
  <2>2. W!Deactivate => wMgr'.state = wMgr.state
    BY <1>0, <2>1, Zenon DEF WManagers
  <2>. QED
    BY <2>2, Zenon
<1>7. wOp.at \notin WAttempt \cup WCycle
  BY <1>0, Zenon DEF WAttempt, WCycle
<1>8. ~(W!Reconfirm \/ W!ClassifyStep \/ W!Probe \/ W!Accept)
  BY <1>7, Zenon DEF W!Reconfirm, W!ClassifyStep, W!Probe, W!Accept, WAttempt
<1>9. ~(W!CycleConfirm \/ W!Discover \/ W!ConfirmTopology \/ W!ReadBack \/ W!FinishCycle)
  BY <1>7, Zenon DEF W!CycleConfirm, W!Discover, W!ConfirmTopology, W!ReadBack, W!FinishCycle, WCycle
<1>10. ASSUME NEW u \in Users
       PROVE  ~(W!Apply(u) \/ W!RestoreStale(u) \/ W!Restore(u))
  BY <1>0, <1>7, Zenon DEF W!Apply, W!RestoreStale, W!Restore, WCycle
<1>11. ~(W!ReconcileOwned \/ W!FinishRestore)
  <2>1. W!RestoreFailed => wMgr' = wMgr
    BY Zenon, <1>0 DEF W!RestoreFailed
  <2>2. W!ReconcileOwned => wMgr' = wMgr
    BY <2>1, Zenon DEF W!ReconcileOwned
  <2>3. W!FinishRestore => wMgr' = wMgr \/ wMgr' = W!Reset(wMgr)
    BY <1>0, <2>1, Zenon DEF W!FinishRestore
  <2>. QED
    BY <1>0, <1>1, <2>2, <2>3, Zenon
<1>. QED
  BY <1>2, <1>3, <1>4, <1>5, <1>6, <1>8, <1>9, <1>10, <1>11, WSteps, Zenon

\* What publishIODeviceWeightCapabilityFailure leaves programmed.
LEMMA WGrace ==
    ASSUME WIInv, NEW state \in {"pending", "observation"}, NEW reason,
           W!CapabilityFailure(state, reason), wOp' = W!NoOp, wMgr'.programmed
    PROVE  wMgr.attempts = 0 /\ wMgr'.attempts = 1
<1> DEFINE grace == reason = "evidence_unavailable"
           attempts == IF ~grace THEN 0 ELSE IF wMgr.programmed THEN wMgr.attempts + 1 ELSE wMgr.attempts
           counted == [wMgr EXCEPT !.attempts = attempts]
           then == [W!NoThen EXCEPT !.state = state, !.refuse = TRUE, !.retry = TRUE]
<1>0. /\ wMgr \in WManagers /\ WTypes /\ wDevice \in Hosts \cup {W!NoDevice} /\ wOp \in WOps
      /\ wMgr.attempts \in Nat /\ wMgr.attempts + 1 \in Nat /\ state \in WStates /\ state # "accepted"
      /\ wOp'.at = "idle"
  <2>1. wMgr \in WManagers /\ WTypes /\ wDevice \in Hosts \cup {W!NoDevice} /\ wOp \in WOps /\ wOp'.at = "idle"
    BY WStart, Zenon DEF WIInv, WTypes
  <2>2. wMgr.attempts \in Nat
    BY <2>1, Zenon DEF WManagers
  <2>. QED
    BY <2>1, <2>2 DEF WStates
<1>1. IF wMgr.programmed /\ (~grace \/ attempts > 1)
      THEN W!BeginRestore(then) /\ wMgr' = counted
      ELSE wMgr' = W!Published(counted, state, wDevice, TRUE, FALSE) /\ W!EndAttempt(TRUE)
  BY Zenon DEF W!CapabilityFailure
<1> HIDE DEF grace
<1>2. attempts \in Nat
  BY <1>0, Zenon
<1>3. grace /\ wMgr.programmed => attempts = wMgr.attempts + 1
  BY Zenon
<1> HIDE DEF attempts
<1>4. counted \in WManagers /\ counted.programmed = wMgr.programmed /\ counted.attempts = attempts
  BY <1>0, <1>2, Zenon DEF WManagers
<1> HIDE DEF counted
<1> HIDE DEF then
<1>5. ~W!BeginRestore(then)
  <2>1. W!BeginRestore(then) => wOp'.at = "owned"
    BY <1>0, Zenon DEF W!BeginRestore, WOps
  <2>. QED
    BY <1>0, <2>1, Zenon
<1>6. wMgr' = W!Published(counted, state, wDevice, TRUE, FALSE) /\ ~(wMgr.programmed /\ (~grace \/ attempts > 1))
  BY <1>1, <1>5, Zenon
<1>7. wMgr.programmed /\ wMgr'.attempts = attempts
  BY <1>0, <1>4, <1>6, Zenon DEF W!Published, WManagers
<1>8. grace /\ attempts = wMgr.attempts + 1 /\ ~(attempts > 1)
  BY <1>3, <1>6, <1>7, Zenon
<1>. QED
  BY <1>0, <1>7, <1>8

\* Weights survive one attempt that does not accept the device, and no second.
LEMMA WGraceEnds ==
    ASSUME WIInv, [LimitsNext]_allVars
    PROVE  W!GraceEndsStep
<1> SUFFICES ASSUME wOp.kind = "attempt", wOp' = W!NoOp, wMoves' = wMoves, wMgr'.programmed,
                    wMgr'.state \notin {"intervention", "accepted"}
             PROVE  wMgr.attempts = 0 /\ wMgr'.attempts = 1
  BY Zenon DEF W!GraceEndsStep
<1>0. /\ wOp \in WOps /\ wOp # W!NoOp /\ wOp'.at = "idle" /\ wOp.kind = "attempt" /\ wMoves \in Nat
      /\ wOp.at \in {"owned", "restore"} \cup WAttempt /\ wMgr \in WManagers /\ wOp.at # "idle"
      /\ wOp.at \in {"owned", "restore"} => wOp.then.refuse
  BY WStart, Zenon DEF WIInv, WTypes, WControl, Placed
<1>1. ~UNCHANGED W!vars /\ ~W!Environment
  BY <1>0, Zenon DEF W!vars, W!Environment, W!ChangeDevice, W!LogOut, W!LogIn, W!Cover
<1>2. ~(W!Attempt \/ W!Cycle \/ W!ReconcileByCPU \/ W!Deactivate \/ W!Reload)
  BY <1>0, Zenon DEF W!Attempt, W!Cycle, W!ReconcileByCPU, W!Deactivate, W!Reload, W!Idle
<1>3. ~(W!Restart \/ W!Cancel)
  BY <1>0 DEF W!Restart, W!Cancel, W!Move
<1>4. wOp.at \notin WCycle
  BY <1>0, Zenon DEF WAttempt, WCycle
<1>5. ~(W!CycleConfirm \/ W!Discover \/ W!ConfirmTopology \/ W!ReadBack \/ W!FinishCycle)
  BY <1>4, Zenon DEF W!CycleConfirm, W!Discover, W!ConfirmTopology, W!ReadBack, W!FinishCycle, WCycle
<1>6. ASSUME NEW u \in Users
      PROVE  ~(W!Apply(u) \/ W!RestoreStale(u) \/ W!Restore(u))
  <2>1. ~(W!Apply(u) \/ W!RestoreStale(u))
    BY <1>4, Zenon DEF W!Apply, W!RestoreStale, WCycle
  <2>2. W!Restore(u) => /\ wOp.at = "restore"
                        /\ \/ wOp' = [wOp EXCEPT !.todo = wOp.todo \ {u}]
                           \/ wOp' = [wOp EXCEPT !.todo = wOp.todo \ {u}, !.clean = FALSE]
    BY Zenon DEF W!Restore
  <2>3. W!Restore(u) => wOp'.at = "restore"
    BY <1>0, <2>2, Zenon DEF WOps
  <2>. QED
    BY <1>0, <2>1, <2>3, Zenon
<1>7. ~(W!ReconcileOwned \/ W!FinishRestore)
  <2>1. ~(wOp.then.refuse /\ W!RestoreFailed)
    <3>1. wOp.then.refuse /\ W!RestoreFailed =>
            wMgr' = W!Published(wMgr, "intervention", wMgr.device, TRUE, wOp.then.readback)
      BY Zenon DEF W!RestoreFailed
    <3>2. wOp.then.refuse /\ W!RestoreFailed => wMgr'.state = "intervention"
      BY <1>0, <3>1, Zenon DEF W!Published, WManagers
    <3>. QED
      BY <3>2, Zenon
  <2>2. ~W!ReconcileOwned
    <3>1. ASSUME W!ReconcileOwned PROVE W!RestoreFailed /\ wOp.at = "owned"
      <4>1. wOp' = [wOp EXCEPT !.at = "restore", !.todo = {u \in Users : W!Current[u] # W!NoLease}, !.clean = TRUE]
            => wOp'.at = "restore"
        BY <1>0, Zenon DEF WOps
      <4>. QED
        BY <1>0, <3>1, <4>1, Zenon DEF W!ReconcileOwned
    <3>. QED
      BY <1>0, <2>1, <3>1, Zenon
  <2>3. ~W!FinishRestore
    <3>1. ASSUME W!FinishRestore
          PROVE  /\ wOp.at = "restore"
                 /\ \/ W!RestoreFailed \/ wMgr' = W!Reset(wMgr)
                    \/ wMgr' = W!Published(W!Reset(wMgr), wOp.then.state, wMgr.device, FALSE, FALSE)
      BY Zenon, <3>1 DEF W!FinishRestore
    <3>2. wMgr' # W!Reset(wMgr)
      BY <1>0, WReset, Zenon
    <3>3. wMgr' # W!Published(W!Reset(wMgr), wOp.then.state, wMgr.device, FALSE, FALSE)
      <4>1. W!Reset(wMgr) \in WManagers
        BY <1>0, WReset, Zenon
      <4>. QED
        BY <4>1, Zenon DEF W!Published, WManagers
    <3>. QED
      BY <1>0, <2>1, <3>1, <3>2, <3>3, Zenon
  <2>. QED
    BY <2>2, <2>3, Zenon
<1>8. W!Reconfirm \/ W!ClassifyStep \/ W!Probe \/ W!Accept
  BY <1>1, <1>2, <1>3, <1>5, <1>6, <1>7, WSteps, Zenon
<1>9. ~(W!EndAttempt(TRUE) /\
        \E r \in BOOLEAN : wMgr' = W!Published([wMgr EXCEPT !.pending = FALSE], "accepted", wMgr.device, TRUE, r))
  <2>1. [wMgr EXCEPT !.pending = FALSE] \in WManagers
    BY <1>0, Zenon DEF WManagers
  <2>. QED
    BY <2>1, Zenon DEF W!Published, WManagers
<1>10. ASSUME NEW state \in {"pending", "observation"}, NEW reason, W!CapabilityFailure(state, reason)
       PROVE  wMgr.attempts = 0 /\ wMgr'.attempts = 1
  BY <1>10, WGrace, Zenon
<1>11. ASSUME NEW at \in WAttempt, wOp' = [wOp EXCEPT !.at = at]
       PROVE  FALSE
  BY <1>0, <1>11, Zenon DEF WOps, WAttempt
<1>12. CASE W!Reconfirm
  BY <1>9, <1>10, <1>11, <1>12, Zenon DEF W!Reconfirm, WAttempt
<1>13. CASE W!ClassifyStep
  <2>1. \/ wOp' = [wOp EXCEPT !.at = "probe"]
        \/ W!CapabilityFailure("pending", W!Classify(<<W!Looked>>).reason)
        \/ W!CapabilityFailure("observation", W!Classify(<<W!Looked>>).reason)
    BY <1>13, Zenon DEF W!ClassifyStep
  <2>. QED
    BY <1>10, <1>11, <2>1, Zenon DEF WAttempt
<1>14. CASE W!Probe
  <2>1. ~W!ReleaseFailed("intervention")
    <3>1. W!ReleaseFailed("intervention") => wOp'.at = "owned"
      BY <1>0, Zenon DEF W!ReleaseFailed, W!BeginRestore, WOps
    <3>. QED
      BY <1>0, <3>1, Zenon
  <2>2. wOp' # [wOp EXCEPT !.at = "accept"]
    BY <1>11, Zenon DEF WAttempt
  <2>3. W!CapabilityFailure("pending", "evidence_unavailable")
    BY <1>14, <2>1, <2>2, Zenon DEF W!Probe
  <2>. QED
    BY <1>10, <2>3, Zenon
<1>15. CASE W!Accept
  <2>1. \/ /\ wMgr' = W!Published([wMgr EXCEPT !.pending = FALSE], "accepted", wMgr.device, TRUE, FALSE)
           /\ W!EndAttempt(TRUE)
        \/ LET change == W!Change(<<wMgr.device>>, <<W!Looked>>)
           IN W!CapabilityFailure(W!Loss(change), change)
    BY <1>15, Zenon DEF W!Accept
  <2>2. \A change : W!Loss(change) \in {"pending", "observation"}
    BY Zenon DEF W!Loss
  <2>. QED
    BY <1>9, <1>10, <2>1, <2>2, Zenon
<1>. QED
  BY <1>8, <1>12, <1>13, <1>14, <1>15, Zenon

\* A reconciliation of CPU, RAM and I/O limits, or a cycle of weighted I/O, that
\* reports no error has brought about the sample it was planned from, and no tracked
\* user keeps what it does not ask for: for any users, policies and devices, and any
\* number of logouts, reloads, restarts and failing calls.
THEOREM SuccessesAreExact == LimitsSpec => SuccessExact
<1>1. RIInv /\ WIInv /\ [LimitsNext]_allVars => RIInv' /\ WIInv'
  BY RStep, WStep, Zenon
<1>2. LimitsInit => RIInv /\ WIInv
  BY RInit, WInit, Zenon
<1>3. RIInv /\ WIInv /\ [LimitsNext]_allVars => [R!SuccessExactStep /\ W!WeightsExactStep]_allVars
  BY RSuccess, WSuccess, Zenon
<1>. QED
  BY <1>1, <1>2, <1>3, PTL DEF LimitsSpec, SuccessExact

\* A refusal of weighted I/O that needs intervention ends only with a reload or a
\* restart (interventionStopped), and for want of evidence the weights survive one
\* attempt and no second (publishIODeviceWeightCapabilityFailure): for any users,
\* policies and devices, and any number of reloads, restarts and failing calls.
THEOREM RefusalsAreHeld == LimitsSpec => RefusalsHold
<1>1. WIInv /\ [LimitsNext]_allVars => WIInv'
  BY WStep, Zenon
<1>2. LimitsInit => WIInv
  BY WInit, Zenon
<1>3. WIInv /\ [LimitsNext]_allVars => [W!InterventionSticksStep /\ W!GraceEndsStep]_allVars
  BY WSticks, WGraceEnds, Zenon
<1>. QED
  BY <1>1, <1>2, <1>3, PTL DEF LimitsSpec, RefusalsHold
=============================================================================
