------------------------------ MODULE PointsPlan ------------------------------
(***************************************************************************)
(* From the CPU Points map to the weights of the user slices: the map is   *)
(* parsed, its names resolved and its points totalled into a policy        *)
(* (internal/cpupoints/policy.go, policy_file.go), and the policy divided  *)
(* among the active slices (flat_plan.go).                                 *)
(***************************************************************************)
EXTENDS ParentQuota, FiniteSets, FiniteSetsExt

CONSTANTS
    MaxWeight,      \* MaximumKernelCPUWeight
    MaxReserve,     \* 990: the largest reserve
    MaxEntries,     \* MaximumPolicyMapEntries
    Inputs,         \* [reserve, root, bestEffort] of the configuration
    Maps,           \* policy maps, as sequences of lines
    Services,       \* what NSS answers: functions from names to identities
    Uids,           \* uids of user slices; 0 is root's
    Counts          \* numbers of online CPUs

VARIABLES
    source,   \* [inputs, map, nss] before the load, then NoSource
    policy,   \* the snapshot, a refusal, or NoPolicy
    plan      \* the plan, a refusal, or NoPlan

pvars == <<source, policy, plan>>

NoSource == [none |-> TRUE]
NoPolicy == [none |-> TRUE]
NoPlan == [none |-> TRUE]

\* The lines of a map.  Comments and empty lines are Skipped; Unread is any line
\* that breaks the grammar, and an entry may have any number of points.
Marker == [kind |-> "marker"]
Skipped == [kind |-> "skipped"]
Unread == [kind |-> "unread"]
Entry(name, points) == [kind |-> "entry", name |-> name, points |-> points]

Entries(map) == SelectSeq(map, LAMBDA line : line.kind = "entry")

parsePolicyMap(map) ==
    /\ map # <<>> /\ map[1] = Marker
    /\ \A i \in 2..Len(map) : map[i] \notin {Marker, Unread}
    /\ LET e == Entries(map) IN
         /\ Len(e) <= MaxEntries
         /\ \A i \in DOMAIN e : e[i].points \in 1..TotalPoints
         /\ \A i, j \in DOMAIN e : e[i].name = e[j].name => i = j

ConfiguredTotal(map) == FoldLeft(LAMBDA sum, line : sum + line.points, 0, Entries(map))

ParentPool(reserve) == TotalPoints - reserve

\* The mutant forgets the domain of the users without a guarantee.
UsersOvercommit(inputs, map) ==
    ConfiguredTotal(map) + inputs.root > ParentPool(inputs.reserve)

Overcommits(inputs, map) ==
    ConfiguredTotal(map) + inputs.root + inputs.bestEffort > ParentPool(inputs.reserve)

InRange(inputs) ==
    /\ inputs.reserve \in 0..MaxReserve
    /\ inputs.root \in 1..TotalPoints /\ inputs.bestEffort \in 1..TotalPoints

\* Every name has one exact identity, which is not root's, and no two share one.
ResolveExactUsername(map, nss) ==
    LET e == Entries(map) IN
    /\ \A i \in DOMAIN e : nss[e[i].name].name = e[i].name /\ nss[e[i].name].uid > 0
    /\ \A i, j \in DOMAIN e : nss[e[i].name].uid = nss[e[j].name].uid => i = j

Snapshot(inputs, map, nss) ==
    LET e == Entries(map)
        line(u) == CHOOSE i \in DOMAIN e : nss[e[i].name].uid = u
    IN [ok |-> TRUE, pool |-> ParentPool(inputs.reserve), root |-> inputs.root,
        bestEffort |-> inputs.bestEffort,
        guarantee |-> [u \in {nss[e[i].name].uid : i \in DOMAIN e} |-> e[line(u)].points]]

loadContent(inputs, map, nss) ==
    IF ~InRange(inputs) THEN Refused("range")
    ELSE IF ~parsePolicyMap(map) THEN Refused("syntax")
    ELSE IF Overcommits(inputs, map) THEN Refused("overcommit")
    ELSE IF ~ResolveExactUsername(map, nss) THEN Refused("identity")
    ELSE Snapshot(inputs, map, nss)

Entitlements(p) == {p.root, p.bestEffort} \cup {p.guarantee[u] : u \in DOMAIN p.guarantee}

maxExactEntitlement(p) == Max(Entitlements(p))

\* The active slices that share the best-effort weight.
BestEffort(p, active, eligible) ==
    {u \in active \ {0} : u \notin DOMAIN p.guarantee \/ u \notin eligible}

TooMany(slices, aggregate) == slices > aggregate

\* The remainder goes to the first leaves in the order of their uids.
Leaf(u, shared, aggregate) ==
    LET n == Cardinality(shared)
    IN aggregate \div n + (IF Cardinality({v \in shared : v < u}) < aggregate % n THEN 1 ELSE 0)

PlanFlatTopology(p, cpus, active, eligible) ==
    LET quota == PlanParentQuota(cpus, p.pool)
        scale == MaxWeight \div maxExactEntitlement(p)
        aggregate == p.bestEffort * scale
        shared == BestEffort(p, active, eligible)
        weight == [u \in active |-> IF u = 0 THEN p.root * scale
                                    ELSE IF u \in shared THEN Leaf(u, shared, aggregate)
                                    ELSE p.guarantee[u] * scale]
    IN IF ~quota.ok THEN Refused("capacity_unrepresentable")
       ELSE IF TooMany(Cardinality(shared), aggregate) THEN Refused("best_effort_cardinality")
       ELSE IF ~ \A w \in {aggregate} \cup {weight[u] : u \in active} : w \in 1..MaxWeight
              THEN Refused("capacity_unrepresentable")
       ELSE [ok |-> TRUE, quota |-> quota, shared |-> shared, weight |-> weight]

Sources == [inputs : Inputs, map : Maps, nss : Services]

Init ==
    /\ source \in Sources
    /\ policy = NoPolicy /\ plan = NoPlan

Load ==
    /\ source # NoSource
    /\ policy' = loadContent(source.inputs, source.map, source.nss)
    /\ source' = NoSource
    /\ UNCHANGED plan

\* An attempt with the slices that Discover found: unique uids, none negative,
\* and at least one eligible user besides root.
Plan ==
    /\ policy # NoPolicy /\ policy.ok /\ plan = NoPlan
    /\ \E cpus \in Counts, active \in SUBSET Uids : \E eligible \in SUBSET active :
         /\ eligible \ {0} # {}
         /\ plan' = [result |-> PlanFlatTopology(policy, cpus, active, eligible),
                     cpus |-> cpus, active |-> active, eligible |-> eligible]
    /\ UNCHANGED <<source, policy>>

Next == Load \/ Plan

Spec == Init /\ [][Next]_pvars

-----------------------------------------------------------------------------
Sum(f) == MapThenSumSet(LAMBDA u : f[u], DOMAIN f)

Host(cpus) == cpus * Period

\* A plan gives every class at least its points of the host, whoever else is
\* active: a guaranteed user and root at least theirs, and the users without a
\* guarantee together at least theirs.  It rests on the refusal of overcommitted
\* maps (loadContent), on the common scale and on the whole remainder being
\* handed out (PlanFlatTopology).
PointsAreHonoured ==
  plan # NoPlan /\ plan.result.ok =>
    LET w == plan.result.weight
        quota == plan.result.quota.quota
        worth(weight, points) ==
          weight * quota * TotalPoints >= points * Host(plan.cpus) * Sum(w)
        shared == plan.result.shared
    IN /\ \A u \in plan.active \ shared :
            worth(w[u], IF u = 0 THEN policy.root ELSE policy.guarantee[u])
       /\ shared # {} => worth(Sum([u \in shared |-> w[u]]), policy.bestEffort)
       /\ \A u, v \in shared : w[u] <= w[v] + 1

\* A plan is refused for the number of its best-effort slices only when no exact
\* scale could give each of them a weight, and every other plan is made
\* ("no smaller exact scale can do so").
RefusalIsForced ==
  plan # NoPlan =>
    LET n == Cardinality(BestEffort(policy, plan.active, plan.eligible))
        fits == \E s \in 1..MaxWeight : /\ \A p \in Entitlements(policy) : p * s \in 1..MaxWeight
                                        /\ n <= policy.bestEffort * s
    IN IF plan.cpus > MaxUint \div Period THEN plan.result = Refused("capacity_unrepresentable")
       ELSE IF fits THEN plan.result.ok
       ELSE plan.result = Refused("best_effort_cardinality")
=============================================================================
