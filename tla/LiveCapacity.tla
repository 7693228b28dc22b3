---------------------------- MODULE LiveCapacity ----------------------------
(***************************************************************************)
(* LiveCapacityProvider (internal/cpupoints/capacity.go): refreshes read   *)
(* the kernel's list of online CPUs and publish by compare-and-swap, under *)
(* the revision each of them drew before it read.                          *)
(***************************************************************************)
EXTENDS ParentQuota, FiniteSets

CONSTANTS
    Callers,        \* goroutines that refresh the capacity
    Pools,          \* pools of the policies they refresh for
    Lists,          \* lists the kernel may show
    MaxRevision,    \* bounds of the model
    MaxHotplugs

VARIABLES
    online,     \* the kernel's list, or Unreadable
    hotplugs,
    revision,   \* the last revision drawn
    state,      \* the versionedCapacityState the pointer refers to
    caller,     \* where each caller is in Refresh
    seen        \* history: the lists online since the caller's call

cvars == <<online, hotplugs, revision, state, caller, seen>>

\* Stands for a read of the list that fails.
Unreadable == <<Malformed, Malformed>>

\* readCapacityPlan
readCapacityPlan(list, pool) ==
    LET count == IF list = Unreadable THEN Refused("read_error") ELSE ParseOnlineCPUList(list)
    IN IF count.ok THEN PlanParentQuota(count.cpus, pool) ELSE count

Idle == [pc |-> "idle"]

Init ==
    /\ online \in Lists /\ hotplugs = 0
    /\ \E pool \in Pools :
         LET plan == readCapacityPlan(online, pool)
         IN plan.ok /\ state = [revision |-> 1, available |-> TRUE, verified |-> plan, reason |-> ""]
    /\ revision = 1
    /\ caller = [c \in Callers |-> Idle]
    /\ seen = [c \in Callers |-> {}]

\* Refresh draws its revision before it reads.
Refresh(c) ==
    /\ caller[c].pc = "idle" /\ revision < MaxRevision
    /\ revision' = revision + 1
    /\ \E pool \in Pools :
         caller' = [caller EXCEPT ![c] = [pc |-> "read", revision |-> revision', pool |-> pool]]
    /\ seen' = [seen EXCEPT ![c] = {online}]
    /\ UNCHANGED <<online, hotplugs, state>>

Read(c) ==
    /\ caller[c].pc = "read"
    /\ caller' = [caller EXCEPT ![c] = [pc |-> "load", revision |-> @.revision,
                                        plan |-> readCapacityPlan(online, @.pool)]]
    /\ UNCHANGED <<online, hotplugs, revision, state, seen>>

\* A failure keeps the last verified plan; a success replaces the state.
Candidate(c, current) ==
    LET plan == caller[c].plan
    IN IF plan.ok
         THEN [revision |-> caller[c].revision, available |-> TRUE, verified |-> plan, reason |-> ""]
         ELSE [current EXCEPT !.revision = caller[c].revision,
                              !.available = FALSE, !.reason = plan.reason]

Answered(c, answer) ==
    caller' = [caller EXCEPT ![c] = [pc |-> "answered", revision |-> @.revision, answer |-> answer]]

\* The mutant publishes whatever it read, however late.
LateLoad(c) ==
    /\ caller[c].pc = "load"
    /\ caller' = [caller EXCEPT ![c] = [pc |-> "swap", revision |-> @.revision,
                                        plan |-> @.plan, current |-> state]]
    /\ UNCHANGED <<online, hotplugs, revision, state, seen>>

\* publish: the load of the pointer.
Load(c) ==
    /\ caller[c].pc = "load"
    /\ IF state.revision >= caller[c].revision
         THEN Answered(c, state)
         ELSE caller' = [caller EXCEPT ![c] = [pc |-> "swap", revision |-> @.revision,
                                               plan |-> @.plan, current |-> state]]
    /\ UNCHANGED <<online, hotplugs, revision, state, seen>>

\* publish: the compare-and-swap, and another turn of the loop when it fails.
Swap(c) ==
    /\ caller[c].pc = "swap"
    /\ LET current == caller[c].current IN
         IF state = current
           THEN state' = Candidate(c, current) /\ Answered(c, state')
           ELSE /\ caller' = [caller EXCEPT ![c] = [pc |-> "load", revision |-> @.revision,
                                                    plan |-> @.plan]]
                /\ UNCHANGED state
    /\ UNCHANGED <<online, hotplugs, revision, seen>>

Return(c) ==
    /\ caller[c].pc = "answered"
    /\ caller' = [caller EXCEPT ![c] = Idle]
    /\ seen' = [seen EXCEPT ![c] = {}]
    /\ UNCHANGED <<online, hotplugs, revision, state>>

\* The kernel brings CPUs online or offline, or sysfs fails.
Hotplug ==
    /\ hotplugs < MaxHotplugs /\ hotplugs' = hotplugs + 1
    /\ online' \in (Lists \cup {Unreadable}) \ {online}
    /\ seen' = [c \in Callers |-> IF caller[c].pc = "idle" THEN {} ELSE seen[c] \cup {online'}]
    /\ UNCHANGED <<revision, state, caller>>

Next == Hotplug \/ \E c \in Callers : Refresh(c) \/ Read(c) \/ Load(c) \/ Swap(c) \/ Return(c)

Spec == Init /\ [][Next]_cvars

-----------------------------------------------------------------------------
\* What a reader of the list would say: the CPUs it names, counted once each.
Named(list) == UNION {list[i][1]..list[i][2] : i \in DOMAIN list}

Trustworthy(list) ==
  /\ list # <<>> /\ \A i \in DOMAIN list : list[i] # Malformed
  /\ \A i \in DOMAIN list : list[i][1] <= list[i][2]

\* The published state is never older than one that a Refresh has answered with:
\* a slow read does not undo a later one (publish).
NewestWins ==
  \A c \in Callers : caller[c].pc = "answered" =>
     /\ caller[c].answer.revision <= state.revision
     /\ caller[c].answer.revision = state.revision => caller[c].answer = state

\* The answer of a Refresh is what the list said at some moment of that call,
\* although another caller may have read it: the CPUs it named, or that it could
\* not be used (Refresh, publish).
AnswerIsFresh ==
  \A c \in Callers : caller[c].pc = "answered" =>
     LET a == caller[c].answer IN
     IF a.available
       THEN \E l \in seen[c] : Trustworthy(l) /\ Cardinality(Named(l)) = a.verified.cpus
       ELSE \E l \in seen[c] : ~\E p \in Pools : readCapacityPlan(l, p).ok

\* The quota kept as last verified is the pool's share of the CPUs it was derived
\* from, rounded down, with no carry lost in 64 bits, and one the kernel accepts;
\* a failed read leaves it in place (floorScaledQuota, CapacityState).
QuotaIsExact ==
  LET v == state.verified IN
  /\ v.quota = (v.cpus * Period * v.pool) \div TotalPoints
  /\ v.quota \in MinQuota..MaxUint
=============================================================================
