----------------------------- MODULE ParentQuota -----------------------------
(***************************************************************************)
(* The arithmetic of CPU Points on 64-bit unsigned integers: the number of *)
(* CPUs in the kernel's online list and the quota of user.slice            *)
(* (internal/cpupoints/capacity.go, types.go).  MaxUint stands for         *)
(* math.MaxUint64; the other constants keep the proportions of the code.   *)
(***************************************************************************)
EXTENDS Integers, Sequences, SequencesExt

CONSTANTS
    TotalPoints,    \* 1000: the host
    Period,         \* ParentPeriodMicroseconds
    MinQuota,       \* MinimumParentQuotaMicroseconds
    MaxUint         \* math.MaxUint64

Wrap(n) == n % (MaxUint + 1)

Refused(reason) == [ok |-> FALSE, reason |-> reason]

\* The text of a segment that parseCPUSegment cannot read.
Malformed == <<>>

NewOnlineCPUCount(n) ==
    IF n = 0 THEN Refused("parse_error") ELSE [ok |-> TRUE, cpus |-> n]

\* One segment <<start, end>> of the list; previousEnd is -1 before the first.
ParseSegment(acc, seg) ==
    IF \/ ~acc.ok \/ seg = Malformed
       \/ seg[2] < seg[1]
       \/ seg[1] <= acc.previousEnd
       \/ seg[2] - seg[1] = MaxUint
       \/ acc.total > MaxUint - (seg[2] - seg[1] + 1)
      THEN [acc EXCEPT !.ok = FALSE]
      ELSE [acc EXCEPT !.total = Wrap(@ + (seg[2] - seg[1] + 1)), !.previousEnd = seg[2]]

ParseOnlineCPUList(list) ==
    LET end == FoldLeft(ParseSegment, [ok |-> TRUE, total |-> 0, previousEnd |-> -1], list)
    IN IF list # <<>> /\ end.ok THEN NewOnlineCPUCount(end.total) ELSE Refused("parse_error")

floorScaledQuota(capacity, points) ==
    Wrap(Wrap((capacity \div TotalPoints) * points)
           + Wrap((capacity % TotalPoints) * points) \div TotalPoints)

PlanParentQuota(cpus, pool) ==
    LET quota == floorScaledQuota(Wrap(cpus * Period), pool)
    IN IF cpus > MaxUint \div Period \/ quota < MinQuota THEN Refused("conversion_error")
       ELSE [ok |-> TRUE, pool |-> pool, cpus |-> cpus, quota |-> quota]
=============================================================================
