-------------------------- MODULE IODeviceCapability --------------------------
(***************************************************************************)
(* What the read-only classifier of internal/systemdunit makes of a block  *)
(* device: whether one weight mechanism is active on it, and whether a     *)
(* later look still shows the same.                                        *)
(*                                                                         *)
(* A device is what the files show of it:                                  *)
(*   found  whether resolveDevice finds one approved request queue,        *)
(*   ctl    the io controller in cgroup.controllers,                       *)
(*   sched  BFQ in queue/scheduler,                                        *)
(*   cost   the device's line of io.cost.qos.                              *)
(***************************************************************************)
EXTENDS Naturals, Sequences

Found == {"ok", "missing", "unread", "ambiguous", "renamed"}
Controllers == {"yes", "no", "unread"}
Schedulers == {"absent", "unread", "none", "available", "selected"}
CostLines == {"absent", "unread", "off", "on", "malformed"}

(* inspectBFQ *)
BFQ(d) ==
    IF d.sched = "absent" THEN "unsupported"
    ELSE IF d.sched = "unread" \/ d.ctl = "unread" THEN "unavailable"
    ELSE IF d.sched = "none" \/ d.ctl = "no" THEN "unsupported"
    ELSE IF d.sched = "selected" THEN "active" ELSE "inactive"

(* inspectIOCost and ioCostEnabledForDevice *)
IOCost(d) ==
    IF d.ctl = "unread" \/ d.cost = "unread" THEN "unavailable"
    ELSE IF d.ctl = "no" \/ d.cost = "absent" THEN "unsupported"
    ELSE IF d.cost = "malformed" THEN "unavailable"
    ELSE IF d.cost = "on" THEN "active" ELSE "inactive"

(* deviceCapabilityFromError: what resolveDevice refuses. *)
Unresolved(d) ==
    CASE d.found = "ambiguous" -> [outcome |-> "ambiguous_topology", reason |-> "ambiguous_topology"]
      [] d.found = "missing" -> [outcome |-> "evidence_unavailable", reason |-> "device_missing"]
      [] d.found = "renamed" -> [outcome |-> "evidence_unavailable", reason |-> "device_identity_changed"]
      [] OTHER -> [outcome |-> "evidence_unavailable", reason |-> "evidence_unavailable"]

(* classifyResolvedDevice *)
Resolved(d) ==
    LET bfq == BFQ(d) cost == IOCost(d)
    IN IF "unavailable" \in {bfq, cost}
       THEN [outcome |-> "evidence_unavailable", reason |-> "evidence_unavailable"]
       ELSE IF {bfq, cost} = {"active"}
       THEN [outcome |-> "mechanism_ambiguous", reason |-> "mechanism_ambiguous"]
       ELSE IF "active" \in {bfq, cost} THEN [outcome |-> "probe_candidate", reason |-> ""]
       ELSE IF "inactive" \in {bfq, cost}
       THEN [outcome |-> "mechanism_inactive", reason |-> "no_active_mechanism"]
       ELSE [outcome |-> "unsupported", reason |-> "mechanism_unsupported"]

ClassifyDevice(d) == IF d.found = "ok" THEN Resolved(d) ELSE Unresolved(d)

Mechanism(d) ==
    IF ClassifyDevice(d).outcome # "probe_candidate" THEN "none"
    ELSE IF BFQ(d) = "active" THEN "bfq" ELSE "iocost"

(* aggregateIODeviceWeightCapability: the worst outcome, and the first device
   that has it. *)
Severity ==
    <<"ambiguous_topology", "mechanism_ambiguous", "unsupported", "evidence_unavailable", "mechanism_inactive">>

Classify(devices) ==
    LET outcome(i) == ClassifyDevice(devices[i]).outcome
        has(s) == \E i \in DOMAIN devices : outcome(i) = s
        worst == CHOOSE n \in DOMAIN Severity : has(Severity[n]) /\ \A k \in 1 .. n - 1 : ~has(Severity[k])
        first == CHOOSE i \in DOMAIN devices : outcome(i) = Severity[worst]
                                               /\ \A j \in 1 .. i - 1 : outcome(j) # Severity[worst]
    IN IF \A n \in DOMAIN Severity : ~has(Severity[n]) THEN [outcome |-> "probe_candidate", reason |-> ""]
       ELSE ClassifyDevice(devices[first])

Selected(d) == d.found = "ok" /\ d.sched = "selected"
CostOn(d) == d.found = "ok" /\ IOCost(d) = "active"

(* ioDeviceWeightDeviceCapabilitiesEquivalent, for a device that was a candidate:
   only the mechanism in use counts. *)
SameCapability(before, after) ==
    ClassifyDevice(before) = ClassifyDevice(after) /\ Mechanism(before) = Mechanism(after)

(* ioDeviceWeightSnapshotsEquivalent *)
Equivalent(previous, current) ==
    /\ Len(previous) = Len(current)
    /\ Classify(previous) = Classify(current)
    /\ \A i \in DOMAIN previous : SameCapability(previous[i], current[i])

(* classifyIODeviceWeightSnapshotChange: the reason of the first device that
   differs. *)
Change(previous, current) ==
    LET reason(b, a) ==
            IF a.found = "missing" THEN "device_missing"
            ELSE IF (b.found = "ok") # (a.found = "ok") THEN "device_identity_changed"
            ELSE IF Selected(b) # Selected(a) THEN "scheduler_changed"
            ELSE IF CostOn(b) # CostOn(a) THEN "iocost_changed"
            ELSE IF ~SameCapability(b, a) THEN "capability_changed" ELSE ""
        differ == {i \in DOMAIN previous : reason(previous[i], current[i]) # ""}
    IN IF differ = {} THEN "capability_changed"
       ELSE LET i == CHOOSE i \in differ : \A j \in differ : i <= j IN reason(previous[i], current[i])

=============================================================================
