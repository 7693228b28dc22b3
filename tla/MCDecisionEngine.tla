-------------------------- MODULE MCDecisionEngine --------------------------
(***************************************************************************)
(* DecisionEngine for TLC, with the history its properties are about: how  *)
(* long ago each enforcement family was activated, and for how long every  *)
(* sample has shown I/O pressure.                                          *)
(***************************************************************************)
EXTENDS DecisionEngine

VARIABLES
    onset,  \* for each family, the age of its activation
    settled,\* whether only quiet samples and successful calls follow
    ioRun   \* age of the first of the latest unbroken I/O-over samples

hvars == <<onset, ioRun, settled>>

(* One sample for each case that makeDecision tells apart: it reads a user's own
   EMA only when every aggregate is below its release threshold, a high load of
   resman's own users only then, and an external one only before an activation. *)
MCSamples ==
    {s \in Sample :
        /\ s.ram # "between" /\ s.io # "between"
        /\ s.ram = "over" => s.cpu # "between"
        /\ s.incomplete => s.io = "below"
        /\ s.calm # {} => AllBelow(s)
        /\ s.load = "own" => AllBelow(s)
        /\ s.load = "external" => "over" \in {s.cpu, s.ram, s.io}}

-----------------------------------------------------------------------------

Families(l) == {f \in {"cpu", "resources"} : IF f = "cpu" THEN l.users # {} ELSE l.resources}

Onset(age, f) ==
    IF f \notin Families(limits)' THEN Unset
    ELSE IF f \in Families(limits) THEN age ELSE 0

HInit ==
    /\ Init
    /\ onset = [f \in {"cpu", "resources"} |-> Unset]
    /\ ioRun = Unset
    /\ settled = FALSE

(* Nothing keeps the limits in place any more: every sample is calm, the adapter
   does what it is asked to, and nobody forces an activation. *)
Quiet(s) == AllBelow(s) /\ s.calm = Users /\ ~UnderLoad(s)

HStep ==
    /\ \/ StartCycle /\ (settled => limits' = limits)
       \/ ExecuteDecision /\ (settled => limits' = IF run = Deactivate THEN NoLimits ELSE limits)
       \/ ~settled /\ (CheckBlackout \/ CancelCycle \/ ForceActivateLimits \/ ForceDeactivateLimits)
    /\ onset' = [f \in DOMAIN onset |-> Onset(onset[f], f)]
    /\ UNCHANGED <<ioRun, settled>>

HDecision(s) ==
    /\ settled => Quiet(s)
    /\ MakeDecision(s)
    /\ ioRun' = IF s.io = "over" THEN Started(ioRun) ELSE Unset
    /\ UNCHANGED <<onset, settled>>

HTick ==
    /\ Tick
    /\ onset' = [f \in DOMAIN onset |-> Older(onset[f])]
    /\ ioRun' = Older(ioRun)
    /\ UNCHANGED settled

Settle ==
    /\ ~settled
    /\ settled' = TRUE
    /\ UNCHANGED <<vars, onset, ioRun>>

HCycle == HStep \/ \E s \in MCSamples : HDecision(s)

HNext == HCycle \/ HTick \/ Settle

(* The ticker keeps starting cycles, a cycle runs through its stages, and time
   passes. *)
HSpec ==
    /\ HInit
    /\ [][HNext]_<<vars, hvars>>
    /\ WF_<<vars, hvars>>(settled /\ HCycle)
    /\ WF_<<vars, hvars>>(HTick)

(* The minimum times are kept across episodes.  A release is decided only when
   every family that enforces something has done so for MIN_ACTIVE_TIME:
   makeDecision compares the newest activation time, and an activation of one
   family, a reconciliation that empties and refills the other, or a blackout in
   between must not let an old time stand for a new one.  Limits are activated for
   I/O alone only after every decision sample of the last IO_THRESHOLD_DURATION
   showed I/O pressure, whichever cycles ended early in between. *)
DurationsKept ==
    /\ run = Deactivate => \A f \in Families(limits) : onset[f] >= MinActive
    /\ run = Activate({"io"}) => ioRun >= IODuration

(* Once every sample is calm and the adapter answers, the limits are released and
   stay released: no tracker or activation time left over from earlier episodes
   makes makeDecision maintain them for ever. *)
Released == settled ~> [](run = Idle => ~AnyLimits(limits))

=============================================================================
