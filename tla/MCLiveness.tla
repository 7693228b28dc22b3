------------------------------ MODULE MCLiveness ------------------------------
(***************************************************************************)
(* What the property leases and the limit hooks must eventually do.  The   *)
(* two share no state, so one run explores each of them by itself: the     *)
(* focus, chosen at the start, is the component that moves.                *)
(***************************************************************************)
EXTENDS PropertyLeases

CONSTANTS u1, cpu, low, high
CONSTANTS Users, Workers, Stoppers, Cycle, Capacity, MaxJobs, NoJob, NoReading

VARIABLES
    focus,
    limited, hookPending, handled, issued, backlog, queue, closed, cancelled, at, job, ctx,
    leader, strays, outcome, stop, reading, gauge

Hooks == INSTANCE LimitHooks WITH pending <- hookPending

hookVars == <<limited, hookPending, handled, issued, backlog, queue, closed, cancelled, at, job,
              ctx, leader, strays, outcome, stop, reading, gauge>>
allVars == <<focus, vars, hookVars>>

LivenessInit == focus \in {"leases", "hooks"} /\ Init /\ Hooks!Init

Leasing(A) == focus = "leases" /\ A /\ UNCHANGED <<focus, hookVars>>
Hooking(A) == focus = "hooks" /\ A /\ UNCHANGED <<focus, vars>>

LivenessNext == Leasing(Next) \/ Hooking(Hooks!Next)

(* The fairness of each component, as its FairSpec has it, while it can move. *)
LivenessSpec ==
    /\ LivenessInit
    /\ [][LivenessNext]_allVars
    /\ WF_allVars(Leasing(Progress)) /\ WF_allVars(Leasing(Start)) /\ SF_allVars(Leasing(ReconcileOwned))
    /\ WF_allVars(Hooking(Hooks!EnqueueLimitHookJob \/ Hooks!ObserveEnqueue))
    /\ \A w \in Workers : WF_allVars(Hooking(Hooks!WorkerStep(w))) /\ WF_allVars(Hooking(Hooks!Deadline(w)))
    /\ \A s \in Stoppers : WF_allVars(Hooking(Hooks!Cancel(s) \/ Hooks!Return(s)))

(* Every job that was created comes to an end, and a caller of stopLimitHooks gets
   back, though scripts may run for ever and ignore SIGTERM. *)
HooksEnd == Hooks!JobsEnd /\ Hooks!StopReturns
=============================================================================
