----------------------------- MODULE EpochLock -----------------------------
(***************************************************************************)
(* What the configuration epoch barrier promises, without its mutex, its   *)
(* condition variable and its counter (the comment of Barrier in           *)
(* internal/configepoch/barrier.go): readers finish on the old epoch, none *)
(* enters during an update, and the new epoch is published atomically.     *)
(***************************************************************************)
EXTENDS Naturals

CONSTANTS Readers, Updaters

VARIABLES
    inside,   \* the readers of the current epoch
    claim,    \* the update that waits for them, if any
    owner     \* the update that replaces the configuration, if any

lockVars == <<inside, claim, owner>>

Init == inside = {} /\ claim = {} /\ owner = {}

Free == claim = {} /\ owner = {}

Enter(r) == Free /\ inside' = inside \cup {r} /\ UNCHANGED <<claim, owner>>

Leave(r) == r \in inside /\ inside' = inside \ {r} /\ UNCHANGED <<claim, owner>>

\* An update keeps new readers out before it has the configuration to itself.
Claim(u) == Free /\ inside # {} /\ claim' = {u} /\ UNCHANGED <<inside, owner>>

Begin(u) == /\ inside = {}
            /\ Free \/ claim = {u}
            /\ owner = {} /\ owner' = {u} /\ claim' = {}
            /\ UNCHANGED inside

Publish(u) == owner = {u} /\ owner' = {} /\ UNCHANGED <<inside, claim>>

Next == \/ \E r \in Readers : Enter(r) \/ Leave(r)
        \/ \E u \in Updaters : Claim(u) \/ Begin(u) \/ Publish(u)

Spec == Init /\ [][Next]_lockVars
=============================================================================
