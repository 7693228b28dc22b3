----------------------------- MODULE ConfigEpoch -----------------------------
(***************************************************************************)
(* The configuration epoch barrier (internal/configepoch/barrier.go).      *)
(* Control cycles, metrics refreshes, forced limit changes, PSI events and *)
(* the weighted-I/O probe enter the current epoch; a configuration reload  *)
(* begins an update, which waits for the readers of the old epoch to leave *)
(* and keeps new ones out until it publishes the new epoch.                *)
(*                                                                         *)
(* A critical section of the barrier's mutex is one step: it ends where    *)
(* the code waits on the condition variable or unlocks.  A broadcast wakes *)
(* every waiter, which then re-evaluates its loop condition.               *)
(***************************************************************************)
EXTENDS Naturals, FiniteSets

CONSTANTS
    Readers,     \* goroutines that call Enter
    Updaters     \* goroutines that call BeginUpdate

ASSUME EpochAssumption ==
    /\ Readers \cap Updaters = {}
    /\ IsFiniteSet(Readers)

VARIABLES
    readers,    \* Barrier.readers
    updating,   \* Barrier.updating
    state,      \* where each goroutine is
    asleep      \* goroutines parked in cond.Wait

vars == <<readers, updating, state, asleep>>

Processes == Readers \cup Updaters

\* "claiming" is the loop on updating, "draining" the loop on readers; an
\* updater that is "updating" has returned from BeginUpdate.
ReaderStates == {"out", "entering", "reading"}
UpdaterStates == {"out", "claiming", "draining", "updating"}

TypeOK ==
    /\ readers \in Nat
    /\ updating \in BOOLEAN
    /\ state \in [Processes -> ReaderStates \cup UpdaterStates]
    /\ \A p \in Readers : state[p] \in ReaderStates
    /\ \A p \in Updaters : state[p] \in UpdaterStates
    /\ asleep \in SUBSET Processes

Init ==
    /\ readers = 0
    /\ updating = FALSE
    /\ state = [p \in Processes |-> "out"]
    /\ asleep = {}

Goto(p, s) == state' = [state EXCEPT ![p] = s]
Broadcast == asleep' = {}
Wait(p) == asleep' = asleep \cup {p} /\ UNCHANGED <<readers, updating, state>>

-----------------------------------------------------------------------------
(* Enter and the function it returns.                                      *)

CallEnter(p) ==
    /\ p \in Readers /\ state[p] = "out"
    /\ Goto(p, "entering")
    /\ UNCHANGED <<readers, updating, asleep>>

\* Fault: a reader joins the old epoch as long as somebody is still reading.
BadEnter(p) ==
    /\ p \in Readers /\ state[p] = "entering" /\ p \notin asleep
    /\ \/ updating /\ readers = 0 /\ Wait(p)
       \/ /\ updating => readers > 0
          /\ readers' = readers + 1
          /\ Goto(p, "reading")
          /\ UNCHANGED <<updating, asleep>>

Enter(p) ==
    /\ p \in Readers /\ state[p] = "entering" /\ p \notin asleep
    /\ \/ updating /\ Wait(p)
       \/ /\ ~updating
          /\ readers' = readers + 1
          /\ Goto(p, "reading")
          /\ UNCHANGED <<updating, asleep>>

Leave(p) ==
    /\ p \in Readers /\ state[p] = "reading"
    /\ readers' = readers - 1
    /\ IF readers' = 0 THEN Broadcast ELSE UNCHANGED asleep
    /\ Goto(p, "out")
    /\ UNCHANGED updating

-----------------------------------------------------------------------------
(* BeginUpdate and the function it returns.                                *)

CallBeginUpdate(p) ==
    /\ p \in Updaters /\ state[p] = "out"
    /\ Goto(p, "claiming")
    /\ UNCHANGED <<readers, updating, asleep>>

\* One critical section: a claim that finds no reader does not wait again.
Claim(p) ==
    /\ p \in Updaters /\ state[p] = "claiming" /\ p \notin asleep
    /\ \/ updating /\ Wait(p)
       \/ /\ ~updating
          /\ updating' = TRUE
          /\ IF readers > 0
             THEN Goto(p, "draining") /\ asleep' = asleep \cup {p}
             ELSE Goto(p, "updating") /\ UNCHANGED asleep
          /\ UNCHANGED readers

Drain(p) ==
    /\ p \in Updaters /\ state[p] = "draining" /\ p \notin asleep
    /\ \/ readers > 0 /\ Wait(p)
       \/ readers = 0 /\ Goto(p, "updating") /\ UNCHANGED <<readers, updating, asleep>>

\* Fault: publication wakes nobody.
BadPublish(p) ==
    /\ p \in Updaters /\ state[p] = "updating"
    /\ updating' = FALSE
    /\ Goto(p, "out")
    /\ UNCHANGED <<readers, asleep>>

Publish(p) ==
    /\ p \in Updaters /\ state[p] = "updating"
    /\ updating' = FALSE
    /\ Broadcast
    /\ Goto(p, "out")
    /\ UNCHANGED readers

-----------------------------------------------------------------------------
Step(p) == Enter(p) \/ Leave(p) \/ Claim(p) \/ Drain(p) \/ Publish(p)

Next == \E p \in Processes : CallEnter(p) \/ CallBeginUpdate(p) \/ Step(p)

Spec == Init /\ [][Next]_vars

\* A goroutine that is awake gets the mutex, an entered operation returns and
\* an update publishes: both are bounded by timeouts.  Starting another reader
\* or another update is nobody's obligation.
FairSpec == Spec /\ \A p \in Processes : WF_vars(Step(p))

-----------------------------------------------------------------------------
\* Nobody reads configuration while an update is between BeginUpdate and its
\* publication, and updates are serialised: a cycle sees one epoch from its
\* first to its last stage.
EpochExclusion ==
    /\ \A u \in Updaters, r \in Readers : ~(state[u] = "updating" /\ state[r] = "reading")
    /\ \A u, v \in Updaters : state[u] = "updating" /\ state[v] = "updating" => u = v

\* A goroutine sleeps only while the condition it waits for is false: no
\* wake-up is lost.
NoLostWakeup ==
    \A p \in asleep :
        \/ state[p] \in {"entering", "claiming"} /\ updating
        \/ state[p] = "draining" /\ readers > 0

\* An update that has claimed the barrier gets through while readers keep
\* asking to enter, and once no further update is requested everyone who waits
\* gets in.
EveryoneGetsIn ==
    /\ \A p \in Updaters : state[p] = "draining" ~> state[p] = "updating"
    /\ <>[](\A p \in Updaters : state[p] # "claiming") =>
         \A p \in Readers : state[p] = "entering" ~> state[p] = "reading"

\* The goroutines at a point of the barrier.
At(s) == {p \in Processes : state[p] = s}

Lock == INSTANCE EpochLock
    WITH inside <- At("reading"), claim <- At("draining"), owner <- At("updating")

\* The barrier implements the lock its comment promises: an update that has been
\* claimed keeps every new reader out, begins when the last one has left, and
\* ends for everyone in one step, although the code gets there with a counter,
\* a flag and a condition variable whose waiters wake together.
ImplementsLock == Lock!Spec
=============================================================================
