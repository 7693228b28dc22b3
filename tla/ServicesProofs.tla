--------------------------- MODULE ServicesProofs ---------------------------
(***************************************************************************)
(* Theorems about the barrier of the configuration epoch, and about the    *)
(* services around the control of limits.                                  *)
(*                                                                         *)
(* The barrier, for any finite set of readers and any set of updaters: the *)
(* epoch is exclusive, no wake-up is lost, and the barrier implements the  *)
(* lock of EpochLock.                                                      *)
(*                                                                         *)
(* The services, each by itself, for any values of its constants.          *)
(***************************************************************************)
EXTENDS ConfigEpoch, Services, FiniteSetTheorems, TLAPS

(* The barrier *)

Reading == {r \in Readers : state[r] = "reading"}
Holds(u) == state[u] \in {"draining", "updating"}

\* The counter counts the readers, the flag belongs to exactly one updater, and
\* that updater goes on only after the last reader has left.
IInv ==
    /\ TypeOK
    /\ readers = Cardinality(Reading)
    /\ updating <=> \E u \in Updaters : Holds(u)
    /\ \A u, v \in Updaters : Holds(u) /\ Holds(v) => u = v
    /\ \A u \in Updaters : state[u] = "updating" => readers = 0
    /\ NoLostWakeup

-----------------------------------------------------------------------------
\* The readers inside are finitely many, so their number is a natural number
\* and zero only when nobody is inside.
LEMMA ReadingFinite ==
    /\ IsFiniteSet(Reading)
    /\ Cardinality(Reading) \in Nat
    /\ Cardinality(Reading) = 0 <=> Reading = {}
<1>1. IsFiniteSet(Reading)
  <2>1. Reading \subseteq Readers
    BY Zenon DEF Reading
  <2>2. QED
    BY <2>1, EpochAssumption, FS_Subset, Zenon
<1>2. QED
  BY <1>1, FS_CardinalityType, FS_EmptySet, Zenon

\* A step of an updater, or of a reader that neither enters nor leaves, keeps
\* the set of readers inside.
LEMMA ReadingUnchanged ==
    ASSUME \A r \in Readers : (state'[r] = "reading") <=> (state[r] = "reading")
    PROVE  Reading' = Reading
BY Zenon DEF Reading

\* Init establishes the inductive invariant.
LEMMA InitIInv == Init => IInv
<1> SUFFICES ASSUME Init PROVE IInv
  BY Zenon
<1>1. Reading = {}
  BY Zenon DEF Init, Reading, Processes
<1>2. readers = Cardinality(Reading)
  BY <1>1, FS_EmptySet, Zenon DEF Init
<1>3. TypeOK
  BY Zenon DEF Init, TypeOK, Processes, ReaderStates, UpdaterStates
<1>4. QED
  BY <1>2, <1>3, Zenon DEF Init, IInv, Holds, NoLostWakeup, Processes

\* Every step preserves the inductive invariant.
LEMMA NextIInv == IInv /\ [Next]_vars => IInv'
<1> SUFFICES ASSUME IInv, [Next]_vars PROVE IInv'
  BY Zenon
<1> USE DEF Goto, Broadcast, Wait
<1>0. TypeOK
  BY Zenon DEF IInv
<1>a. /\ IsFiniteSet(Reading) /\ readers = Cardinality(Reading) /\ readers \in Nat
  BY ReadingFinite, Zenon DEF IInv
<1>1. ASSUME NEW p \in Processes, CallEnter(p) PROVE IInv'
  <2>1. TypeOK'
    BY <1>0, <1>1, EpochAssumption, Zenon DEF CallEnter, TypeOK, Processes, ReaderStates, UpdaterStates
  <2>2. Reading' = Reading
    BY <1>0, <1>1, ReadingUnchanged, Zenon DEF CallEnter, TypeOK, Processes
  <2>3. \A u \in Updaters : state'[u] = state[u]
    BY <1>0, <1>1, EpochAssumption, Zenon DEF CallEnter, TypeOK, Processes
  <2>4. NoLostWakeup'
    BY <1>0, <1>1, Zenon DEF CallEnter, IInv, NoLostWakeup, TypeOK, Processes
  <2>5. QED
    BY <1>1, <2>1, <2>2, <2>3, <2>4, Zenon DEF CallEnter, IInv, Holds
<1>2. ASSUME NEW p \in Processes, Enter(p) PROVE IInv'
  <2>1. TypeOK'
    BY <1>0, <1>2 DEF Enter, TypeOK, Processes, ReaderStates, UpdaterStates
  <2>2. \A u \in Updaters : state'[u] = state[u]
    BY <1>0, <1>2, EpochAssumption, Zenon DEF Enter, TypeOK, Processes
  <2>3. CASE updating
    BY <1>2, <2>1, <2>3, Zenon DEF Enter, IInv, Holds, NoLostWakeup, Reading
  <2>4. CASE ~updating
    <3>1. p \notin Reading /\ Reading' = Reading \cup {p}
      BY <1>0, <1>2, <2>4, Zenon DEF Enter, TypeOK, Processes, Reading
    <3>2. readers' = Cardinality(Reading')
      BY <1>a, <1>2, <2>4, <3>1, FS_AddElement, Zenon DEF Enter
    <3>3. NoLostWakeup'
      BY <1>0, <1>a, <1>2, <2>4 DEF Enter, IInv, NoLostWakeup, TypeOK, Processes
    <3>4. QED
      BY <1>2, <2>1, <2>2, <2>4, <3>2, <3>3 DEF Enter, IInv, Holds
  <2>5. QED
    BY <2>3, <2>4, Zenon
<1>3. ASSUME NEW p \in Processes, Leave(p) PROVE IInv'
  <2>1. p \in Reading /\ Reading' = Reading \ {p}
    BY <1>0, <1>3, Zenon DEF Leave, TypeOK, Processes, Reading
  <2>2. readers' = Cardinality(Reading')
    BY <1>a, <1>3, <2>1, FS_RemoveElement, Zenon DEF Leave
  <2>3. readers' \in Nat /\ readers > 0
    BY <1>a, <2>1, <2>2, FS_RemoveElement, FS_CardinalityType, ReadingFinite
  <2>4. TypeOK'
    BY <1>0, <1>3, <2>3, Zenon DEF Leave, TypeOK, Processes, ReaderStates, UpdaterStates
  <2>5. \A u \in Updaters : state'[u] = state[u]
    BY <1>0, <1>3, EpochAssumption, Zenon DEF Leave, TypeOK, Processes
  <2>6. NoLostWakeup'
    BY <1>0, <1>3, <2>3 DEF Leave, IInv, NoLostWakeup, TypeOK, Processes
  <2>7. QED
    BY <1>3, <2>2, <2>3, <2>4, <2>5, <2>6 DEF Leave, IInv, Holds
<1>4. ASSUME NEW p \in Processes, CallBeginUpdate(p) PROVE IInv'
  <2>1. TypeOK'
    BY <1>0, <1>4, EpochAssumption, Zenon DEF CallBeginUpdate, TypeOK, Processes, ReaderStates, UpdaterStates
  <2>2. Reading' = Reading
    BY <1>0, <1>4, ReadingUnchanged, Zenon DEF CallBeginUpdate, TypeOK, Processes
  <2>3. \A u \in Updaters : (Holds(u) <=> Holds(u)') /\ (state'[u] = "updating" <=> state[u] = "updating")
    BY <1>0, <1>4, Zenon DEF CallBeginUpdate, TypeOK, Processes, Holds
  <2>4. NoLostWakeup'
    BY <1>0, <1>4, Zenon DEF CallBeginUpdate, IInv, NoLostWakeup, TypeOK, Processes
  <2>5. QED
    BY <1>4, <2>1, <2>2, <2>3, <2>4, Zenon DEF CallBeginUpdate, IInv
<1>5. ASSUME NEW p \in Processes, Claim(p) PROVE IInv'
  <2>1. TypeOK'
    BY <1>0, <1>5, Zenon DEF Claim, TypeOK, Processes, ReaderStates, UpdaterStates
  <2>2. Reading' = Reading
    BY <1>0, <1>5, ReadingUnchanged, EpochAssumption, Zenon DEF Claim, TypeOK, Processes
  <2>3. CASE updating
    BY <1>5, <2>1, <2>2, <2>3, Zenon DEF Claim, IInv, Holds, NoLostWakeup
  <2>4. CASE ~updating
    <3>1. \A u \in Updaters : Holds(u)' <=> u = p
      BY <1>0, <1>5, <2>4, Zenon DEF Claim, IInv, TypeOK, Processes, Holds
    <3>2. \A u \in Updaters : state'[u] = "updating" => readers' = 0
      BY <1>0, <1>5, <2>4 DEF Claim, IInv, TypeOK, Processes, Holds
    <3>3. NoLostWakeup'
      BY <1>0, <1>5, <2>4, Zenon DEF Claim, IInv, NoLostWakeup, TypeOK, Processes
    <3>4. QED
      BY <1>5, <2>1, <2>2, <2>4, <3>1, <3>2, <3>3, Zenon DEF Claim, IInv
  <2>5. QED
    BY <2>3, <2>4, Zenon
<1>6. ASSUME NEW p \in Processes, Drain(p) PROVE IInv'
  <2>1. TypeOK'
    BY <1>0, <1>6, Zenon DEF Drain, TypeOK, Processes, ReaderStates, UpdaterStates
  <2>2. Reading' = Reading
    BY <1>0, <1>6, ReadingUnchanged, EpochAssumption, Zenon DEF Drain, TypeOK, Processes
  <2>3. CASE readers > 0
    BY <1>6, <2>1, <2>2, <2>3 DEF Drain, IInv, Holds, NoLostWakeup
  <2>4. CASE readers = 0
    <3>1. \A u \in Updaters : Holds(u)' <=> Holds(u)
      BY <1>0, <1>6, <2>4, Zenon DEF Drain, TypeOK, Processes, Holds
    <3>2. NoLostWakeup'
      BY <1>0, <1>6, <2>4 DEF Drain, IInv, NoLostWakeup, TypeOK, Processes
    <3>3. QED
      BY <1>6, <2>1, <2>2, <2>4, <3>1, <3>2 DEF Drain, IInv
  <2>5. QED
    BY <1>a, <2>3, <2>4
<1>7. ASSUME NEW p \in Processes, Publish(p) PROVE IInv'
  <2>1. TypeOK'
    BY <1>0, <1>7, Zenon DEF Publish, TypeOK, Processes, ReaderStates, UpdaterStates
  <2>2. Reading' = Reading
    BY <1>0, <1>7, ReadingUnchanged, EpochAssumption, Zenon DEF Publish, TypeOK, Processes
  <2>3. \A u \in Updaters : ~Holds(u)'
    BY <1>0, <1>7, Zenon DEF Publish, IInv, TypeOK, Processes, Holds
  <2>4. QED
    BY <1>7, <2>1, <2>2, <2>3, Zenon DEF Publish, IInv, Holds, NoLostWakeup
<1>8. CASE UNCHANGED vars
  BY <1>8, Zenon DEF vars, IInv, TypeOK, Reading, Holds, NoLostWakeup
<1>9. QED
  BY <1>1, <1>2, <1>3, <1>4, <1>5, <1>6, <1>7, <1>8, Zenon DEF Next, Step

\* The inductive invariant excludes readers from an update.
LEMMA IInvExclusion == IInv => EpochExclusion
<1> SUFFICES ASSUME IInv PROVE EpochExclusion
  BY Zenon
<1>1. ASSUME NEW u \in Updaters, NEW r \in Readers, state[u] = "updating", state[r] = "reading"
      PROVE  FALSE
  BY <1>1, ReadingFinite, Zenon DEF IInv, Reading
<1>2. QED
  BY <1>1, Zenon DEF IInv, EpochExclusion, Holds

-----------------------------------------------------------------------------
\* The barrier keeps its inductive invariant in every behaviour.
THEOREM EpochInvariant == Spec => []IInv
BY InitIInv, NextIInv, PTL DEF Spec

\* Barrier.readers is a natural number and every goroutine is where its role
\* allows: an update never enters and a reader never claims.
THEOREM EpochTypeCorrect == Spec => []TypeOK
<1>1. IInv => TypeOK
  BY Zenon DEF IInv
<1>2. QED
  BY <1>1, EpochInvariant, PTL

\* No operation reads configuration while BeginUpdate's caller replaces it, and
\* updates exclude each other, for any number of readers and updaters.
THEOREM EpochIsExclusive == Spec => []EpochExclusion
BY IInvExclusion, EpochInvariant, PTL

\* Whoever sleeps in cond.Wait waits for a condition that is still false.
THEOREM NoWakeupIsLost == Spec => []NoLostWakeup
<1>1. IInv => NoLostWakeup
  BY Zenon DEF IInv
<1>2. QED
  BY <1>1, EpochInvariant, PTL

-----------------------------------------------------------------------------
(* The barrier implements EpochLock.                                         *)

\* Only readers read and only updaters drain and update; without the flag no
\* update holds the barrier, with it exactly one does.
LEMMA Points ==
    ASSUME IInv
    PROVE  /\ At("reading") = Reading
           /\ readers = 0 <=> At("reading") = {}
           /\ ~updating => At("draining") = {} /\ At("updating") = {}
           /\ \A u \in Updaters : state[u] = "draining" =>
                 At("draining") = {u} /\ At("updating") = {}
           /\ \A u \in Updaters : state[u] = "updating" =>
                 At("updating") = {u} /\ At("draining") = {}
<1>1. /\ \A p \in Readers : state[p] \in ReaderStates
      /\ \A p \in Updaters : state[p] \in UpdaterStates
  BY Zenon DEF IInv, TypeOK
<1>2. At("reading") = Reading
  BY <1>1, Zenon DEF At, Reading, Processes, UpdaterStates
<1>3. readers = 0 <=> At("reading") = {}
  BY <1>2, ReadingFinite, Zenon DEF IInv
<1>4. At("draining") \subseteq Updaters /\ At("updating") \subseteq Updaters
  BY <1>1, Zenon DEF At, Processes, ReaderStates
<1>5. ~updating => At("draining") = {} /\ At("updating") = {}
  BY <1>4, Zenon DEF IInv, Holds, At
<1>6. ASSUME NEW u \in Updaters, Holds(u)
      PROVE  At("draining") \subseteq {u} /\ At("updating") \subseteq {u}
  BY <1>4, <1>6, Zenon DEF IInv, Holds, At
<1>7. \A u \in Updaters : state[u] = "draining" =>
         At("draining") = {u} /\ At("updating") = {}
  BY <1>6 DEF Holds, At, Processes
<1>8. \A u \in Updaters : state[u] = "updating" =>
         At("updating") = {u} /\ At("draining") = {}
  BY <1>6 DEF Holds, At, Processes
<1>9. QED
  BY <1>2, <1>3, <1>5, <1>7, <1>8, Zenon

\* A goroutine that goes from one point to another leaves the first set of
\* goroutines, joins the second and touches no other.
LEMMA Moved ==
    ASSUME TypeOK, NEW p \in Processes, NEW s, NEW t, Goto(p, s)
    PROVE  /\ t = s => At(t)' = At(t) \cup {p}
           /\ t # s => At(t)' = At(t) \ {p}
<1>1. /\ \A q \in Processes : state'[q] = IF q = p THEN s ELSE state[q]
      /\ At(t)' = {q \in Processes : state'[q] = t}
  BY Zenon DEF Goto, TypeOK, At
<1>2. QED
  BY <1>1, Zenon DEF At

\* Without a move no point changes.
LEMMA Stayed ==
    ASSUME UNCHANGED state, NEW t
    PROVE  At(t)' = At(t)
BY Zenon DEF At

\* Every step of the barrier is a step of the lock or leaves the lock alone.
LEMMA NextLock == IInv /\ [Next]_vars => [Lock!Next]_(Lock!lockVars)
<1> SUFFICES ASSUME IInv, [Next]_vars
             PROVE  Lock!Next \/ UNCHANGED Lock!lockVars
  BY Zenon
<1>0. TypeOK
  BY Zenon DEF IInv
<1>k. ASSUME UNCHANGED state PROVE UNCHANGED Lock!lockVars
  BY <1>k, Stayed, Zenon DEF Lock!lockVars
<1>a. ASSUME NEW p \in Processes, Goto(p, "entering") \/ Goto(p, "claiming"),
             state[p] = "out"
      PROVE  UNCHANGED Lock!lockVars
  <2>1. /\ At("reading")' = At("reading") \ {p} /\ At("draining")' = At("draining") \ {p}
        /\ At("updating")' = At("updating") \ {p}
    BY <1>0, <1>a, Moved
  <2>2. p \notin At("reading") /\ p \notin At("draining") /\ p \notin At("updating")
    BY <1>a, Zenon DEF At
  <2>3. QED
    BY <2>1, <2>2, Zenon DEF Lock!lockVars
<1>1. ASSUME NEW p \in Processes, CallEnter(p) PROVE UNCHANGED Lock!lockVars
  BY <1>1, <1>a, Zenon DEF CallEnter
<1>2. ASSUME NEW p \in Processes, CallBeginUpdate(p) PROVE UNCHANGED Lock!lockVars
  BY <1>2, <1>a, Zenon DEF CallBeginUpdate
<1>3. ASSUME NEW p \in Processes, Enter(p) PROVE Lock!Next \/ UNCHANGED Lock!lockVars
  <2>1. CASE Wait(p)
    BY <2>1, <1>k, Zenon DEF Wait
  <2>2. CASE ~updating /\ Goto(p, "reading")
    <3>1. /\ At("reading")' = At("reading") \cup {p}
          /\ At("draining")' = At("draining") \ {p} /\ At("updating")' = At("updating") \ {p}
      BY <1>0, <2>2, Moved
    <3>2. At("draining") = {} /\ At("updating") = {}
      BY <2>2, Points, Zenon
    <3>3. Lock!Enter(p)
      BY <3>1, <3>2, Zenon DEF Lock!Enter, Lock!Free
    <3>4. QED
      BY <1>3, <3>3, Zenon DEF Enter, Lock!Next
  <2>3. QED
    BY <1>3, <2>1, <2>2, Zenon DEF Enter
<1>4. ASSUME NEW p \in Processes, Leave(p) PROVE Lock!Next \/ UNCHANGED Lock!lockVars
  <2>1. /\ At("reading")' = At("reading") \ {p}
        /\ At("draining")' = At("draining") \ {p} /\ At("updating")' = At("updating") \ {p}
    BY <1>0, <1>4, Moved DEF Leave
  <2>2. p \in At("reading") /\ p \notin At("draining") /\ p \notin At("updating")
    BY <1>4, Zenon DEF Leave, At
  <2>3. Lock!Leave(p)
    BY <2>1, <2>2, Zenon DEF Lock!Leave
  <2>4. QED
    BY <1>4, <2>3, Zenon DEF Leave, Lock!Next
<1>5. ASSUME NEW p \in Processes, Claim(p) PROVE Lock!Next \/ UNCHANGED Lock!lockVars
  <2>0. p \in Updaters /\ state[p] = "claiming"
    BY <1>5, Zenon DEF Claim
  <2>1. CASE Wait(p)
    BY <2>1, <1>k, Zenon DEF Wait
  <2>2. CASE ~updating /\ readers > 0 /\ Goto(p, "draining")
    <3>1. /\ At("reading")' = At("reading") \ {p} /\ At("draining")' = At("draining") \cup {p}
          /\ At("updating")' = At("updating") \ {p}
      BY <1>0, <2>2, Moved
    <3>2. At("draining") = {} /\ At("updating") = {} /\ p \notin At("reading")
      BY <2>0, <2>2, Points, Zenon DEF At
    <3>3. At("reading") # {}
      BY <2>2, Points
    <3>4. Lock!Claim(p)
      BY <3>1, <3>2, <3>3, Zenon DEF Lock!Claim, Lock!Free
    <3>5. QED
      BY <2>0, <3>4, Zenon DEF Lock!Next
  <2>3. CASE ~updating /\ ~(readers > 0) /\ Goto(p, "updating")
    <3>1. /\ At("reading")' = At("reading") \ {p} /\ At("draining")' = At("draining") \ {p}
          /\ At("updating")' = At("updating") \cup {p}
      BY <1>0, <2>3, Moved
    <3>2. readers = 0
      BY <1>0, <2>3 DEF TypeOK
    <3>3. At("draining") = {} /\ At("updating") = {} /\ At("reading") = {}
      BY <2>3, <3>2, Points, Zenon
    <3>4. Lock!Begin(p)
      BY <3>1, <3>3, Zenon DEF Lock!Begin, Lock!Free
    <3>5. QED
      BY <2>0, <3>4, Zenon DEF Lock!Next
  <2>4. QED
    BY <1>5, <2>1, <2>2, <2>3, Zenon DEF Claim
<1>6. ASSUME NEW p \in Processes, Drain(p) PROVE Lock!Next \/ UNCHANGED Lock!lockVars
  <2>0. p \in Updaters /\ state[p] = "draining"
    BY <1>6, Zenon DEF Drain
  <2>1. CASE Wait(p)
    BY <2>1, <1>k, Zenon DEF Wait
  <2>2. CASE readers = 0 /\ Goto(p, "updating")
    <3>1. /\ At("reading")' = At("reading") \ {p} /\ At("draining")' = At("draining") \ {p}
          /\ At("updating")' = At("updating") \cup {p}
      BY <1>0, <2>2, Moved
    <3>2. At("draining") = {p} /\ At("updating") = {} /\ At("reading") = {}
      BY <2>0, <2>2, Points, Zenon
    <3>3. Lock!Begin(p)
      BY <3>1, <3>2, Zenon DEF Lock!Begin
    <3>4. QED
      BY <2>0, <3>3, Zenon DEF Lock!Next
  <2>3. QED
    BY <1>6, <2>1, <2>2, Zenon DEF Drain
<1>7. ASSUME NEW p \in Processes, Publish(p) PROVE Lock!Next \/ UNCHANGED Lock!lockVars
  <2>0. p \in Updaters /\ state[p] = "updating"
    BY <1>7, Zenon DEF Publish
  <2>1. /\ At("reading")' = At("reading") \ {p} /\ At("draining")' = At("draining") \ {p}
        /\ At("updating")' = At("updating") \ {p}
    BY <1>0, <1>7, Moved DEF Publish
  <2>2. At("updating") = {p} /\ At("draining") = {} /\ p \notin At("reading")
    BY <2>0, Points, Zenon DEF At
  <2>3. Lock!Publish(p)
    BY <2>1, <2>2, Zenon DEF Lock!Publish
  <2>4. QED
    BY <2>0, <2>3, Zenon DEF Lock!Next
<1>8. ASSUME UNCHANGED vars PROVE UNCHANGED Lock!lockVars
  BY <1>8, <1>k, Zenon DEF vars
<1>9. QED
  BY <1>1, <1>2, <1>3, <1>4, <1>5, <1>6, <1>7, <1>8, Zenon DEF Next, Step

\* The barrier of the code, with its counter, its flag and its condition
\* variable, implements the lock its comment promises, for any readers and any
\* updaters.
THEOREM BarrierImplementsLock == Spec => ImplementsLock
<1>1. Init => Lock!Init
  BY Zenon DEF Init, Lock!Init, At
<1>2. QED
  BY <1>1, NextLock, EpochInvariant, PTL DEF Spec, Lock!Spec, ImplementsLock

-----------------------------------------------------------------------------
(* The MCP server *)

\* The callers that hold the gate of the server, and the one that runs stop().
Gated == {"check", "transport", "leave", "shutdown", "wait"}
StopSteps == {"stop", "shutdown", "wait"}

\* Every variable has its type.
MTypes ==
    /\ mSrv \in [transport : {"stdio", "http"}, cancel : BOOLEAN, stopped : BOOLEAN,
                http : BOOLEAN]
    /\ mOnce \in {"new", "running", "done"}
    /\ mCaller \in [mCallers -> Gated \cup StopSteps \cup {"idle", "once"}]

\* The gate admits the caller that is between entering and leaving it.
MGate == \A c \in mCallers : mCaller[c] \in Gated <=> mGate = {c}

\* One caller runs stop().
MOnce == 
    /\ \A c \in mCallers : mCaller[c] \in StopSteps => mOnce = "running"
    /\ \A c, d \in mCallers : mCaller[c] \in StopSteps /\ mCaller[d] \in StopSteps => c = d

\* A transport that serves is the one of the last attempt, whose context is kept.
MServing ==
    /\ mServing \subseteq {mStarts}
    /\ mSrv.cancel \/ mServing = {}
    /\ \A c \in mCallers : mCaller[c] = "transport" => mServing = {} /\ mSrv.cancel /\ ~mSrv.stopped

\* stop() has made the transports end by the time it waits for them, and they have
\* ended when it is done.
MStopped ==
    /\ mOnce = "done" => mServing = {} /\ mSrv.stopped
    /\ \A c \in mCallers : mCaller[c] \in {"shutdown", "wait"} =>
          mSrv.stopped /\ mServing \subseteq mCancelled
    /\ \A c \in mCallers : mCaller[c] = "wait" /\ mSrv.http => mServing = {}

\* The inductive invariant of the server.
MInv == MTypes /\ MGate /\ MOnce /\ MServing /\ MStopped

\* Every step of Start, Stop and the transports keeps it.
LEMMA MStep == MInv /\ [M!Next]_(M!vars) => MInv'
<1> SUFFICES ASSUME MInv, [M!Next]_(M!vars) PROVE MInv'
  BY Zenon
<1> USE DEF MInv, MTypes, MGate, MOnce, MServing, MStopped, Gated, StopSteps, M!Goto
<1>1. ASSUME NEW c \in mCallers, M!StartEnter(c) PROVE MInv'
  BY <1>1, Zenon DEF M!StartEnter
<1>2. ASSUME NEW c \in mCallers, M!StartCheck(c) PROVE MInv'
  <2>1. CASE mSrv.stopped \/ mSrv.cancel
    BY <1>2, <2>1 DEF M!StartCheck
  <2>2. CASE ~(mSrv.stopped \/ mSrv.cancel)
    <3>1. mSrv' = [mSrv EXCEPT !.cancel = TRUE] /\ mServing = {} /\ mServing' = mServing
      BY <1>2, <2>2, Zenon DEF M!StartCheck
    <3>2. mSrv'.cancel /\ ~mSrv'.stopped /\ mSrv' \in [transport : {"stdio", "http"},
             cancel : BOOLEAN, stopped : BOOLEAN, http : BOOLEAN]
      BY <2>2, <3>1, Zenon
    <3>. QED
      BY <1>2, <2>2, <3>1, <3>2 DEF M!StartCheck
  <2>. QED
    BY <2>1, <2>2, Zenon
<1>3. ASSUME NEW c \in mCallers, M!StartTransport(c) PROVE MInv'
  <2>1. /\ mSrv' \in [transport : {"stdio", "http"}, cancel : BOOLEAN, stopped : BOOLEAN,
                      http : BOOLEAN]
        /\ mSrv'.stopped = mSrv.stopped
    BY <1>3, Zenon DEF M!StartTransport
  <2>2. mServing' # {} => mSrv'.cancel
    BY <1>3, Zenon DEF M!StartTransport
  <2>. QED
    BY <1>3, <2>1, <2>2 DEF M!StartTransport
<1>4. ASSUME NEW c \in mCallers, M!Leave(c) PROVE MInv'
  BY <1>4 DEF M!Leave
<1>5. ASSUME NEW c \in mCallers, M!Stop(c) PROVE MInv'
  BY <1>5 DEF M!Stop
<1>6. ASSUME NEW c \in mCallers, M!StopWaited(c) PROVE MInv'
  BY <1>6 DEF M!StopWaited
<1>7. ASSUME NEW c \in mCallers, M!StopEnter(c) PROVE MInv'
  BY <1>7, Zenon DEF M!StopEnter
<1>8. ASSUME NEW c \in mCallers, M!StopShutdown(c) PROVE MInv'
  BY <1>8 DEF M!StopShutdown
<1>9. ASSUME NEW c \in mCallers, M!StopReturn(c) PROVE MInv'
  BY <1>9 DEF M!StopReturn
<1>10. ASSUME NEW r \in M!Attempts, M!TransportEnds(r) PROVE MInv'
  BY <1>10, Zenon DEF M!TransportEnds
<1>11. CASE UNCHANGED M!vars
  BY <1>11, Zenon DEF M!vars
<1>. QED
  BY <1>1, <1>2, <1>3, <1>4, <1>5, <1>6, <1>7, <1>8, <1>9, <1>10, <1>11, Zenon DEF M!Next

\* Once a Stop has returned, no transport serves and none will.
THEOREM MCPStopIsFinal == M!Spec => []StopIsFinal
<1>1. M!Init => MInv
  BY Zenon DEF M!Init, MInv, MTypes, MGate, MOnce, MServing, MStopped, Gated, StopSteps
<1>2. MInv => StopIsFinal
  BY Zenon DEF MInv, MTypes, MServing, MStopped, M!StopIsFinal, StopIsFinal
<1>. QED
  BY <1>1, <1>2, MStep, PTL DEF M!Spec

-----------------------------------------------------------------------------
(* The Prometheus exporter *)

\* What the variables of the exporter hold.
Exporters == [running : BOOLEAN, starting : BOOLEAN, attempt : Nat, run : Nat]
ServerRuns == [stop : BOOLEAN, serve : {"none", "serving", "failed", "closed"},
         watch : {"none", "select", "shutdown", "finish", "done"}, err : BOOLEAN]
Waits == [pc : {"idle", "listen", "finish", "starting", "stopping"}, on : Nat]

\* Every variable has its type, and attempts are within the bound.
ETypes ==
    /\ eExp \in Exporters /\ eExp.attempt <= eMaxRuns
    /\ eRuns \in [E!Attempts -> ServerRuns]
    /\ eCaller \in [eCallers -> Waits]

\* An attempt to start is in the hands of one caller.
EStarting ==
    /\ \A c \in eCallers : eCaller[c].pc \in {"listen", "finish"} =>
          eExp.starting /\ eCaller[c].on = eExp.attempt /\ eCaller[c].on \in E!Attempts
    /\ \A c, d \in eCallers : eCaller[c].pc \in {"listen", "finish"}
                             /\ eCaller[d].pc \in {"listen", "finish"} => c = d
    /\ eExp.starting => \E c \in eCallers : eCaller[c].pc \in {"listen", "finish"}
    /\ \A c \in eCallers : eCaller[c].pc = "listen" =>
          ~eExp.running /\ eExp.run = 0 /\ eRuns[eExp.attempt] = E!NoRun

\* A run that is watched is the exporter's own, and it serves only while watched.
EWatched ==
    /\ \A r \in E!Attempts :
          /\ eRuns[r].watch \in {"select", "shutdown", "finish"} => eExp.running /\ eExp.run = r
          /\ eRuns[r].serve = "serving" => eRuns[r].watch \in {"select", "shutdown"}
          /\ r > eExp.attempt => eRuns[r] = E!NoRun
    /\ eExp.run # 0 => eExp.run \in E!Attempts /\ eRuns[eExp.run].watch # "none"

\* What a Stop waits for exists.
EAwaited ==
    \A c \in eCallers :
       /\ eCaller[c].pc = "starting" => eCaller[c].on <= eExp.attempt
       /\ eCaller[c].pc = "stopping" => /\ eCaller[c].on \in E!Attempts
                                        /\ eRuns[eCaller[c].on].stop
                                        /\ eRuns[eCaller[c].on].watch # "none"

\* The inductive invariant of the exporter.
EInv == ETypes /\ EStarting /\ EWatched /\ EAwaited

\* Every step of Start, Stop and monitorRun keeps it.
LEMMA EStep == ASSUME EInv, [E!Next]_(E!vars) PROVE EInv'
<1> USE ExporterAssumption DEF EInv, E!Attempts
<1>1. ASSUME NEW c \in eCallers, E!Start(c) PROVE EInv'
  <2>1. eExp.attempt \in Nat /\ eExp.attempt + 1 \in E!Attempts /\ eExp.attempt + 1 \in Nat
    BY <1>1 DEF E!Start, ETypes, Exporters
  <2>2. eExp' = [eExp EXCEPT !.starting = TRUE, !.attempt = eExp.attempt + 1, !.run = 0]
    BY <1>1, Zenon DEF E!Start
  <2>3. eExp' \in Exporters
    BY <2>1, <2>2, Zenon DEF ETypes, Exporters
  <2>4. /\ eExp'.attempt = eExp.attempt + 1 /\ eExp'.starting /\ eExp'.run = 0
        /\ ~eExp'.running /\ ~eExp.running /\ ~eExp.starting
        /\ eRuns' = eRuns
    BY <1>1, Zenon DEF E!Start, ETypes, Exporters
  <2>5. /\ eCaller' \in [eCallers -> Waits]
        /\ eCaller'[c].pc = "listen" /\ eCaller'[c].on = eExp.attempt + 1
        /\ \A d \in eCallers \ {c} : eCaller'[d] = eCaller[d]
    BY <1>1, <2>1, Zenon DEF E!Start, ETypes, Waits
  <2>6. ETypes'
    BY <2>1, <2>3, <2>4, <2>5 DEF ETypes
  <2>7. EStarting'
    BY <2>1, <2>4, <2>5 DEF ETypes, EStarting, EWatched
  <2>8. EWatched'
    BY <2>1, <2>4 DEF ETypes, EWatched
  <2>9. EAwaited'
    BY <2>1, <2>4, <2>5 DEF ETypes, EAwaited, Waits
  <2>. QED
    BY <2>6, <2>7, <2>8, <2>9, Zenon
<1>2. ASSUME NEW c \in eCallers, E!Listen(c) PROVE EInv'
  <2>1. /\ eCaller' \in [eCallers -> Waits]
        /\ eCaller[c].pc = "listen" /\ eCaller'[c].pc = "finish" /\ eCaller'[c].on = eCaller[c].on
        /\ \A d \in eCallers \ {c} : eCaller'[d] = eCaller[d]
    BY <1>2, Zenon DEF E!Listen, ETypes, Waits
  <2>2. /\ eExp.starting /\ eCaller[c].on = eExp.attempt /\ eExp.attempt \in E!Attempts
        /\ ~eExp.running /\ eExp.run = 0 /\ eRuns[eExp.attempt] = E!NoRun
    BY <2>1, Zenon DEF EStarting
  <2>3. CASE UNCHANGED <<eRuns, eExp>>
    BY <2>1, <2>2, <2>3 DEF ETypes, EStarting, EWatched, EAwaited
  <2>4. CASE /\ eRuns' = [eRuns EXCEPT ![eExp.attempt] = [E!NoRun EXCEPT !.serve = "serving",
                                                                   !.watch = "select"]]
             /\ eExp' = [eExp EXCEPT !.run = eExp.attempt, !.running = TRUE]
    <3>1. /\ eExp' \in Exporters /\ eExp'.attempt = eExp.attempt /\ eExp'.starting
          /\ eExp'.run = eExp.attempt /\ eExp'.running
      BY <2>2, <2>4, Zenon DEF ETypes, Exporters
    <3>2. /\ eRuns' \in [E!Attempts -> ServerRuns]
          /\ eRuns'[eExp.attempt].watch = "select"
          /\ \A r \in E!Attempts \ {eExp.attempt} : eRuns'[r] = eRuns[r]
      BY <2>2, <2>4, Zenon DEF ETypes, ServerRuns, E!NoRun
    <3>3. eRuns[eExp.attempt].watch = "none"
      BY <2>2 DEF E!NoRun
    <3>4. EStarting'
      BY <2>1, <2>2, <3>1, <3>2 DEF EStarting
    <3>5. EWatched'
      BY <2>1, <2>2, <3>1, <3>2 DEF ETypes, Exporters, EWatched
    <3>6. EAwaited'
      BY <2>1, <2>2, <3>1, <3>2, <3>3 DEF EAwaited
    <3>. QED
      BY <2>1, <3>1, <3>2, <3>4, <3>5, <3>6, Zenon DEF ETypes
  <2>. QED
    BY <1>2, <2>2, <2>3, <2>4, Zenon DEF E!Listen
<1>3. ASSUME NEW c \in eCallers, E!finishStartAttempt(c) PROVE EInv'
  <2>1. /\ eCaller' \in [eCallers -> Waits]
        /\ eCaller[c].pc = "finish" /\ eCaller'[c].pc = "idle"
        /\ \A d \in eCallers \ {c} : eCaller'[d] = eCaller[d]
    BY <1>3, Zenon DEF E!finishStartAttempt, ETypes, Waits, E!Idle
  <2>2. /\ eExp' \in Exporters /\ eExp'.attempt = eExp.attempt /\ ~eExp'.starting
        /\ eExp'.run = eExp.run /\ eExp'.running = eExp.running /\ eRuns' = eRuns
    BY <1>3, Zenon DEF E!finishStartAttempt, ETypes, Exporters
  <2>. QED
    BY <2>1, <2>2 DEF ETypes, EStarting, EWatched, EAwaited
<1>4. ASSUME NEW c \in eCallers, eCaller[c].pc \in {"idle", "starting"},
             E!StopReads(c), UNCHANGED <<eExp, eCtx>>
      PROVE  EInv'
  <2>1. CASE eExp.starting
    <3>1. /\ eCaller' \in [eCallers -> Waits] /\ eRuns' = eRuns
          /\ eCaller'[c].pc = "starting" /\ eCaller'[c].on = eExp.attempt
          /\ \A d \in eCallers \ {c} : eCaller'[d] = eCaller[d]
      <4>1. eCaller' = [eCaller EXCEPT ![c] = [pc |-> "starting", on |-> eExp.attempt]] /\ eRuns' = eRuns
        BY <1>4, <2>1, Zenon DEF E!StopReads
      <4>2. [pc |-> "starting", on |-> eExp.attempt] \in Waits /\ eCaller \in [eCallers -> Waits]
        BY Zenon DEF ETypes, Waits, Exporters
      <4>. QED
        BY <4>1, <4>2, Zenon
    <3>. QED
      BY <1>4, <2>1, <3>1 DEF ETypes, EStarting, EWatched, EAwaited, Exporters
  <2>2. CASE ~eExp.starting /\ eExp.run = 0
    <3>1. /\ eCaller' \in [eCallers -> Waits] /\ eRuns' = eRuns /\ eCaller'[c].pc = "idle"
          /\ \A d \in eCallers \ {c} : eCaller'[d] = eCaller[d]
      BY <1>4, <2>2 DEF E!StopReads, ETypes, Waits, E!Idle
    <3>. QED
      BY <1>4, <2>2, <3>1 DEF ETypes, EStarting, EWatched, EAwaited
  <2>3. CASE ~eExp.starting /\ eExp.run # 0
    <3>1. eExp.run \in E!Attempts /\ eRuns[eExp.run].watch # "none" /\ eExp.run \in Nat
      BY <2>3, Zenon DEF EWatched, ETypes, Exporters
    <3>a. /\ eRuns' = [eRuns EXCEPT ![eExp.run].stop = TRUE]
          /\ eCaller' = [eCaller EXCEPT ![c] = [pc |-> "stopping", on |-> eExp.run]]
      BY <1>4, <2>3, Zenon DEF E!StopReads
    <3>2. /\ eCaller' \in [eCallers -> Waits]
          /\ eCaller'[c].pc = "stopping" /\ eCaller'[c].on = eExp.run
          /\ \A d \in eCallers \ {c} : eCaller'[d] = eCaller[d]
      BY <3>1, <3>a, Zenon DEF ETypes, Waits
    <3>3. /\ eRuns' \in [E!Attempts -> ServerRuns] /\ eRuns'[eExp.run].stop
          /\ \A r \in E!Attempts : eRuns'[r].watch = eRuns[r].watch /\ eRuns'[r].serve = eRuns[r].serve
                                   /\ (r # eExp.run => eRuns'[r] = eRuns[r])
      BY <3>1, <3>a DEF ETypes, ServerRuns
    <3>4. ETypes' /\ EStarting'
      BY <1>4, <2>3, <3>2, <3>3 DEF ETypes, EStarting
    <3>5. EWatched'
      <4>1. eExp.run <= eExp.attempt
        BY <3>1 DEF EWatched, E!NoRun, ETypes, Exporters
      <4>. QED
        BY <1>4, <3>1, <3>3, <4>1 DEF EWatched, ETypes, Exporters
    <3>6. EAwaited'
      BY <1>4, <2>3, <3>1, <3>2, <3>3 DEF EAwaited
    <3>. QED
      BY <3>4, <3>5, <3>6, Zenon
  <2>. QED
    BY <1>4, <2>1, <2>2, <2>3, Zenon DEF E!StopReads
<1>5. ASSUME NEW c \in eCallers, E!StopReturns(c) PROVE EInv'
  <2>1. /\ eCaller' \in [eCallers -> Waits] /\ eCaller[c].pc = "stopping" /\ eCaller'[c].pc = "idle"
        /\ \A d \in eCallers \ {c} : eCaller'[d] = eCaller[d]
    BY <1>5, Zenon DEF E!StopReturns, ETypes, Waits, E!Idle
  <2>. QED
    BY <1>5, <2>1 DEF E!StopReturns, ETypes, EStarting, EWatched, EAwaited
<1>6. ASSUME NEW r \in E!Attempts, eRuns[r].watch # "none", eRuns[r].watch # "done", eCaller' = eCaller,
             eRuns' \in [E!Attempts -> ServerRuns], \A q \in E!Attempts \ {r} : eRuns'[q] = eRuns[q],
             eRuns'[r].stop = eRuns[r].stop, eRuns'[r].watch # "none",
             eRuns'[r].serve = "serving" => eRuns'[r].watch \in {"select", "shutdown"},
             eExp' \in Exporters, eExp'.attempt = eExp.attempt, eExp'.run = eExp.run,
             eExp'.starting = eExp.starting,
             IF eRuns'[r].watch = "done" THEN ~eExp'.running ELSE eExp'.running = eExp.running
      PROVE  EInv'
  <2>1. eExp.running /\ eExp.run = r /\ r <= eExp.attempt
    BY <1>6 DEF EWatched, E!NoRun, ETypes, ServerRuns, Exporters
  <2>2. ETypes'
    BY <1>6, Zenon DEF ETypes
  <2>3. EStarting'
    BY <1>6, <2>1, Zenon DEF EStarting
  <2>4. EWatched'
    <3>1. eRuns'[r].watch # "done" => eExp'.running
      BY <1>6, <2>1, Zenon
    <3>2. \A q \in E!Attempts \ {r} : eRuns'[q].watch \notin {"select", "shutdown", "finish"}
                                     /\ eRuns'[q].serve # "serving"
      BY <1>6, <2>1 DEF EWatched
    <3>3. \A q \in E!Attempts : q > eExp'.attempt => q # r /\ eRuns'[q] = E!NoRun
      BY <1>6, <2>1 DEF EWatched, ETypes, Exporters
    <3>. QED
      BY <1>6, <2>1, <3>1, <3>2, <3>3, Zenon DEF EWatched
  <2>5. EAwaited'
    BY <1>6, <2>1 DEF EAwaited
  <2>. QED
    BY <2>2, <2>3, <2>4, <2>5, Zenon
<1>7. ASSUME NEW r \in E!Attempts, E!ServeFails(r) PROVE EInv'
  <2>1. eRuns[r].watch # "none" /\ eRuns[r].watch # "done"
    BY <1>7, Zenon DEF E!ServeFails, EWatched
  <2>2. /\ eRuns' \in [E!Attempts -> ServerRuns] /\ \A q \in E!Attempts \ {r} : eRuns'[q] = eRuns[q]
        /\ eRuns'[r].stop = eRuns[r].stop /\ eRuns'[r].watch = eRuns[r].watch
        /\ eRuns'[r].serve = "failed"
    BY <1>7, Zenon DEF E!ServeFails, ETypes, ServerRuns
  <2>3. eExp' = eExp /\ eCaller' = eCaller /\ eExp \in Exporters
    BY <1>7, Zenon DEF E!ServeFails, ETypes
  <2>. QED
    BY <1>6, <2>1, <2>2, <2>3, Zenon
<1>8. ASSUME NEW r \in E!Attempts, E!monitorRun(r) PROVE EInv'
  <2>1. eRuns[r].watch = "select" /\ eExp' = eExp /\ eCaller' = eCaller /\ eExp \in Exporters
    BY <1>8, Zenon DEF E!monitorRun, ETypes
  <2>2. /\ eRuns' \in [E!Attempts -> ServerRuns] /\ \A q \in E!Attempts \ {r} : eRuns'[q] = eRuns[q]
        /\ eRuns'[r].stop = eRuns[r].stop /\ eRuns'[r].serve = eRuns[r].serve
        /\ \/ eRuns'[r].watch = "shutdown"
           \/ eRuns'[r].watch = "finish" /\ eRuns[r].serve # "serving"
    <3>1. eRuns \in [E!Attempts -> ServerRuns]
      BY Zenon DEF ETypes
    <3>2. ASSUME NEW w \in {"shutdown", "finish"}, NEW e \in BOOLEAN,
                 eRuns' = [eRuns EXCEPT ![r].watch = w, ![r].err = e]
          PROVE  /\ eRuns' \in [E!Attempts -> ServerRuns] /\ \A q \in E!Attempts \ {r} : eRuns'[q] = eRuns[q]
                 /\ eRuns'[r].stop = eRuns[r].stop /\ eRuns'[r].serve = eRuns[r].serve
                 /\ eRuns'[r].watch = w
      BY <3>1, <3>2 DEF ServerRuns
    <3>. QED
      BY <1>8, <3>2, Zenon DEF E!monitorRun
  <2>. QED
    BY <1>6, <2>1, <2>2, Zenon
<1>9. ASSUME NEW r \in E!Attempts, E!shutdownRun(r) PROVE EInv'
  <2>1. eRuns[r].watch = "shutdown" /\ eExp' = eExp /\ eCaller' = eCaller /\ eExp \in Exporters
    BY <1>9, Zenon DEF E!shutdownRun, ETypes
  <2>2. /\ eRuns' \in [E!Attempts -> ServerRuns] /\ \A q \in E!Attempts \ {r} : eRuns'[q] = eRuns[q]
        /\ eRuns'[r].stop = eRuns[r].stop /\ eRuns'[r].serve # "serving"
        /\ eRuns'[r].watch = "finish"
    BY <1>9 DEF E!shutdownRun, ETypes, ServerRuns
  <2>. QED
    BY <1>6, <2>1, <2>2, Zenon
<1>10. ASSUME NEW r \in E!Attempts, E!finishRun(r) PROVE EInv'
  <2>1. eRuns[r].watch = "finish" /\ eCaller' = eCaller /\ eExp.run = r /\ eRuns[r].serve # "serving"
    BY <1>10, Zenon DEF E!finishRun, EWatched
  <2>2. /\ eRuns' \in [E!Attempts -> ServerRuns] /\ \A q \in E!Attempts \ {r} : eRuns'[q] = eRuns[q]
        /\ eRuns'[r].stop = eRuns[r].stop /\ eRuns'[r].serve = eRuns[r].serve
        /\ eRuns'[r].watch = "done"
    BY <1>10, Zenon DEF E!finishRun, ETypes, ServerRuns
  <2>3. eExp' = [eExp EXCEPT !.running = FALSE]
    BY <1>10, <2>1, Zenon DEF E!finishRun
  <2>4. /\ eExp' \in Exporters /\ eExp'.attempt = eExp.attempt /\ eExp'.run = eExp.run
        /\ eExp'.starting = eExp.starting /\ ~eExp'.running
    BY <2>3, Zenon DEF ETypes, Exporters
  <2>. QED
    BY <1>6, <2>1, <2>2, <2>4, Zenon
<1>11. CASE E!CancelContext
  BY <1>11, Zenon DEF E!CancelContext, ETypes, EStarting, EWatched, EAwaited
<1>12. CASE UNCHANGED E!vars
  BY <1>12, Zenon DEF E!vars, ETypes, EStarting, EWatched, EAwaited
<1>13. ASSUME NEW c \in eCallers, E!Stop(c) \/ E!StopAgain(c) PROVE EInv'
  BY <1>4, <1>13 DEF E!Stop, E!StopAgain, E!Idle
<1>. QED
  BY <1>1, <1>2, <1>3, <1>5, <1>7, <1>8, <1>9, <1>10, <1>11, <1>12, <1>13, Zenon DEF E!Next

\* The exporter knows the one server that serves, and a Stop never waits for a
\* Start or a run that nobody will end.
THEOREM ExporterOwnsItsServer == E!Spec => []ServerIsOwned
<1>1. E!Init => EInv
  BY ExporterAssumption DEF E!Init, EInv, ETypes, EStarting, EWatched, EAwaited, E!Attempts, E!Idle, E!NoRun,
         Exporters, ServerRuns, Waits
<1>2. EInv /\ [E!Next]_(E!vars) => EInv'
  BY EStep, Zenon
<1>3. EInv => E!ServerIsOwned
  BY Zenon DEF EInv, EWatched, E!ServerIsOwned
<1>4. EInv => E!StopIsAwaited
  <2> SUFFICES ASSUME EInv, NEW c \in eCallers
      PROVE /\ eCaller[c].pc = "starting" /\ ~E!StartDone(eCaller[c].on) =>
                 \E d \in eCallers : /\ eCaller[d].pc \in {"listen", "finish"}
                                     /\ eCaller[d].on = eCaller[c].on
            /\ eCaller[c].pc = "stopping" => /\ eRuns[eCaller[c].on].stop
                                             /\ eRuns[eCaller[c].on].watch # "none"
    BY Zenon DEF E!StopIsAwaited
  <2>1. ASSUME eCaller[c].pc = "starting", ~E!StartDone(eCaller[c].on)
        PROVE  eExp.starting /\ eCaller[c].on = eExp.attempt
    BY <2>1 DEF EInv, ETypes, EAwaited, E!StartDone, Exporters, Waits
  <2>. QED
    BY <2>1, Zenon DEF EInv, EStarting, EAwaited
<1>5. EInv => ServerIsOwned
  BY <1>3, <1>4, Zenon DEF ServerIsOwned
<1>. QED
  BY <1>1, <1>2, <1>5, PTL DEF E!Spec

-----------------------------------------------------------------------------
(* The start of the daemon *)

\* What the start may publish as the reason of its mode, and what it holds.
Reasons == {"none", "systemd_owns_host_workloads", "systemd_runtime_unreachable",
            "systemd_runtime_absent", "systemd_authority_unverifiable", "systemd_native_adapter",
            "operator_requested_observation", "mandatory_capability_unavailable",
            "realtime_admission_protected"}

Boots == [at : {"config", "cgroup", "collector", "telemetry", "points", "enforcement", "weights",
                "watcher", "mcp", "run"},
          err : {"none", "permanent", "retry"}, adapter : BOOLEAN, reason : Reasons,
          optional : SUBSET {"database", "prometheus", "watcher"}, exit : {"no", "78", "1", "killed"}]

\* The steps at which the detected reason stands, and those after the decision.
Detected == {"collector", "telemetry", "points", "enforcement"}
Decided == {"weights", "watcher", "mcp", "run"}

\* Every variable has its type.
STypes == sBoot \in Boots /\ sLeases \in BOOLEAN

\* The reason detected is kept until the mode is decided, and from then on the
\* adapter, the reason and the leases agree.
SMode ==
    /\ sBoot.at \in Detected => sBoot.reason = S!DetectEnforcementStatus(sHost)
    /\ sBoot.adapter => sBoot.at \in Decided
    /\ sBoot.at \in Decided /\ sBoot.err = "none" /\ sBoot.exit = "no" => S!Truthful

\* The inductive invariant of the start.
SInv == STypes /\ SMode /\ S!RestartIsWorthwhile

\* The detection never claims the adapter (DetectEnforcementStatus).
LEMMA SDetected == S!DetectEnforcementStatus(sHost) \in Reasons \ {"systemd_native_adapter"}
BY Zenon DEF S!DetectEnforcementStatus, Reasons

\* Every step of the start, a crash and an edit of the declaration keep it.
LEMMA SStep == SInv /\ [S!Next]_(S!vars) => SInv'
<1> SUFFICES ASSUME SInv, [S!Next]_(S!vars) PROVE SInv'
  BY Zenon
<1> USE DEF SInv, STypes, SMode, S!RestartIsWorthwhile, Boots, Reasons, Detected, Decided, S!At, S!Fail,
            S!Observing, S!Owned, S!Truthful
<1>0. S!Restart \/ (sHost' = sHost /\ S!DetectEnforcementStatus(sHost)' = S!DetectEnforcementStatus(sHost))
  BY Zenon DEF S!Next, S!vars, S!LoadConfig, S!WithMetricsCollector, S!WithConfigWatcher,
     S!DeclaredObservation, S!Refused, S!WithCgroupManager, S!LoadPointsPolicy, S!NewStateManager,
     S!WithMCPServer, S!AdapterFails, S!WithTelemetry, S!InspectFails, S!HostCannotEnforce,
     S!Enforcing, S!Exit, S!Acquire, S!Killed
<1>1. ASSUME NEW ok \in BOOLEAN, S!LoadConfig(ok) PROVE SInv'
  BY <1>0, <1>1, Zenon DEF S!LoadConfig
<1>14. ASSUME NEW ok \in BOOLEAN, S!WithMetricsCollector(ok) PROVE SInv'
  BY <1>0, <1>14, Zenon DEF S!WithMetricsCollector
<1>15. ASSUME NEW ok \in BOOLEAN, S!WithConfigWatcher(ok) PROVE SInv'
  BY <1>0, <1>15, Zenon DEF S!WithConfigWatcher
<1>2. ASSUME NEW ok \in BOOLEAN, S!DeclaredObservation(ok) PROVE SInv'
  <2>1. STypes'
    BY <1>0, <1>2, SDetected, Zenon DEF S!DeclaredObservation
  <2>2. SMode'
    BY <2>1, <1>0, <1>2, SDetected DEF S!DeclaredObservation
  <2>3. S!RestartIsWorthwhile'
    BY <2>1, <1>0, <1>2, SDetected DEF S!DeclaredObservation
  <2>. QED
    BY <2>1, <2>2, <2>3, Zenon
<1>3. ASSUME NEW ok \in BOOLEAN,
             NEW reason \in {"mandatory_capability_unavailable", "realtime_admission_protected"},
             S!Refused(reason, ok)
      PROVE  SInv'
  <2>1. STypes'
    BY <1>0, <1>3, Zenon DEF S!Refused
  <2>2. SMode'
    BY <2>1, <1>0, <1>3 DEF S!Refused
  <2>3. S!RestartIsWorthwhile'
    BY <2>1, <1>0, <1>3 DEF S!Refused
  <2>. QED
    BY <2>1, <2>2, <2>3, Zenon
<1>4. ASSUME NEW err \in S!Errors \cup {"none"},
             S!WithCgroupManager(err)
      PROVE  SInv'
  BY <1>0, <1>4, SDetected, Zenon DEF S!Errors, S!WithCgroupManager
<1>16. ASSUME NEW err \in S!Errors \cup {"none"}, S!LoadPointsPolicy(err) PROVE SInv'
  BY <1>0, <1>16, Zenon DEF S!Errors, S!LoadPointsPolicy
<1>17. ASSUME NEW err \in S!Errors \cup {"none"}, S!NewStateManager(err) PROVE SInv'
  BY <1>0, <1>17 DEF S!Errors, S!NewStateManager
<1>18. ASSUME NEW err \in S!Errors \cup {"none"}, S!WithMCPServer(err) PROVE SInv'
  BY <1>0, <1>18 DEF S!Errors, S!WithMCPServer
<1>5. ASSUME NEW err \in S!Errors, S!AdapterFails(err) PROVE SInv'
  BY <1>0, <1>5, Zenon DEF S!Errors, S!AdapterFails
<1>6. ASSUME NEW parts \in SUBSET {"database", "prometheus"}, S!WithTelemetry(parts) PROVE SInv'
  BY <1>0, <1>6, Zenon DEF S!WithTelemetry
<1>7. CASE S!InspectFails
  BY <1>0, <1>7, Zenon DEF S!InspectFails
<1>8. CASE S!HostCannotEnforce
  <2>1. STypes'
    BY <1>0, <1>8, SDetected, Zenon DEF S!HostCannotEnforce
  <2>2. SMode'
    BY <2>1, <1>0, <1>8, SDetected DEF S!HostCannotEnforce
  <2>3. S!RestartIsWorthwhile'
    BY <2>1, <1>0, <1>8, SDetected DEF S!HostCannotEnforce
  <2>. QED
    BY <2>1, <2>2, <2>3, Zenon
<1>9. CASE S!Enforcing
  BY <1>0, <1>9, Zenon DEF S!Enforcing
<1>10. CASE S!Exit
  BY <1>0, <1>10, Zenon DEF S!Exit
<1>11. CASE S!Acquire
  BY <1>0, <1>11, Zenon DEF S!Acquire
<1>19. CASE S!Killed
  BY <1>0, <1>19, Zenon DEF S!Killed
<1>12. CASE S!Restart
  BY <1>0, <1>12, Zenon DEF S!Restart, S!Begun
<1>13. CASE UNCHANGED S!vars
  BY <1>0, <1>13 DEF S!vars
<1>. QED
  BY <1>1, <1>2, <1>3, <1>4, <1>5, <1>6, <1>7, <1>8, <1>9, <1>10, <1>11, <1>12, <1>13,
     <1>14, <1>15, <1>16, <1>17, <1>18, <1>19 DEF S!Next

\* A running daemon owns what is applied on the host or nothing is applied, and an
\* exit asks for a restart exactly when that can help.
THEOREM DaemonStartsTruthfully == S!Spec => []StartIsTruthful
<1>1. S!Init => SInv
  <2> SUFFICES ASSUME S!Init PROVE SInv
    BY Zenon
  <2>1. sLeases \in BOOLEAN
    BY Zenon DEF S!Init
  <2>2. sBoot \in Boots /\ sBoot.at = "config" /\ sBoot.exit = "no" /\ ~sBoot.adapter
    BY Zenon DEF S!Init, S!Begun, Boots, Reasons
  <2>. QED
    BY <2>1, <2>2, Zenon DEF SInv, STypes, SMode, S!RestartIsWorthwhile, Detected, Decided
<1>2. SInv => StartIsTruthful
  BY Zenon DEF SInv, SMode, S!StartIsTruthful, S!RunsTruthfully, S!At, Decided, StartIsTruthful
<1>. QED
  BY <1>1, <1>2, SStep, PTL DEF S!Spec
=============================================================================
