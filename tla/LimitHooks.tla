----------------------------- MODULE LimitHooks -----------------------------
(***************************************************************************)
(* Limit hooks (state/limit_hook.go and state/limit_hook_executor.go).     *)
(* Publishing a CPU Points plan marks the users it newly limits; the       *)
(* dispatch stage at the end of a control cycle turns the marks into       *)
(* script and HTTP jobs for a bounded queue and a fixed pool of workers;   *)
(* shutdown closes the queue, cancels the jobs and waits for the workers.  *)
(*                                                                         *)
(* A critical section of hookMu is one step, so is the delivery of a job   *)
(* to a worker.  A script is a process group: the leader, which ResMan     *)
(* waits for, and the descendants it leaves behind.  Signals are delivered *)
(* and SIGKILL empties the group within the bounded wait of the code.      *)
(***************************************************************************)
EXTENDS Naturals, Sequences, FiniteSets

CONSTANTS
    Users,      \* users a plan may limit
    Workers,    \* LIMIT_HOOK_MAX_CONCURRENCY goroutines
    Stoppers,   \* goroutines that call stopLimitHooks
    Cycle,      \* the goroutine that runs control cycles
    Capacity,   \* LIMIT_HOOK_QUEUE_CAPACITY
    MaxJobs,    \* bound on the jobs of a behaviour
    NoJob,      \* a worker without a job
    NoReading   \* a goroutine that has nothing to publish

Ids == 1..MaxJobs
Job == [id : Ids, kind : {"script", "http"}]
Occupancy == [inFlight : Nat, queued : Nat]
Outcomes == {"success", "failure", "timeout", "cancelled", "saturated"}

ASSUME HooksAssumption ==
    /\ Cycle \notin Workers
    /\ IsFiniteSet(Workers) /\ Workers # {}
    /\ IsFiniteSet(Users)
    /\ Capacity \in Nat \ {0}
    /\ MaxJobs \in Nat
    /\ NoJob \notin Job
    /\ NoReading \notin Occupancy

VARIABLES
    limited,    \* Manager.activeUsers
    pending,    \* Manager.pendingLimitHookUIDs
    handled,    \* limited users the dispatch stage has seen; a history variable
    issued,     \* number of jobs created so far
    backlog,    \* jobs the dispatch stage has still to enqueue
    queue,      \* hookQueue
    closed,     \* hookClosed; the channel is closed
    cancelled,  \* hookCtx is done
    at,         \* where each worker is
    job,        \* the job of each worker
    ctx,        \* the context of each worker's job
    leader,     \* the script process of each job
    strays,     \* jobs whose script left live descendants
    outcome,    \* what recordLimitHookResult was told about each job
    stop,       \* where each caller of stopLimitHooks is
    reading,    \* the occupancy a goroutine has read and not yet published
    gauge       \* limit_hook_in_flight and limit_hook_queue_depth

planVars == <<limited, pending, handled>>
poolVars == <<closed, cancelled, stop>>
vars == <<limited, pending, handled, issued, backlog, queue, closed, cancelled, at,
          job, ctx, leader, strays, outcome, stop, reading, gauge>>

\* "taken" and "done" have still to publish the occupancy they read.
Busy == {"taken", "waiting", "posting", "terminating", "cleaning"}
WorkerStates == Busy \cup {"off", "idle", "done", "gone"}

TypeOK ==
    /\ limited \in SUBSET Users /\ pending \in SUBSET Users /\ handled \in SUBSET Users
    /\ issued \in 0..MaxJobs
    /\ backlog \in Seq(Job)
    /\ queue \in Seq(Job) /\ Len(queue) <= Capacity
    /\ closed \in BOOLEAN /\ cancelled \in BOOLEAN
    /\ at \in [Workers -> WorkerStates]
    /\ job \in [Workers -> Job \cup {NoJob}]
    /\ ctx \in [Workers -> {"open", "deadline", "canceled"}]
    /\ leader \in [Ids -> {"none", "running", "ok", "failed"}]
    /\ strays \in SUBSET Ids
    /\ outcome \in [Ids -> Seq(Outcomes)]
    /\ stop \in [Stoppers -> {"out", "closing", "waiting", "joining", "returned"}]
    /\ reading \in [Workers \cup {Cycle} -> Occupancy \cup {NoReading}]
    /\ gauge \in Occupancy

Init ==
    /\ limited = {} /\ pending = {} /\ handled = {}
    /\ issued = 0
    /\ backlog = <<>> /\ queue = <<>>
    /\ closed = FALSE /\ cancelled = FALSE
    /\ at = [w \in Workers |-> "off"]
    /\ job = [w \in Workers |-> NoJob]
    /\ ctx = [w \in Workers |-> "open"]
    /\ leader = [i \in Ids |-> "none"]
    /\ strays = {}
    /\ outcome = [i \in Ids |-> <<>>]
    /\ stop = [s \in Stoppers |-> "out"]
    /\ reading = [g \in Workers \cup {Cycle} |-> NoReading]
    /\ gauge = [inFlight |-> 0, queued |-> 0]

InFlight(a) == Cardinality({w \in Workers : a[w] \in Busy})
Record(i, o) == outcome' = [outcome EXCEPT ![i] = Append(@, o)]

\* observeLimitHookExecutor: the occupancy is read in one step, ...
Read(g, a, q) ==
    reading' = [reading EXCEPT ![g] = [inFlight |-> InFlight(a), queued |-> Len(q)]]

\* ... and the gauges are set in a later one.
Show(g) ==
    /\ gauge' = reading[g]
    /\ reading' = [reading EXCEPT ![g] = NoReading]

-----------------------------------------------------------------------------
(* The control cycle, which holds the manager's operation gate.            *)

CycleFree == backlog = <<>> /\ reading[Cycle] = NoReading

\* The users of S the previous plan did not limit.
Newly(S) == S \ limited

\* publishSystemdCPUPointsPlan, or the release of a plan when S is empty.
Publish(S) ==
    /\ CycleFree /\ S # limited
    /\ limited' = S
    /\ pending' = pending \cup Newly(S)
    /\ handled' = handled \cap S
    /\ UNCHANGED <<issued, backlog, queue, poolVars, at, job, ctx, leader, strays,
                   outcome, reading, gauge>>

\* The jobs of n notified users, for the mechanisms of the configuration.
Jobs(n, mechanisms) ==
    [k \in 1..(n * Len(mechanisms)) |->
        [id |-> issued + k, kind |-> mechanisms[((k - 1) % Len(mechanisms)) + 1]]]

Mechanisms == {<<>>, <<"script">>, <<"http">>, <<"script", "http">>}

\* Fault: a user released in the meantime is notified all the same.
BadTold == pending

\* The marked users that are still limited.
Told == pending \cap limited

\* stageDispatchLimitHooks; without mechanisms hooks are disabled.
DispatchLimitHooks(mechanisms) ==
    LET jobs == Jobs(Cardinality(Told), mechanisms)
    IN  /\ CycleFree /\ pending # {}
        /\ issued + Len(jobs) <= MaxJobs
        /\ backlog' = jobs
        /\ issued' = issued + Len(jobs)
        /\ handled' = handled \cup Told
        /\ pending' = {}
        /\ UNCHANGED <<limited, queue, poolVars, at, job, ctx, leader, strays,
                       outcome, reading, gauge>>

\* The non-blocking send finds no room.
Full == Len(queue) >= Capacity

\* Fault: a job that is turned away is forgotten.
Forget(o) == o \in Outcomes /\ UNCHANGED <<outcome, queue, reading>>

\* The next job is turned away.
Reject(o) == Record(Head(backlog).id, o) /\ UNCHANGED <<queue, reading>>

\* enqueueLimitHookJob: the first job starts the workers.
EnqueueLimitHookJob ==
    /\ backlog # <<>> /\ reading[Cycle] = NoReading
    /\ backlog' = Tail(backlog)
    /\ at' = IF closed THEN at ELSE [w \in Workers |-> IF at[w] = "off" THEN "idle" ELSE at[w]]
    /\ \/ /\ ~closed /\ ~Full
          /\ queue' = Append(queue, Head(backlog))
          /\ Read(Cycle, at', queue')
          /\ UNCHANGED outcome
       \/ ~closed /\ Full /\ Reject("saturated")
       \/ closed /\ Reject("cancelled")
    /\ UNCHANGED <<planVars, issued, poolVars, job, ctx, leader, strays, gauge>>

\* ... and its trailing observation.
ObserveEnqueue ==
    /\ reading[Cycle] # NoReading
    /\ Show(Cycle)
    /\ UNCHANGED <<planVars, issued, backlog, queue, poolVars, at, job, ctx, leader,
                   strays, outcome>>

-----------------------------------------------------------------------------
(* A worker and the script or request of its job.                          *)

\* runLimitHookWorker receives a job.
Take(w) ==
    /\ at[w] = "idle" /\ queue # <<>>
    /\ job' = [job EXCEPT ![w] = Head(queue)]
    /\ queue' = Tail(queue)
    /\ at' = [at EXCEPT ![w] = "taken"]
    /\ Read(w, at', queue')
    /\ UNCHANGED <<planVars, issued, backlog, poolVars, ctx, leader, strays, outcome, gauge>>

\* The end of runLimitHookJob: the outcome is recorded and the worker is not
\* in flight any more.
End(w, o) ==
    /\ Record(job[w].id, o)
    /\ job' = [job EXCEPT ![w] = NoJob]
    /\ ctx' = [ctx EXCEPT ![w] = "open"]
    /\ at' = [at EXCEPT ![w] = "done"]

\* sanitizeScriptHookError and limitHookOutcome of an error under context c.
ErrorOutcome(c) ==
    CASE c = "deadline" -> "timeout"
      [] c = "canceled" -> "cancelled"
      [] OTHER -> "failure"

\* runLimitHookJob up to the first wait: the context is derived from hookCtx.
\* A script starts or is refused whatever the context says; the HTTP client
\* sends nothing under a context that is done.
Begin(w) ==
    LET c == IF cancelled THEN "canceled" ELSE "open"
        i == job[w].id
    IN  /\ at[w] = "taken"
        /\ gauge' = reading[w]
        /\ \/ /\ job[w].kind = "http" /\ ~cancelled
              /\ at' = [at EXCEPT ![w] = "posting"]
              /\ ctx' = [ctx EXCEPT ![w] = c]
              /\ reading' = [reading EXCEPT ![w] = NoReading]
              /\ UNCHANGED <<job, leader, outcome>>
           \/ /\ job[w].kind = "script"
              /\ at' = [at EXCEPT ![w] = "waiting"]
              /\ ctx' = [ctx EXCEPT ![w] = c]
              /\ leader' = [leader EXCEPT ![i] = "running"]
              /\ reading' = [reading EXCEPT ![w] = NoReading]
              /\ UNCHANGED <<job, outcome>>
           \/ /\ job[w].kind = "script" \/ cancelled
              /\ \E o \in {"failure", ErrorOutcome(c)} : End(w, o)
              /\ Read(w, at', queue)
              /\ UNCHANGED leader
        /\ UNCHANGED <<planVars, issued, backlog, queue, poolVars, strays>>

\* The deadline of the job passes.
Deadline(w) ==
    /\ at[w] \in {"waiting", "posting", "terminating", "cleaning"} /\ ctx[w] = "open"
    /\ ctx' = [ctx EXCEPT ![w] = "deadline"]
    /\ UNCHANGED <<planVars, issued, backlog, queue, poolVars, at, job, leader, strays,
                   outcome, reading, gauge>>

\* The script exits, leaving descendants or not.
ScriptExits(w) ==
    /\ at[w] \in {"waiting", "terminating"} /\ leader[job[w].id] = "running"
    /\ \E l \in {"ok", "failed"} : leader' = [leader EXCEPT ![job[w].id] = l]
    /\ \E S \in {{}, {job[w].id}} : strays' = strays \cup S
    /\ UNCHANGED <<planVars, issued, backlog, queue, poolVars, at, job, ctx, outcome,
                   reading, gauge>>

\* The last descendant exits by itself.
StraysExit(i) ==
    /\ i \in strays
    /\ strays' = strays \ {i}
    /\ UNCHANGED <<planVars, issued, backlog, queue, poolVars, at, job, ctx, leader,
                   outcome, reading, gauge>>

\* runLimitHookScript, the script's exit is received.  The group is inspected:
\* descendants are terminated, which makes a successful script a failed one.
Reap(w) ==
    LET i == job[w].id IN
    /\ at[w] = "waiting" /\ leader[i] \in {"ok", "failed"}
    /\ \/ /\ i \notin strays
          /\ End(w, IF leader[i] = "ok" THEN "success" ELSE ErrorOutcome(ctx[w]))
          /\ Read(w, at', queue)
       \/ /\ i \in strays
          /\ at' = [at EXCEPT ![w] = "cleaning"]
          /\ UNCHANGED <<job, ctx, outcome, reading>>
    /\ UNCHANGED <<planVars, issued, backlog, queue, poolVars, leader, strays, gauge>>

\* runLimitHookScript, the context is done and the exit was not received yet:
\* terminateLimitHookProcessGroup sends SIGTERM.
Terminate(w) ==
    /\ at[w] = "waiting" /\ ctx[w] # "open"
    /\ at' = [at EXCEPT ![w] = "terminating"]
    /\ UNCHANGED <<planVars, issued, backlog, queue, poolVars, job, ctx, leader, strays,
                   outcome, reading, gauge>>

\* Fault: a script that exits within the grace period is not followed by SIGKILL.
BadKillGroup(i) ==
    /\ leader' = [leader EXCEPT ![i] = IF @ = "running" THEN "failed" ELSE @]
    /\ strays' = IF leader[i] = "running" THEN strays \ {i} ELSE strays

\* Fault: there is no SIGKILL, the script is waited for.
PatientKillGroup(i) == leader[i] # "running" /\ strays' = strays \ {i} /\ UNCHANGED leader

\* SIGKILL to the group, which then drains.
KillGroup(i) ==
    /\ leader' = [leader EXCEPT ![i] = IF @ = "running" THEN "failed" ELSE @]
    /\ strays' = strays \ {i}

\* The end of terminateLimitHookProcessGroup and of
\* cleanupCompletedLimitHookProcessGroup.
Kill(w) ==
    LET i == job[w].id IN
    /\ at[w] \in {"terminating", "cleaning"}
    /\ KillGroup(i)
    /\ End(w, IF at[w] = "cleaning" /\ leader[i] = "ok" THEN "failure" ELSE ErrorOutcome(ctx[w]))
    /\ Read(w, at', queue)
    /\ UNCHANGED <<planVars, issued, backlog, queue, poolVars, gauge>>

\* postLimitHookWithClient: a response, an error or a timeout of the transport;
\* a response may have arrived just before the context was done.
Post(w) ==
    /\ at[w] = "posting"
    /\ \E o \in {"success", "failure", "timeout", ErrorOutcome(ctx[w])} : End(w, o)
    /\ Read(w, at', queue)
    /\ UNCHANGED <<planVars, issued, backlog, queue, poolVars, leader, strays, gauge>>

\* The worker publishes the occupancy and returns to the queue.
Settle(w) ==
    /\ at[w] = "done"
    /\ Show(w)
    /\ at' = [at EXCEPT ![w] = "idle"]
    /\ UNCHANGED <<planVars, issued, backlog, queue, poolVars, job, ctx, leader, strays, outcome>>

\* The channel is closed and empty.
Drained == closed /\ queue = <<>>

\* The range over the queue ends.
Exit(w) ==
    /\ at[w] = "idle" /\ Drained
    /\ at' = [at EXCEPT ![w] = "gone"]
    /\ UNCHANGED <<planVars, issued, backlog, queue, poolVars, job, ctx, leader, strays,
                   outcome, reading, gauge>>

-----------------------------------------------------------------------------
(* stopLimitHooks                                                          *)

CloseQueue(s) ==
    /\ stop[s] = "out"
    /\ stop' = [stop EXCEPT ![s] = IF closed THEN "joining" ELSE "closing"]
    /\ closed' = TRUE
    /\ UNCHANGED <<planVars, issued, backlog, queue, cancelled, at, job, ctx, leader,
                   strays, outcome, reading, gauge>>

Cancel(s) ==
    /\ stop[s] = "closing"
    /\ stop' = [stop EXCEPT ![s] = "waiting"]
    /\ cancelled' = TRUE
    /\ ctx' = [w \in Workers |->
                 IF at[w] \in Busy \ {"taken"} /\ ctx[w] = "open" THEN "canceled" ELSE ctx[w]]
    /\ UNCHANGED <<planVars, issued, backlog, queue, closed, at, job, leader, strays,
                   outcome, reading, gauge>>

\* Fault: only the first caller waits.
BadWaited(s) == stop[s] = "waiting" => \A w \in Workers : at[w] \in {"off", "gone"}

\* hookWG.Wait has nothing to wait for.
Waited(s) == s \in Stoppers /\ \A w \in Workers : at[w] \in {"off", "gone"}

\* The end of stopLimitHooks; the caller that closed the queue publishes an empty one.
Return(s) ==
    /\ stop[s] \in {"waiting", "joining"}
    /\ Waited(s)
    /\ stop' = [stop EXCEPT ![s] = "returned"]
    /\ gauge' = IF stop[s] = "waiting" THEN [inFlight |-> 0, queued |-> 0] ELSE gauge
    /\ UNCHANGED <<planVars, issued, backlog, queue, closed, cancelled, at, job, ctx,
                   leader, strays, outcome, reading>>

-----------------------------------------------------------------------------
CycleStep ==
    \/ \E S \in SUBSET Users : Publish(S)
    \/ \E mechanisms \in Mechanisms : DispatchLimitHooks(mechanisms)
    \/ EnqueueLimitHookJob
    \/ ObserveEnqueue

WorkerStep(w) ==
    \/ Take(w) \/ Begin(w) \/ Reap(w) \/ Terminate(w) \/ Kill(w) \/ Post(w)
    \/ Settle(w) \/ Exit(w)

StopStep(s) == CloseQueue(s) \/ Cancel(s) \/ Return(s)

Next ==
    \/ CycleStep
    \/ \E w \in Workers : WorkerStep(w) \/ Deadline(w) \/ ScriptExits(w)
    \/ \E i \in Ids : StraysExit(i)
    \/ \E s \in Stoppers : StopStep(s)

Spec == Init /\ [][Next]_vars

\* Goroutines that can run do, and every job has a deadline.  Nothing is
\* assumed of scripts, of new plans or of a shutdown being asked for.
FairSpec ==
    /\ Spec
    /\ WF_vars(EnqueueLimitHookJob \/ ObserveEnqueue)
    /\ \A w \in Workers : WF_vars(WorkerStep(w)) /\ WF_vars(Deadline(w))
    /\ \A s \in Stoppers : WF_vars(Cancel(s) \/ Return(s))

-----------------------------------------------------------------------------
(* Properties                                                              *)

Elements(q) == {q[k] : k \in 1..Len(q)}

\* The jobs that were created and have not come to an end.
Underway ==
    {j.id : j \in Elements(backlog) \cup Elements(queue)}
        \cup {job[w].id : w \in {v \in Workers : job[v] # NoJob}}

\* "Every accepted or rejected delivery records exactly one terminal value"
\* (docs/LIMIT-HOOKS.md): a job that was created is underway or has one
\* outcome, never both, whatever shutdown and saturation do.
RecordedOnce ==
    \A i \in Ids : Len(outcome[i]) = (IF i <= issued /\ i \notin Underway THEN 1 ELSE 0)

\* When stopLimitHooks returns, to either of its callers, no worker, queued job
\* or script process is left, so that the state cleanup that follows runs alone.
StoppedIsQuiet ==
    (\E s \in Stoppers : stop[s] = "returned") =>
        /\ queue = <<>>
        /\ \A w \in Workers : job[w] = NoJob
        /\ strays = {} /\ \A i \in Ids : leader[i] # "running"

\* A worker is not released while a process of its script's group is alive,
\* and only a script that exited well and alone is a success.
NoOrphan ==
    \A i \in Ids : outcome[i] # <<>> =>
        /\ leader[i] # "running" /\ i \notin strays
        /\ outcome[i] = <<"success">> => leader[i] \in {"ok", "none"}

\* A limited user waits for its notification or has had it: users marked by a
\* plan and released, limited again or dispatched in between are neither lost
\* nor notified twice for one spell of being limited.
NotifiedOnce ==
    \A u \in Users : IF u \in limited THEN u \in pending <=> u \notin handled
                                      ELSE u \notin handled

\* A caller of stopLimitHooks gets back, though scripts may ignore SIGTERM.
StopReturns == \A s \in Stoppers : stop[s] # "out" ~> stop[s] = "returned"

\* Every job that was created comes to an end.
JobsEnd == \A i \in Ids : i \in Underway ~> outcome[i] # <<>>

\* docs/TECHNICAL-SPECIFICATION.md: the gauges are the "current deliveries owned
\* by workers" and the "current pending deliveries".  With no job left and
\* nothing left to publish they are zero.
GaugesSettle ==
    (queue = <<>> /\ \A g \in Workers : at[g] \notin Busy /\ reading[g] = NoReading)
        /\ reading[Cycle] = NoReading => gauge = [inFlight |-> 0, queued |-> 0]
=============================================================================
