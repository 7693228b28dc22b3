-------------------------- MODULE LimitHooksProofs --------------------------
(***************************************************************************)
(* Proofs about LimitHooks for any users, workers, queue capacity, number  *)
(* of jobs and callers of stopLimitHooks: every job is recorded once, a    *)
(* stopped executor is quiet, no script outlives its job, and a limited    *)
(* user is notified once.                                                  *)
(***************************************************************************)
EXTENDS LimitHooks, FiniteSetTheorems, SequenceTheorems, TLAPS

(* Where the jobs are: what each operation on the backlog, the queue and the
   workers does to the place of a job and to its outcome. *)

\* The types of everything but the gauges and what is read for them.
Types ==
    /\ limited \in SUBSET Users /\ pending \in SUBSET Users /\ handled \in SUBSET Users
    /\ issued \in 0..MaxJobs
    /\ backlog \in Seq(Job)
    /\ queue \in Seq(Job)
    /\ closed \in BOOLEAN
    /\ at \in [Workers -> WorkerStates]
    /\ job \in [Workers -> Job \cup {NoJob}]
    /\ leader \in [Ids -> {"none", "running", "ok", "failed"}]
    /\ strays \in SUBSET Ids
    /\ outcome \in [Ids -> Seq(Outcomes)]
    /\ stop \in [Stoppers -> {"out", "closing", "waiting", "joining", "returned"}]

Queued(i) == \E k \in 1..Len(queue) : queue[k].id = i
Held(i) == \E w \in Workers : job[w] # NoJob /\ job[w].id = i

\* The identifiers after this one have not left the dispatch stage.
Sent == issued - Len(backlog)

\* The backlog is the newest run of identifiers; a job that was sent is in one
\* place of the queue, with one worker, or has its one outcome.
Placement ==
    /\ Len(backlog) <= issued
    /\ \A k \in 1..Len(backlog) : backlog[k].id = Sent + k
    /\ \A k \in 1..Len(queue) : queue[k].id <= Sent
    /\ \A k, l \in 1..Len(queue) : queue[k].id = queue[l].id => k = l
    /\ \A w \in Workers : job[w] # NoJob => job[w].id <= Sent /\ ~Queued(job[w].id)
    /\ \A v, w \in Workers : job[v] # NoJob /\ job[w] # NoJob /\ job[v].id = job[w].id => v = w
    /\ \A i \in Ids : IF i > Sent \/ Queued(i) \/ Held(i) THEN outcome[i] = <<>>
                                                          ELSE Len(outcome[i]) = 1

-----------------------------------------------------------------------------
(* Placement.                                                              *)

\* The identifiers in the queue and with the workers are identifiers.
LEMMA IdTypes ==
    ASSUME Types
    PROVE  /\ \A k \in 1..Len(queue) : queue[k] \in Job /\ queue[k].id \in Nat /\ queue[k].id \in Ids
           /\ \A w \in Workers : job[w] # NoJob => job[w] \in Job /\ job[w].id \in Nat /\ job[w].id \in Ids
<1>1. \A j \in Job : j.id \in Nat /\ j.id \in Ids
  BY DEF Job, Ids
<1>2. \A k \in 1..Len(queue) : queue[k] \in Job
  BY DEF Types
<1>3. \A w \in Workers : job[w] # NoJob => job[w] \in Job
  BY Zenon DEF Types
<1>4. QED
  BY <1>1, <1>2, <1>3, Zenon

\* A step that moves no job and records nothing keeps the placement.
LEMMA PlacementFrame ==
    ASSUME Placement, UNCHANGED <<issued, backlog, queue, job, outcome>>
    PROVE  Placement'
<1>1. Sent' = Sent
  BY Zenon DEF Sent
<1>2. \A i : (Queued(i)' <=> Queued(i)) /\ (Held(i)' <=> Held(i))
  BY Zenon DEF Queued, Held
<1>3. QED
  BY <1>1, <1>2, Zenon DEF Placement

\* The jobs of a dispatch are numbered after the ones there were.
LEMMA NewJobs ==
    ASSUME Types, NEW n \in Nat, NEW mechanisms \in Mechanisms,
           issued + Len(Jobs(n, mechanisms)) <= MaxJobs
    PROVE  /\ Jobs(n, mechanisms) \in Seq(Job)
           /\ \A k \in 1..Len(Jobs(n, mechanisms)) : Jobs(n, mechanisms)[k].id = issued + k
<1> DEFINE N == n * Len(mechanisms)
           F(k) == [id |-> issued + k, kind |-> mechanisms[((k - 1) % Len(mechanisms)) + 1]]
<1>1. N \in Nat
  <2>1. Len(mechanisms) \in Nat
    BY DEF Mechanisms
  <2>2. QED
    BY <2>1
<1>2. \A k \in 1..N : mechanisms[((k - 1) % Len(mechanisms)) + 1] \in {"script", "http"}
  <2>1. CASE mechanisms = <<>>
    BY <2>1
  <2>2. CASE mechanisms = <<"script">>
    BY <2>2
  <2>3. CASE mechanisms = <<"http">>
    BY <2>3
  <2>4. CASE mechanisms = <<"script", "http">>
    BY <2>4
  <2>5. QED
    BY <2>1, <2>2, <2>3, <2>4, Zenon DEF Mechanisms
<1> HIDE DEF N
<1>3. Jobs(n, mechanisms) = [k \in 1..N |-> F(k)]
  BY Zenon DEF Jobs, N
<1>4. Len(Jobs(n, mechanisms)) = N
  <2> HIDE DEF F
  <2>1. QED
    BY <1>1, <1>3
<1>5. \A k \in 1..N : issued + k \in Ids
  BY <1>1, <1>4, HooksAssumption DEF Types, Ids
<1>6. Jobs(n, mechanisms) \in [1..N -> Job]
  BY <1>2, <1>3, <1>5 DEF Job
<1>7. Jobs(n, mechanisms) \in Seq(Job)
  BY <1>1, <1>6
<1>8. \A k \in 1..N : Jobs(n, mechanisms)[k].id = issued + k
  <2>1. \A k \in 1..N : F(k).id = issued + k
    BY Zenon
  <2> HIDE DEF F
  <2>2. \A k \in 1..N : Jobs(n, mechanisms)[k] = F(k)
    BY <1>3, Zenon
  <2>3. QED
    BY <2>1, <2>2, Zenon
<1>9. QED
  BY <1>4, <1>7, <1>8, Zenon

\* stageDispatchLimitHooks
LEMMA DispatchSteps ==
    ASSUME Types, NEW mechanisms \in Mechanisms, DispatchLimitHooks(mechanisms)
    PROVE  /\ backlog = <<>> /\ backlog' \in Seq(Job)
           /\ issued' = issued + Len(backlog') /\ issued' \in 0..MaxJobs
           /\ \A k \in 1..Len(backlog') : backlog'[k].id = issued + k
<1> DEFINE n == Cardinality(pending \cap limited)
<1>1. n \in Nat
  <2>1. IsFiniteSet(pending \cap limited)
    BY FS_Subset, HooksAssumption, Zenon DEF Types
  <2>2. QED
    BY <2>1, FS_CardinalityType, Zenon
<1> HIDE DEF n
<1>2. /\ backlog = <<>> /\ backlog' = Jobs(n, mechanisms)
      /\ issued + Len(Jobs(n, mechanisms)) <= MaxJobs
      /\ issued' = issued + Len(Jobs(n, mechanisms))
  BY Zenon DEF DispatchLimitHooks, CycleFree, Told, n
<1>3. /\ backlog' \in Seq(Job)
      /\ \A k \in 1..Len(backlog') : backlog'[k].id = issued + k
  BY <1>1, <1>2, NewJobs, Zenon
<1>4. QED
  BY <1>2, <1>3, HooksAssumption DEF Types

\* The dispatch stage only lengthens the backlog.
LEMMA PlacementDispatch ==
    ASSUME Types, Placement, NEW mechanisms \in Mechanisms, DispatchLimitHooks(mechanisms)
    PROVE  Placement'
<1>1. UNCHANGED <<queue, job, outcome>>
  BY Zenon DEF DispatchLimitHooks
<1>2. Sent' = Sent
  BY DispatchSteps DEF Sent, Types
<1>3. \A i : (Queued(i)' <=> Queued(i)) /\ (Held(i)' <=> Held(i))
  BY <1>1, Zenon DEF Queued, Held
<1>4. Sent = issued /\ issued \in Nat /\ Len(backlog') \in Nat
  <2>1. backlog = <<>> /\ backlog' \in Seq(Job)
    BY DispatchSteps, Zenon
  <2>2. issued \in Nat
    BY HooksAssumption DEF Types
  <2>3. QED
    BY <2>1, <2>2 DEF Sent
<1>5. /\ Len(backlog') <= issued'
      /\ \A k \in 1..Len(backlog') : backlog'[k].id = Sent' + k
  BY <1>2, <1>4, DispatchSteps
<1>6. QED
  BY <1>1, <1>2, <1>3, <1>5, Zenon DEF Placement

\* The head of the backlog is the next identifier to be sent.
LEMMA NextSent ==
    ASSUME Types, Placement, backlog # <<>>, backlog' = Tail(backlog), issued' = issued
    PROVE  /\ Head(backlog).id = Sent + 1 /\ Sent' = Sent + 1 /\ Sent \in Nat
           /\ Head(backlog) \in Job
           /\ Len(backlog') <= issued'
           /\ \A k \in 1..Len(backlog') : backlog'[k].id = Sent' + k
<1>1. Len(backlog) \in Nat \ {0} /\ issued \in Nat
  BY HooksAssumption DEF Types
<1>2. Len(backlog') = Len(backlog) - 1 /\ \A k \in 1..Len(backlog') : backlog'[k] = backlog[k + 1]
  BY <1>1 DEF Types
<1>3. Head(backlog) = backlog[1] /\ Head(backlog) \in Job
  BY <1>1 DEF Types
<1>4. Sent' = Sent + 1 /\ Sent \in Nat
  BY <1>1, <1>2 DEF Sent, Placement
<1>5. Head(backlog).id = Sent + 1
  BY <1>1, <1>3 DEF Placement
<1>6. \A k \in 1..Len(backlog') : backlog'[k].id = Sent' + k
  <2> TAKE k \in 1..Len(backlog')
  <2>1. backlog[k + 1].id = Sent + (k + 1)
    BY <1>1, <1>2 DEF Placement
  <2>2. QED
    BY <1>2, <1>4, <2>1
<1>7. QED
  BY <1>1, <1>2, <1>3, <1>4, <1>5, <1>6 DEF Placement

\* enqueueLimitHookJob turns the next job away.
LEMMA PlacementReject ==
    ASSUME Types, Placement, NEW o, backlog # <<>>, backlog' = Tail(backlog),
           Record(Head(backlog).id, o), UNCHANGED <<issued, queue, job>>
    PROVE  Placement'
<1> DEFINE h == Head(backlog).id
<1>1. \A i : (Queued(i)' <=> Queued(i)) /\ (Held(i)' <=> Held(i))
  BY Zenon DEF Queued, Held
<1>2. h = Sent + 1 /\ Sent' = Sent + 1 /\ Sent \in Nat /\ h \in Ids
  BY NextSent, Zenon DEF Job
<1>3. ~Queued(h) /\ ~Held(h)
  BY <1>2, IdTypes DEF Placement, Queued, Held
<1>4. outcome[h] = <<>>
  BY <1>2 DEF Placement
<1>5. Len(outcome'[h]) = 1 /\ \A i \in Ids \ {h} : outcome'[i] = outcome[i]
  BY <1>2, <1>4 DEF Record, Types
<1>6. \A i \in Ids : IF i > Sent' \/ Queued(i)' \/ Held(i)' THEN outcome'[i] = <<>>
                                                           ELSE Len(outcome'[i]) = 1
  <2> TAKE i \in Ids
  <2>1. CASE i = h
    BY <2>1, <1>1, <1>2, <1>3, <1>5
  <2>2. CASE i # h
    <3>1. i > Sent' <=> i > Sent
      BY <2>2, <1>2 DEF Ids
    <3>2. QED
      BY <2>2, <3>1, <1>1, <1>5, Zenon DEF Placement
  <2>3. QED
    BY <2>1, <2>2, Zenon
<1>7. \A k \in 1..Len(queue) : queue[k].id <= Sent'
  BY <1>2, IdTypes DEF Placement
<1>8. \A w \in Workers : job[w] # NoJob => job[w].id <= Sent'
  BY <1>2, IdTypes DEF Placement
<1>9. QED
  BY <1>1, <1>6, <1>7, <1>8, NextSent, Zenon DEF Placement

\* enqueueLimitHookJob accepts the next job.
LEMMA PlacementAdmit ==
    ASSUME Types, Placement, backlog # <<>>, backlog' = Tail(backlog),
           queue' = Append(queue, Head(backlog)), UNCHANGED <<issued, job, outcome>>
    PROVE  Placement'
<1> DEFINE h == Head(backlog).id
<1>1. h = Sent + 1 /\ Sent' = Sent + 1 /\ Sent \in Nat /\ h \in Ids
  BY NextSent, Zenon DEF Job
<1>2. Len(queue) \in Nat /\ Len(queue') = Len(queue) + 1
  BY NextSent DEF Types
<1>3. /\ \A k \in 1..Len(queue) : queue'[k] = queue[k]
      /\ queue'[Len(queue')].id = h
  BY <1>2, NextSent DEF Types
<1>4. \A i : (Held(i)' <=> Held(i)) /\ (Queued(i)' <=> Queued(i) \/ i = h)
  BY <1>2, <1>3 DEF Held, Queued
<1>5. \A k \in 1..Len(queue') : queue'[k].id <= Sent'
  BY <1>1, <1>2, <1>3, IdTypes DEF Placement
<1>6. \A k, l \in 1..Len(queue') : queue'[k].id = queue'[l].id => k = l
  <2>1. \A k \in 1..Len(queue) : queue[k].id # h
    BY <1>1, IdTypes DEF Placement
  <2>2. QED
    BY <1>2, <1>3, <2>1 DEF Placement
<1>7. \A w \in Workers : job[w] # NoJob => job[w].id <= Sent' /\ ~Queued(job[w].id)'
  <2> SUFFICES ASSUME NEW w \in Workers, job[w] # NoJob
               PROVE  job[w].id <= Sent' /\ ~Queued(job[w].id)'
    BY Zenon
  <2>1. job[w].id <= Sent /\ ~Queued(job[w].id) /\ job[w].id \in Nat
    BY IdTypes, Zenon DEF Placement
  <2>2. QED
    BY <2>1, <1>1, <1>4
<1>8. \A i \in Ids : IF i > Sent' \/ Queued(i)' \/ Held(i)' THEN outcome[i] = <<>>
                                                           ELSE Len(outcome[i]) = 1
  <2> TAKE i \in Ids
  <2>1. i > Sent <=> i > Sent' \/ i = h
    BY <1>1 DEF Ids
  <2>2. QED
    BY <2>1, <1>4, Zenon DEF Placement
<1>9. QED
  BY <1>5, <1>6, <1>7, <1>8, NextSent, Zenon DEF Placement

\* A worker takes the head of the queue.
LEMMA PlacementTake ==
    ASSUME Types, Placement, NEW w \in Workers, job[w] = NoJob, queue # <<>>,
           job' = [job EXCEPT ![w] = Head(queue)], queue' = Tail(queue),
           UNCHANGED <<issued, backlog, outcome>>
    PROVE  Placement'
<1> DEFINE h == Head(queue).id
<1>1. Len(queue) \in Nat \ {0} /\ Head(queue) = queue[1] /\ Head(queue) \in Job
  BY DEF Types
<1>2. Len(queue') = Len(queue) - 1 /\ \A k \in 1..Len(queue') : queue'[k] = queue[k + 1]
  BY <1>1 DEF Types
<1>3. Head(queue) # NoJob /\ h \in Ids /\ h <= Sent
  BY <1>1, IdTypes, HooksAssumption DEF Placement
<1>4. job'[w] = Head(queue) /\ \A v \in Workers \ {w} : job'[v] = job[v]
  BY Zenon DEF Types
<1>5. \A i : Queued(i)' <=> Queued(i) /\ i # h
  <2>1. ASSUME NEW i, Queued(i)'
        PROVE  Queued(i) /\ i # h
    <3>1. PICK k \in 1..Len(queue') : queue'[k].id = i
      BY <2>1, Zenon DEF Queued
    <3>2. k + 1 \in 1..Len(queue) /\ queue[k + 1].id = i /\ k + 1 # 1 /\ 1 \in 1..Len(queue)
      BY <3>1, <1>1, <1>2
    <3>3. QED
      BY <3>2, <1>1 DEF Queued, Placement
  <2>2. ASSUME NEW i, Queued(i), i # h
        PROVE  Queued(i)'
    <3>1. PICK k \in 1..Len(queue) : queue[k].id = i
      BY <2>2, Zenon DEF Queued
    <3>2. k # 1
      BY <3>1, <2>2, <1>1, Zenon
    <3>3. k - 1 \in 1..Len(queue') /\ queue'[k - 1] = queue[k]
      BY <3>2, <1>1, <1>2
    <3>4. QED
      BY <3>1, <3>3, Zenon DEF Queued
  <2>3. QED
    BY <2>1, <2>2, Zenon
<1>6. \A i : Held(i)' <=> Held(i) \/ i = h
  BY <1>3, <1>4, Zenon DEF Held
<1>7. Queued(h)
  BY <1>1 DEF Queued
<1>8. /\ \A k \in 1..Len(queue') : queue'[k].id <= Sent
      /\ \A k, l \in 1..Len(queue') : queue'[k].id = queue'[l].id => k = l
  <2>1. \A k \in 1..Len(queue') : k + 1 \in 1..Len(queue)
    BY <1>1, <1>2
  <2>2. \A k, l \in 1..Len(queue') : queue[k + 1].id = queue[l + 1].id => k + 1 = l + 1
    BY <2>1, Zenon DEF Placement
  <2>3. QED
    BY <1>1, <1>2, <2>1, <2>2 DEF Placement
<1>9. \A v \in Workers : job'[v] # NoJob => job'[v].id <= Sent /\ ~Queued(job[v].id)'
  <2> TAKE v \in Workers
  <2>1. Queued(job[v].id)' <=> Queued(job'[v].id) /\ job'[v].id # h
    BY <1>5, Zenon
  <2>2. QED
    BY <1>3, <1>4, <2>1, Zenon DEF Placement
<1>10. \A u, v \in Workers : job'[u] # NoJob /\ job'[v] # NoJob /\ job'[u].id = job'[v].id => u = v
  BY <1>4, <1>7 DEF Placement
<1>11. \A i \in Ids : IF i > Sent \/ Queued(i)' \/ Held(i)' THEN outcome[i] = <<>>
                                                           ELSE Len(outcome[i]) = 1
  BY <1>5, <1>6, <1>7, Zenon DEF Placement
<1>12. Sent' = Sent
  BY Zenon DEF Sent
<1>13. QED
  BY <1>8, <1>9, <1>10, <1>11, <1>12, Zenon DEF Placement

\* A worker's job ends.
LEMMA PlacementEnd ==
    ASSUME Types, Placement, NEW w \in Workers, NEW o, job[w] # NoJob, End(w, o),
           UNCHANGED <<issued, backlog, queue>>
    PROVE  Placement'
<1> DEFINE h == job[w].id
<1>1. h \in Ids /\ h \in Nat /\ h <= Sent /\ ~Queued(h) /\ Held(h)
  BY IdTypes, Zenon DEF Placement, Held
<1>2. job'[w] = NoJob /\ \A v \in Workers \ {w} : job'[v] = job[v]
  BY Zenon DEF End, Types
<1>3. outcome[h] = <<>>
  BY <1>1, Zenon DEF Placement
<1>4. Len(outcome'[h]) = 1 /\ \A i \in Ids \ {h} : outcome'[i] = outcome[i]
  BY <1>1, <1>3 DEF End, Record, Types
<1>5. \A i : Held(i)' <=> Held(i) /\ i # h
  BY <1>2 DEF Held, Placement
<1>6. \A i : Queued(i)' <=> Queued(i)
  BY Zenon DEF Queued
<1>7. Sent' = Sent /\ Sent \in Int
  BY HooksAssumption DEF Sent, Types
<1>8. \A i \in Ids : IF i > Sent' \/ Queued(i)' \/ Held(i)' THEN outcome'[i] = <<>>
                                                           ELSE Len(outcome'[i]) = 1
  <2> TAKE i \in Ids
  <2>1. CASE i = h
    <3>1. ~(h > Sent)
      BY <1>1, <1>7
    <3>2. QED
      BY <2>1, <3>1, <1>1, <1>4, <1>5, <1>6, <1>7, Zenon
  <2>2. CASE i # h
    BY <2>2, <1>4, <1>5, <1>6, <1>7, Zenon DEF Placement
  <2>3. QED
    BY <2>1, <2>2, Zenon
<1>9. \A v \in Workers : job'[v] # NoJob => v # w
  BY <1>2, Zenon
<1>10. \A v \in Workers : job'[v] # NoJob =>
          /\ job'[v] = job[v] /\ job'[v].id <= Sent' /\ ~Queued(job[v].id)'
  <2> TAKE v \in Workers
  <2> HAVE job'[v] # NoJob
  <2>1. job'[v] = job[v]
    BY <1>2, <1>9, Zenon
  <2>2. job[v].id <= Sent /\ ~Queued(job[v].id)
    BY <2>1, Zenon DEF Placement
  <2>. QED
    BY <1>6, <1>7, <2>1, <2>2, Zenon DEF Queued
<1>11. \A u, v \in Workers : job'[u] # NoJob /\ job'[v] # NoJob /\ job'[u].id = job'[v].id => u = v
  BY <1>10, Zenon DEF Placement
<1>12. QED
  BY <1>7, <1>8, <1>10, <1>11, Zenon DEF Placement

-----------------------------------------------------------------------------
(* The pool, its scripts and the users it notifies. *)

Scripting == {"waiting", "terminating", "cleaning"}

\* Where the workers are, against the queue and the callers that stop them.
Pool ==
    /\ \A w \in Workers : job[w] # NoJob <=> at[w] \in Busy
    /\ \A w \in Workers : at[w] = "off" => queue = <<>> /\ \A v \in Workers : at[v] = "off"
    /\ \A w \in Workers : at[w] = "gone" => closed /\ queue = <<>>
    /\ \A s \in Stoppers : stop[s] # "out" => closed
    /\ \A s \in Stoppers : stop[s] = "returned" => \A w \in Workers : at[w] \in {"off", "gone"}

Owned(i) == \E w \in Workers : at[w] \in Scripting /\ job[w].id = i

\* A live process belongs to a worker that is waiting for it; a script that ran
\* belongs to such a worker or to a job with an outcome.
Scripts ==
    \A i \in Ids :
        /\ leader[i] = "running" \/ i \in strays => Owned(i)
        /\ leader[i] # "none" => Owned(i) \/ outcome[i] # <<>>
        /\ outcome[i] = <<"success">> => leader[i] \in {"ok", "none"}

HInv == Types /\ Placement /\ Pool /\ Scripts /\ NotifiedOnce

-----------------------------------------------------------------------------
(* The invariant, by the shape of a step.                                  *)

jobVars == <<issued, backlog, queue, outcome>>

\* Two workers never hold one job: the worker that owns a script is the one
\* that holds its job.
LEMMA OneOwner ==
    ASSUME HInv, NEW w \in Workers, at[w] \in Busy
    PROVE  /\ job[w] # NoJob /\ job[w] \in Job /\ job[w].id \in Ids
           /\ outcome[job[w].id] = <<>>
           /\ Owned(job[w].id) => at[w] \in Scripting
<1>1. job[w] # NoJob /\ job[w] \in Job /\ job[w].id \in Ids
  BY IdTypes, Zenon DEF HInv, Pool
<1>2. Held(job[w].id)
  BY <1>1, Zenon DEF Held
<1>3. outcome[job[w].id] = <<>>
  BY <1>1, <1>2, Zenon DEF HInv, Placement
<1>4. ASSUME NEW v \in Workers, at[v] \in Scripting, job[v].id = job[w].id
      PROVE  v = w
  <2>1. job[v] # NoJob
    BY <1>4, Zenon DEF HInv, Pool, Scripting, Busy
  <2>2. QED
    BY <2>1, <1>1, <1>4, Zenon DEF HInv, Placement
<1>5. QED
  BY <1>1, <1>3, <1>4, Zenon DEF Owned

\* A worker moves on and nothing else changes.
LEMMA MoveStep ==
    ASSUME HInv, NEW w \in Workers, NEW x \in WorkerStates,
           at' = [at EXCEPT ![w] = x],
           at[w] \in Busy <=> x \in Busy,
           at[w] \in Scripting => x \in Scripting,
           at[w] \notin {"off", "gone"}, x # "off",
           x = "gone" => closed /\ queue = <<>>,
           UNCHANGED <<planVars, jobVars, closed, stop, job, leader, strays>>
    PROVE  HInv'
<1>1. at'[w] = x /\ \A v \in Workers \ {w} : at'[v] = at[v]
  BY Zenon DEF HInv, Types
<1>2. Types'
  BY Zenon DEF HInv, Types, jobVars, planVars
<1>3. Placement'
  BY PlacementFrame, Zenon DEF HInv, jobVars
<1>4. Pool'
  <2>1. \A v \in Workers : at[v] # "off"
    BY Zenon DEF HInv, Pool
  <2>2. \A s \in Stoppers : stop[s] # "returned"
    BY Zenon DEF HInv, Pool
  <2>3. QED
    BY <1>1, <2>1, <2>2, Zenon DEF HInv, Pool, jobVars
<1>5. Scripts'
  <2>1. \A i : Owned(i) => Owned(i)'
    BY <1>1, Zenon DEF Owned
  <2>2. QED
    BY <2>1, Zenon DEF HInv, Scripts, jobVars
<1>6. NotifiedOnce'
  BY Zenon DEF HInv, NotifiedOnce, planVars
<1>7. QED
  BY <1>2, <1>3, <1>4, <1>5, <1>6, Zenon DEF HInv

\* A worker's job ends and its script with it.
LEMMA EndStep ==
    ASSUME HInv, NEW w \in Workers, NEW o \in Outcomes, at[w] \in Busy, End(w, o),
           UNCHANGED <<planVars, issued, backlog, queue, closed, stop>>,
           leader' \in [Ids -> {"none", "running", "ok", "failed"}],
           \A i \in Ids \ {job[w].id} : leader'[i] = leader[i],
           leader'[job[w].id] # "running",
           strays' = strays \ {job[w].id},
           o = "success" => leader'[job[w].id] \in {"ok", "none"}
    PROVE  HInv'
<1> DEFINE h == job[w].id
<1>1. job[w] # NoJob /\ h \in Ids /\ outcome[h] = <<>>
  BY OneOwner, Zenon
<1>2. at'[w] = "done" /\ \A v \in Workers \ {w} : at'[v] = at[v]
  BY Zenon DEF End, HInv, Types
<1>3. job'[w] = NoJob /\ \A v \in Workers \ {w} : job'[v] = job[v]
  BY Zenon DEF End, HInv, Types
<1>4. outcome'[h] = <<o>> /\ \A i \in Ids \ {h} : outcome'[i] = outcome[i]
  BY <1>1 DEF End, Record, HInv, Types
<1>5. Types'
  <2>1. outcome' \in [Ids -> Seq(Outcomes)]
    BY <1>1 DEF End, Record, HInv, Types
  <2>2. at' \in [Workers -> WorkerStates] /\ job' \in [Workers -> Job \cup {NoJob}]
    BY Zenon DEF End, HInv, Types, WorkerStates
  <2>3. QED
    BY <2>1, <2>2, Zenon DEF HInv, Types, planVars
<1>6. Placement'
  BY <1>1, PlacementEnd, Zenon DEF HInv
<1>7. Pool'
  <2>1. \A v \in Workers : at[v] # "off"
    BY Zenon DEF HInv, Pool, Busy
  <2>2. \A s \in Stoppers : stop[s] # "returned"
    BY Zenon DEF HInv, Pool, Busy
  <2>3. "done" \notin Busy
    BY Zenon DEF Busy
  <2>4. QED
    BY <1>2, <1>3, <2>1, <2>2, <2>3 DEF HInv, Pool
<1>8. Scripts'
  <2>1. \A i \in Ids \ {h} : Owned(i) => Owned(i)'
    BY <1>2, <1>3, Zenon DEF Owned
  <2>2. ASSUME NEW i \in Ids \ {h}
        PROVE  /\ leader'[i] = "running" \/ i \in strays' => Owned(i)'
               /\ leader'[i] # "none" => Owned(i)' \/ outcome'[i] # <<>>
               /\ outcome'[i] = <<"success">> => leader'[i] \in {"ok", "none"}
    BY <1>4, <2>1, Zenon DEF HInv, Scripts
  <2>3. /\ leader'[h] # "running" /\ h \notin strays' /\ outcome'[h] # <<>>
        /\ outcome'[h] = <<"success">> => leader'[h] \in {"ok", "none"}
    BY <1>4
  <2>4. QED
    BY <2>2, <2>3, Zenon DEF Scripts
<1>9. NotifiedOnce'
  BY Zenon DEF HInv, NotifiedOnce, planVars
<1>10. QED
  BY <1>5, <1>6, <1>7, <1>8, <1>9, Zenon DEF HInv

-----------------------------------------------------------------------------
(* The invariant, by action.                                               *)

\* The outcome of an error is an outcome and no success.
LEMMA ErrorOutcomes ==
    ASSUME NEW c
    PROVE  ErrorOutcome(c) \in Outcomes \ {"success"}
BY Zenon DEF ErrorOutcome, Outcomes

\* NewManager starts with an empty executor.
LEMMA InitHInv == Init => HInv
<1> SUFFICES ASSUME Init PROVE HInv
  BY Zenon
<1>1. Types
  <2>1. issued \in 0..MaxJobs
    BY HooksAssumption DEF Init
  <2>2. backlog \in Seq(Job) /\ queue \in Seq(Job)
    BY DEF Init
  <2>3. outcome \in [Ids -> Seq(Outcomes)]
    BY DEF Init
  <2>4. at \in [Workers -> WorkerStates]
    BY Zenon DEF Init, WorkerStates
  <2>5. QED
    BY <2>1, <2>2, <2>3, <2>4, Zenon DEF Init, Types
<1>2. Placement
  <2>1. Len(backlog) = 0 /\ Len(queue) = 0
    BY Zenon DEF Init
  <2>2. Sent = 0
    <3>1. issued = 0
      BY Zenon DEF Init
    <3>2. QED
      BY <2>1, <3>1 DEF Sent
  <2>3. \A i : ~Queued(i)
    BY <2>1 DEF Queued
  <2>4. \A w \in Workers : job[w] = NoJob
    BY Zenon DEF Init
  <2>5. \A i \in Ids : i > Sent /\ outcome[i] = <<>>
    BY <2>2 DEF Init, Ids
  <2>6. Len(backlog) <= issued
    BY <2>1 DEF Init
  <2>7. QED
    BY <2>1, <2>3, <2>4, <2>5, <2>6 DEF Placement
<1>3. Pool
  BY Zenon DEF Init, Pool, Busy
<1>4. Scripts
  BY Zenon DEF Init, Scripts
<1>5. NotifiedOnce
  BY Zenon DEF Init, NotifiedOnce
<1>6. QED
  BY <1>1, <1>2, <1>3, <1>4, <1>5, Zenon DEF HInv

\* A step that touches neither jobs, workers nor scripts keeps everything but
\* the account of notifications.
LEMMA OutsideStep ==
    ASSUME HInv, Types', NotifiedOnce',
           UNCHANGED <<jobVars, at, job, leader, strays>>,
           closed => closed',
           \A s \in Stoppers : stop'[s] # "out" => closed',
           \A s \in Stoppers : stop'[s] = "returned" =>
               stop[s] = "returned" \/ \A w \in Workers : at[w] \in {"off", "gone"}
    PROVE  HInv'
<1>1. Placement'
  BY PlacementFrame, Zenon DEF HInv, jobVars
<1>2. Pool'
  BY Zenon DEF HInv, Pool, jobVars
<1>3. Scripts'
  BY Zenon DEF HInv, Scripts, Owned, jobVars
<1>4. QED
  BY <1>1, <1>2, <1>3, Zenon DEF HInv

\* A published or released plan only changes marks.
LEMMA PublishStep ==
    ASSUME HInv, NEW S \in SUBSET Users, Publish(S)
    PROVE  HInv'
<1>1. Types'
  BY Zenon DEF HInv, Types, Publish, Newly, poolVars
<1>2. NotifiedOnce'
  BY Zenon DEF HInv, NotifiedOnce, Publish, Newly
<1>3. UNCHANGED <<jobVars, at, job, leader, strays, closed, stop>>
  BY Zenon DEF Publish, jobVars, poolVars
<1>4. QED
  BY <1>1, <1>2, <1>3, OutsideStep, Zenon DEF HInv, Pool

\* stageDispatchLimitHooks turns marks into jobs.
LEMMA DispatchStep ==
    ASSUME HInv, NEW mechanisms \in Mechanisms, DispatchLimitHooks(mechanisms)
    PROVE  HInv'
<1>1. UNCHANGED <<limited, queue, closed, stop, at, job, leader, strays, outcome>>
  BY Zenon DEF DispatchLimitHooks, poolVars
<1>2. pending' = {} /\ handled' = handled \cup (pending \cap limited)
  BY Zenon DEF DispatchLimitHooks, Told
<1>3. Types'
  BY <1>1, <1>2, DispatchSteps, Zenon DEF HInv, Types
<1>4. Placement'
  BY PlacementDispatch, Zenon DEF HInv
<1>5. Pool' /\ Scripts'
  BY <1>1, Zenon DEF HInv, Pool, Scripts, Owned
<1>6. NotifiedOnce'
  BY <1>1, <1>2, Zenon DEF HInv, NotifiedOnce
<1>7. QED
  BY <1>3, <1>4, <1>5, <1>6, Zenon DEF HInv

\* enqueueLimitHookJob accepts the next job or records why not.
LEMMA EnqueueStep ==
    ASSUME HInv, EnqueueLimitHookJob
    PROVE  HInv'
<1>1. /\ backlog # <<>> /\ backlog' = Tail(backlog)
      /\ UNCHANGED <<planVars, issued, closed, stop, job, leader, strays>>
      /\ at' = IF closed THEN at
               ELSE [w \in Workers |-> IF at[w] = "off" THEN "idle" ELSE at[w]]
  BY Zenon DEF EnqueueLimitHookJob, poolVars
<1>2. /\ at' \in [Workers -> WorkerStates]
      /\ \A w \in Workers : at[w] # "off" => at'[w] = at[w]
      /\ \A w \in Workers : ~closed => at'[w] # "off"
      /\ \A w \in Workers : at[w] = "off" => at'[w] \in {"off", "idle"}
  BY <1>1, Zenon DEF HInv, Types, WorkerStates
<1>3. Head(backlog) \in Job /\ backlog' \in Seq(Job)
  BY <1>1 DEF HInv, Types
<1>4. \/ ~closed /\ queue' = Append(queue, Head(backlog)) /\ UNCHANGED outcome
      \/ (\E o \in Outcomes : Record(Head(backlog).id, o) /\ o # "success") /\ UNCHANGED queue
  BY Zenon DEF EnqueueLimitHookJob, Reject, Outcomes
<1>5. Types'
  <2>1. queue' \in Seq(Job)
    <3>1. queue \in Seq(Job)
      BY Zenon DEF HInv, Types
    <3>2. Append(queue, Head(backlog)) \in Seq(Job)
      BY <1>3, <3>1
    <3>3. QED
      BY <1>4, <3>1, <3>2, Zenon
  <2>2. outcome' \in [Ids -> Seq(Outcomes)]
    <3>1. outcome \in [Ids -> Seq(Outcomes)]
      BY Zenon DEF HInv, Types
    <3>2. ASSUME NEW o \in Outcomes, Record(Head(backlog).id, o)
          PROVE  outcome' \in [Ids -> Seq(Outcomes)]
      <4>1. \A i \in Ids : outcome[i] \in Seq(Outcomes) /\ Append(outcome[i], o) \in Seq(Outcomes)
        BY <3>1
      <4>2. QED
        BY <3>1, <3>2, <4>1, Zenon DEF Record
    <3>3. QED
      BY <1>4, <3>1, <3>2, Zenon
  <2>3. QED
    BY <1>1, <1>2, <1>3, <2>1, <2>2, Zenon DEF HInv, Types, planVars
<1>6. Placement'
  BY <1>1, <1>4, PlacementAdmit, PlacementReject, Zenon DEF HInv
<1>7. Pool'
  <2>1. \A w \in Workers : job[w] # NoJob <=> at'[w] \in Busy
    <3>1. "off" \notin Busy /\ "idle" \notin Busy
      BY Zenon DEF Busy
    <3>2. QED
      BY <1>2, <3>1, Zenon DEF HInv, Pool
  <2>2. \A w \in Workers : at'[w] = "off" => queue' = <<>> /\ \A v \in Workers : at'[v] = "off"
    BY <1>1, <1>2, <1>4, Zenon DEF HInv, Pool
  <2>3. \A w \in Workers : at'[w] = "gone" => closed' /\ queue' = <<>>
    BY <1>1, <1>2, <1>4, Zenon DEF HInv, Pool
  <2>4. QED
    BY <1>1, <2>1, <2>2, <2>3, Zenon DEF HInv, Pool
<1>8. Scripts'
  <2>1. \A i : Owned(i) => Owned(i)'
    BY <1>1, <1>2, Zenon DEF Owned, Scripting
  <2>2. \A i \in Ids : outcome'[i] = outcome[i] \/ outcome'[i] \notin {<<>>, <<"success">>}
    <3>1. outcome[Head(backlog).id] = <<>>
      <4>1. Head(backlog).id = Sent + 1 /\ Sent \in Nat /\ Head(backlog).id \in Ids
        BY <1>1, NextSent, Zenon DEF HInv, Job
      <4>2. QED
        BY <4>1 DEF HInv, Placement
    <3>2. QED
      BY <1>3, <1>4, <3>1 DEF Record, HInv, Types, Job
  <2>3. QED
    BY <1>1, <2>1, <2>2, Zenon DEF HInv, Scripts
<1>9. NotifiedOnce'
  BY <1>1, Zenon DEF HInv, NotifiedOnce, planVars
<1>10. QED
  BY <1>5, <1>6, <1>7, <1>8, <1>9, Zenon DEF HInv

\* A worker receives a job.
LEMMA TakeStep ==
    ASSUME HInv, NEW w \in Workers, Take(w)
    PROVE  HInv'
<1>1. /\ at[w] = "idle" /\ queue # <<>>
      /\ job' = [job EXCEPT ![w] = Head(queue)]
      /\ queue' = Tail(queue)
      /\ at' = [at EXCEPT ![w] = "taken"]
      /\ UNCHANGED <<planVars, issued, backlog, closed, stop, leader, strays, outcome>>
  BY Zenon DEF Take, poolVars
<1>2. Head(queue) \in Job /\ queue' \in Seq(Job) /\ Head(queue) # NoJob
  BY <1>1, HooksAssumption DEF HInv, Types
<1>3. /\ at'[w] = "taken" /\ \A v \in Workers \ {w} : at'[v] = at[v]
      /\ job'[w] = Head(queue) /\ \A v \in Workers \ {w} : job'[v] = job[v]
  BY <1>1, Zenon DEF HInv, Types
<1>4. job[w] = NoJob
  BY <1>1, Zenon DEF HInv, Pool, Busy
<1>5. Types'
  BY <1>1, <1>2, Zenon DEF HInv, Types, planVars, WorkerStates, Busy
<1>6. Placement'
  BY <1>1, <1>4, PlacementTake, Zenon DEF HInv
<1>7. Pool'
  <2>1. \A v \in Workers : at[v] \notin {"off", "gone"}
    BY <1>1, Zenon DEF HInv, Pool
  <2>2. "taken" \in Busy
    BY Zenon DEF Busy
  <2>3. \A s \in Stoppers : stop[s] # "returned"
    BY <1>1, Zenon DEF HInv, Pool
  <2>4. QED
    BY <1>1, <1>2, <1>3, <2>1, <2>2, <2>3, Zenon DEF HInv, Pool
<1>8. Scripts'
  <2>1. \A i : Owned(i) => Owned(i)'
    BY <1>1, <1>3, Zenon DEF Owned, Scripting
  <2>2. QED
    BY <1>1, <2>1, Zenon DEF HInv, Scripts
<1>9. NotifiedOnce'
  BY <1>1, Zenon DEF HInv, NotifiedOnce, planVars
<1>10. QED
  BY <1>5, <1>6, <1>7, <1>8, <1>9, Zenon DEF HInv

\* A script starts: its job has no process yet.
LEMMA StartStep ==
    ASSUME HInv, NEW w \in Workers, at[w] = "taken",
           at' = [at EXCEPT ![w] = "waiting"],
           leader' = [leader EXCEPT ![job[w].id] = "running"],
           UNCHANGED <<planVars, jobVars, closed, stop, job, strays>>
    PROVE  HInv'
<1> DEFINE h == job[w].id
<1>1. at[w] \in Busy /\ at[w] \notin Scripting
  BY Zenon DEF Busy, Scripting
<1>2. h \in Ids /\ outcome[h] = <<>> /\ ~Owned(h) /\ job[w] # NoJob
  BY <1>1, OneOwner, Zenon
<1>3. at'[w] = "waiting" /\ \A v \in Workers \ {w} : at'[v] = at[v]
  BY Zenon DEF HInv, Types
<1>4. leader'[h] = "running" /\ \A i \in Ids \ {h} : leader'[i] = leader[i]
  BY <1>2, Zenon DEF HInv, Types
<1>5. Types'
  BY <1>2, Zenon DEF HInv, Types, planVars, jobVars, WorkerStates, Busy
<1>6. Placement'
  BY PlacementFrame, Zenon DEF HInv, jobVars
<1>7. Pool'
  <2>1. \A v \in Workers : at[v] # "off"
    BY Zenon DEF HInv, Pool
  <2>2. \A s \in Stoppers : stop[s] # "returned"
    BY Zenon DEF HInv, Pool
  <2>3. "waiting" \in Busy
    BY Zenon DEF Busy
  <2>4. QED
    BY <1>2, <1>3, <2>1, <2>2, <2>3, Zenon DEF HInv, Pool, jobVars
<1>8. Scripts'
  <2>1. Owned(h)'
    BY <1>3, Zenon DEF Owned, Scripting
  <2>2. \A i : Owned(i) => Owned(i)'
    BY <1>1, <1>3, Zenon DEF Owned
  <2>3. QED
    BY <1>2, <1>4, <2>1, <2>2 DEF HInv, Scripts, jobVars
<1>9. NotifiedOnce'
  BY Zenon DEF HInv, NotifiedOnce, planVars
<1>10. QED
  BY <1>5, <1>6, <1>7, <1>8, <1>9, Zenon DEF HInv

\* A worker starts the script or the request of its job, or fails to.
LEMMA BeginStep ==
    ASSUME HInv, NEW w \in Workers, Begin(w)
    PROVE  HInv'
<1>1. at[w] = "taken" /\ at[w] \in Busy /\ at[w] \notin Scripting
  BY Zenon DEF Begin, Busy, Scripting
<1>2. UNCHANGED <<planVars, issued, backlog, queue, closed, stop, strays>>
  BY Zenon DEF Begin, poolVars
<1>3. CASE at' = [at EXCEPT ![w] = "posting"] /\ UNCHANGED <<job, leader, outcome>>
  <2>1. "posting" \in WorkerStates /\ "posting" \in Busy
    BY Zenon DEF WorkerStates, Busy
  <2>2. QED
    BY <1>1, <1>2, <1>3, <2>1, MoveStep, Zenon DEF jobVars
<1>4. CASE /\ at' = [at EXCEPT ![w] = "waiting"]
           /\ leader' = [leader EXCEPT ![job[w].id] = "running"]
           /\ UNCHANGED <<job, outcome>>
  BY <1>1, <1>2, <1>4, StartStep, Zenon DEF jobVars
<1>5. ASSUME NEW o \in Outcomes \ {"success"}, End(w, o), UNCHANGED leader
      PROVE  HInv'
  <2>1. ~Owned(job[w].id) /\ job[w].id \in Ids
    BY <1>1, OneOwner, Zenon
  <2>2. leader[job[w].id] # "running" /\ strays = strays \ {job[w].id}
    BY <2>1, Zenon DEF HInv, Scripts
  <2>3. leader' \in [Ids -> {"none", "running", "ok", "failed"}]
    BY <1>5, Zenon DEF HInv, Types
  <2>4. QED
    BY <1>1, <1>2, <1>5, <2>2, <2>3, EndStep, Zenon
<1>6. "failure" \in Outcomes \ {"success"}
  BY Zenon DEF Outcomes
<1>7. QED
  BY <1>3, <1>4, <1>5, <1>6, ErrorOutcomes, Zenon DEF Begin

\* The processes of a script that a worker waits for change by themselves.
LEMMA ScriptStep ==
    ASSUME HInv, Types',
           UNCHANGED <<planVars, jobVars, closed, stop, at, job>>,
           \A i \in Ids : /\ leader'[i] # leader[i] => Owned(i)
                          /\ i \in strays' \ strays => Owned(i)
    PROVE  HInv'
<1>1. Placement'
  BY PlacementFrame, Zenon DEF HInv, jobVars
<1>2. Pool'
  BY Zenon DEF HInv, Pool, jobVars
<1>3. \A i : Owned(i)' <=> Owned(i)
  BY Zenon DEF Owned
<1>4. \A i \in Ids : Owned(i) => outcome[i] = <<>>
  <2> SUFFICES ASSUME NEW i \in Ids, Owned(i) PROVE outcome[i] = <<>>
    BY Zenon
  <2>1. PICK w \in Workers : at[w] \in Scripting /\ job[w].id = i
    BY Zenon DEF Owned
  <2>2. at[w] \in Busy
    BY <2>1, Zenon DEF Scripting, Busy
  <2>3. QED
    BY <2>1, <2>2, OneOwner, Zenon
<1>5. Scripts'
  BY <1>3, <1>4 DEF HInv, Scripts, jobVars
<1>6. NotifiedOnce'
  BY Zenon DEF HInv, NotifiedOnce, planVars
<1>7. QED
  BY <1>1, <1>2, <1>5, <1>6, Zenon DEF HInv

\* A script exits, with or without leaving descendants.
LEMMA ScriptExitsStep ==
    ASSUME HInv, NEW w \in Workers, ScriptExits(w)
    PROVE  HInv'
<1>1. at[w] \in Scripting /\ at[w] \in Busy
  BY Zenon DEF ScriptExits, Scripting, Busy
<1>2. job[w].id \in Ids /\ Owned(job[w].id)
  BY <1>1, OneOwner, Zenon DEF Owned
<1>3. PICK l \in {"ok", "failed"} : leader' = [leader EXCEPT ![job[w].id] = l]
  BY Zenon DEF ScriptExits
<1>4. strays' = strays \/ strays' = strays \cup {job[w].id}
  BY Zenon DEF ScriptExits
<1>5. UNCHANGED <<planVars, jobVars, closed, stop, at, job>>
  BY Zenon DEF ScriptExits, jobVars, poolVars
<1>6. Types'
  BY <1>2, <1>3, <1>4, <1>5, Zenon DEF HInv, Types, jobVars, planVars
<1>7. \A i \in Ids : /\ leader'[i] # leader[i] => Owned(i)
                     /\ i \in strays' \ strays => Owned(i)
  BY <1>2, <1>3, <1>4, Zenon DEF HInv, Types
<1>8. QED
  BY <1>5, <1>6, <1>7, ScriptStep, Zenon

\* The descendants of a script exit.
LEMMA StraysExitStep ==
    ASSUME HInv, NEW i \in Ids, StraysExit(i)
    PROVE  HInv'
<1>1. UNCHANGED <<planVars, jobVars, closed, stop, at, job, leader>> /\ strays' = strays \ {i}
  BY Zenon DEF StraysExit, jobVars, poolVars
<1>2. Types'
  BY <1>1, Zenon DEF HInv, Types, jobVars, planVars
<1>3. QED
  BY <1>1, <1>2, ScriptStep, Zenon

\* A worker receives the exit of its script.
LEMMA ReapStep ==
    ASSUME HInv, NEW w \in Workers, Reap(w)
    PROVE  HInv'
<1> DEFINE h == job[w].id
<1>1. /\ at[w] = "waiting" /\ leader[h] \in {"ok", "failed"}
      /\ UNCHANGED <<planVars, issued, backlog, queue, closed, stop, leader, strays>>
  BY Zenon DEF Reap, poolVars
<1>2. at[w] \in Busy /\ at[w] \in Scripting
  BY <1>1, Zenon DEF Busy, Scripting
<1>3. CASE h \notin strays /\ End(w, IF leader[h] = "ok" THEN "success" ELSE ErrorOutcome(ctx[w]))
  <2> DEFINE o == IF leader[h] = "ok" THEN "success" ELSE ErrorOutcome(ctx[w])
  <2>1. o \in Outcomes /\ (o = "success" => leader[h] = "ok")
    BY ErrorOutcomes, Zenon DEF Outcomes
  <2>2. leader' \in [Ids -> {"none", "running", "ok", "failed"}]
    BY <1>1, Zenon DEF HInv, Types
  <2> HIDE DEF o
  <2>3. End(w, o)
    BY <1>3, Zenon DEF o
  <2>4. strays' = strays \ {h} /\ leader'[h] # "running"
    BY <1>1, <1>3, Zenon
  <2>5. QED
    BY <1>1, <1>2, <2>1, <2>2, <2>3, <2>4, EndStep, Zenon
<1>4. CASE at' = [at EXCEPT ![w] = "cleaning"] /\ UNCHANGED <<job, outcome>>
  <2>1. "cleaning" \in WorkerStates /\ "cleaning" \in Busy /\ "cleaning" \in Scripting
    BY Zenon DEF WorkerStates, Busy, Scripting
  <2>2. QED
    BY <1>1, <1>2, <1>4, <2>1, MoveStep, Zenon DEF jobVars
<1>5. QED
  BY <1>3, <1>4, Zenon DEF Reap

\* A worker kills the process group of its script.
LEMMA KillStep ==
    ASSUME HInv, NEW w \in Workers, Kill(w)
    PROVE  HInv'
<1> DEFINE h == job[w].id
           o == IF at[w] = "cleaning" /\ leader[h] = "ok" THEN "failure" ELSE ErrorOutcome(ctx[w])
<1>1. /\ End(w, o) /\ strays' = strays \ {h}
      /\ leader' = [leader EXCEPT ![h] = IF @ = "running" THEN "failed" ELSE @]
      /\ UNCHANGED <<planVars, issued, backlog, queue, closed, stop>>
  BY Zenon DEF Kill, KillGroup, poolVars
<1>2. at[w] \in Busy
  BY Zenon DEF Kill, Busy
<1>3. o \in Outcomes \ {"success"}
  BY ErrorOutcomes, Zenon DEF Outcomes
<1> HIDE DEF o
<1>4. h \in Ids
  BY <1>2, OneOwner, Zenon
<1>5. /\ leader' \in [Ids -> {"none", "running", "ok", "failed"}]
      /\ leader'[h] # "running" /\ \A i \in Ids \ {h} : leader'[i] = leader[i]
  BY <1>1, <1>4, Zenon DEF HInv, Types
<1>6. QED
  BY <1>1, <1>2, <1>3, <1>5, EndStep, Zenon

\* A request ends.
LEMMA PostStep ==
    ASSUME HInv, NEW w \in Workers, Post(w)
    PROVE  HInv'
<1> DEFINE h == job[w].id
<1>1. /\ at[w] = "posting"
      /\ UNCHANGED <<planVars, issued, backlog, queue, closed, stop, leader, strays>>
  BY Zenon DEF Post, poolVars
<1>2. at[w] \in Busy /\ at[w] \notin Scripting
  BY <1>1, Zenon DEF Busy, Scripting
<1>3. PICK o \in {"success", "failure", "timeout", ErrorOutcome(ctx[w])} : End(w, o)
  BY Zenon DEF Post
<1>4. o \in Outcomes
  BY ErrorOutcomes, Zenon DEF Outcomes
<1>5. ~Owned(h) /\ h \in Ids /\ outcome[h] = <<>>
  BY <1>2, OneOwner, Zenon
<1>6. leader[h] = "none" /\ h \notin strays
  BY <1>5, Zenon DEF HInv, Scripts, Types
<1>7. leader' \in [Ids -> {"none", "running", "ok", "failed"}]
  BY <1>1, Zenon DEF HInv, Types
<1>8. strays' = strays \ {h} /\ leader'[h] = "none"
  BY <1>1, <1>6, Zenon
<1>9. QED
  BY <1>1, <1>2, <1>3, <1>4, <1>7, <1>8, EndStep, Zenon

\* The steps of a worker that only move it on.
LEMMA MovingSteps ==
    ASSUME HInv, NEW w \in Workers, Terminate(w) \/ Settle(w) \/ Exit(w)
    PROVE  HInv'
<1>1. UNCHANGED <<planVars, jobVars, closed, stop, job, leader, strays>>
  BY Zenon DEF Terminate, Settle, Exit, jobVars, poolVars
<1>2. CASE Terminate(w)
  <2>1. at[w] = "waiting" /\ at' = [at EXCEPT ![w] = "terminating"]
    BY <1>2, Zenon DEF Terminate
  <2>2. /\ "terminating" \in WorkerStates /\ "terminating" \in Busy /\ "terminating" \in Scripting
        /\ "waiting" \in Busy
    BY Zenon DEF WorkerStates, Busy, Scripting
  <2>3. QED
    BY <1>1, <2>1, <2>2, MoveStep, Zenon
<1>3. CASE Settle(w)
  <2>1. at[w] = "done" /\ at' = [at EXCEPT ![w] = "idle"]
    BY <1>3, Zenon DEF Settle
  <2>2. "idle" \in WorkerStates /\ "idle" \notin Busy /\ "done" \notin Busy /\ "done" \notin Scripting
    BY Zenon DEF WorkerStates, Busy, Scripting
  <2>3. QED
    BY <1>1, <2>1, <2>2, MoveStep, Zenon
<1>4. CASE Exit(w)
  <2>1. at[w] = "idle" /\ at' = [at EXCEPT ![w] = "gone"] /\ closed /\ queue = <<>>
    BY <1>4, Zenon DEF Exit, Drained
  <2>2. "gone" \in WorkerStates /\ "gone" \notin Busy /\ "idle" \notin Busy /\ "idle" \notin Scripting
    BY Zenon DEF WorkerStates, Busy, Scripting
  <2>3. QED
    BY <1>1, <2>1, <2>2, MoveStep, Zenon
<1>5. QED
  BY <1>2, <1>3, <1>4, Zenon

\* A step of stopLimitHooks.
LEMMA StopSteps ==
    ASSUME HInv, NEW s \in Stoppers, StopStep(s)
    PROVE  HInv'
<1>1. UNCHANGED <<planVars, jobVars, at, job, leader, strays>>
  BY Zenon DEF StopStep, CloseQueue, Cancel, Return, jobVars
<1>2. NotifiedOnce'
  BY <1>1, Zenon DEF HInv, NotifiedOnce, planVars
<1>3. \E x \in {"closing", "waiting", "joining", "returned"} :
          /\ stop' = [stop EXCEPT ![s] = x]
          /\ x = "returned" => \A w \in Workers : at[w] \in {"off", "gone"}
  BY Zenon DEF StopStep, CloseQueue, Cancel, Return, Waited
<1>4. closed' = TRUE
  BY Zenon DEF StopStep, CloseQueue, Cancel, Return, HInv, Pool, Types
<1>5. stop' \in [Stoppers -> {"out", "closing", "waiting", "joining", "returned"}]
  BY <1>3, Zenon DEF HInv, Types
<1>6. Types'
  BY <1>1, <1>4, <1>5, Zenon DEF HInv, Types, planVars, jobVars
<1>7. \A t \in Stoppers : stop'[t] = "returned" =>
          stop[t] = "returned" \/ \A w \in Workers : at[w] \in {"off", "gone"}
  BY <1>3, Zenon DEF HInv, Types
<1>8. QED
  BY <1>1, <1>2, <1>4, <1>6, <1>7, OutsideStep, Zenon

\* Every step of the specification preserves the invariant.
LEMMA StepHInv == HInv /\ [Next]_vars => HInv'
<1> SUFFICES ASSUME HInv, [Next]_vars PROVE HInv'
  BY Zenon
<1> DEFINE still == UNCHANGED <<planVars, jobVars, closed, stop, at, job, leader, strays>>
<1>1. CASE still
  <2>1. Types' /\ NotifiedOnce'
    BY <1>1, Zenon DEF HInv, Types, NotifiedOnce, planVars, jobVars
  <2>2. QED
    BY <1>1, <2>1, OutsideStep, Zenon DEF HInv, Pool
<1>2. CASE UNCHANGED vars
  <2>1. still
    BY <1>2, Zenon DEF vars, planVars, jobVars
  <2>2. QED
    BY <1>1, <2>1, Zenon
<1>3. CASE CycleStep
  <2>1. ObserveEnqueue => still
    BY Zenon DEF ObserveEnqueue, jobVars, poolVars
  <2>2. QED
    BY <1>1, <1>3, <2>1, PublishStep, DispatchStep, EnqueueStep, Zenon DEF CycleStep
<1>4. ASSUME NEW w \in Workers, WorkerStep(w) \/ Deadline(w) \/ ScriptExits(w)
      PROVE  HInv'
  <2>1. Deadline(w) => still
    BY Zenon DEF Deadline, jobVars, poolVars
  <2>2. QED
    BY <1>1, <1>4, <2>1, TakeStep, BeginStep, ReapStep, KillStep, PostStep, MovingSteps,
       ScriptExitsStep, Zenon DEF WorkerStep
<1>5. QED
  BY <1>2, <1>3, <1>4, StraysExitStep, StopSteps, Zenon DEF Next

-----------------------------------------------------------------------------
(* Theorems                                                                *)

\* The invariant of the executor: every job is in one place or has one
\* outcome, and every live process belongs to a worker that waits for it.
THEOREM HooksInvariant == Spec => []HInv
BY InitHInv, StepHInv, PTL DEF Spec

\* A job that was created is in the backlog, the queue or with a worker, or it
\* has been recorded, once.
LEMMA PlacementRecords == HInv => RecordedOnce
<1> SUFFICES ASSUME HInv, NEW i \in Ids
             PROVE  Len(outcome[i]) = (IF i <= issued /\ i \notin Underway THEN 1 ELSE 0)
  BY Zenon DEF RecordedOnce
<1> DEFINE inBacklog == \E k \in 1..Len(backlog) : backlog[k].id = i
<1>1. i \in Underway <=> inBacklog \/ Queued(i) \/ Held(i)
  BY Zenon DEF Underway, Elements, Queued, Held
<1>2. issued \in Nat /\ Len(backlog) \in Nat /\ i \in Nat /\ Sent \in Int
  BY HooksAssumption DEF HInv, Types, Ids, Sent
<1>3. inBacklog <=> i > Sent /\ i <= issued
  <2>1. ASSUME i > Sent, i <= issued
        PROVE  inBacklog
    <3>1. i - Sent \in 1..Len(backlog)
      BY <1>2, <2>1 DEF Sent
    <3>2. backlog[i - Sent].id = Sent + (i - Sent)
      BY <3>1, Zenon DEF HInv, Placement
    <3>3. QED
      BY <1>2, <3>1, <3>2
  <2>2. ASSUME inBacklog
        PROVE  i > Sent /\ i <= issued
    <3>1. PICK k \in 1..Len(backlog) : backlog[k].id = i
      BY <2>2, Zenon
    <3>2. i = Sent + k
      BY <3>1, Zenon DEF HInv, Placement
    <3>3. QED
      BY <1>2, <3>2 DEF Sent
  <2>3. QED
    BY <2>1, <2>2, Zenon
<1>4. (Queued(i) \/ Held(i)) => i <= issued
  <2>1. (Queued(i) \/ Held(i)) => i <= Sent
    BY Zenon DEF HInv, Placement, Queued, Held
  <2>2. QED
    BY <1>2, <2>1 DEF Sent
<1>5. Len(<<>>) = 0
  BY Zenon
<1>6. IF i > Sent \/ Queued(i) \/ Held(i) THEN outcome[i] = <<>> ELSE Len(outcome[i]) = 1
  BY Zenon DEF HInv, Placement
<1>7. Sent <= issued
  BY <1>2 DEF Sent
<1> HIDE DEF inBacklog
<1>8. (i <= issued /\ i \notin Underway) <=> ~(i > Sent \/ Queued(i) \/ Held(i))
  BY <1>1, <1>2, <1>3, <1>4, <1>7
<1>9. QED
  BY <1>5, <1>6, <1>8, Zenon

\* For any number of workers, any queue capacity and any shutdown, every job
\* the dispatch stage creates is underway or has exactly one outcome.
THEOREM EveryDeliveryRecordedOnce == Spec => []RecordedOnce
BY HooksInvariant, PlacementRecords, PTL

\* When a caller of stopLimitHooks has returned, the executor is quiet.
THEOREM StopLeavesNothing == Spec => []StoppedIsQuiet
<1>1. HInv => StoppedIsQuiet
  <2> SUFFICES ASSUME HInv, NEW s \in Stoppers, stop[s] = "returned"
               PROVE  /\ queue = <<>>
                      /\ \A w \in Workers : job[w] = NoJob
                      /\ strays = {} /\ \A i \in Ids : leader[i] # "running"
    BY Zenon DEF StoppedIsQuiet
  <2>1. \A w \in Workers : at[w] \in {"off", "gone"}
    BY Zenon DEF HInv, Pool
  <2>2. queue = <<>>
    BY <2>1, HooksAssumption, Zenon DEF HInv, Pool
  <2>3. \A w \in Workers : job[w] = NoJob
    BY <2>1, Zenon DEF HInv, Pool, Busy
  <2>4. \A i : ~Owned(i)
    BY <2>1, Zenon DEF Owned, Scripting
  <2>5. QED
    BY <2>2, <2>3, <2>4, Zenon DEF HInv, Scripts, Types
<1>2. QED
  BY <1>1, HooksInvariant, PTL

\* No process of a script is alive once its job has an outcome.
THEOREM ScriptsDoNotOutliveJobs == Spec => []NoOrphan
<1>1. HInv => NoOrphan
  <2> SUFFICES ASSUME HInv, NEW i \in Ids, outcome[i] # <<>>
               PROVE  /\ leader[i] # "running" /\ i \notin strays
                      /\ outcome[i] = <<"success">> => leader[i] \in {"ok", "none"}
    BY Zenon DEF NoOrphan
  <2>1. ~Owned(i)
    BY OneOwner, Zenon DEF Owned, Scripting, Busy
  <2>2. QED
    BY <2>1, Zenon DEF HInv, Scripts
<1>2. QED
  BY <1>1, HooksInvariant, PTL

\* Every spell of being limited leads to one notification.
THEOREM LimitedUsersNotifiedOnce == Spec => []NotifiedOnce
<1>1. HInv => NotifiedOnce
  BY Zenon DEF HInv
<1>2. QED
  BY <1>1, HooksInvariant, PTL
=============================================================================
