# ResMan in TLA+

ResMan is a daemon that limits the CPU, memory and I/O of login users. It never
writes a cgroup file for a scalar limit: it asks systemd to set runtime
properties of `user.slice` and `user-UID.slice`, and it gives every property
back when the limit ends. This directory models the parts of the daemon whose
correctness depends on the order of steps: TLA+ modules, TLC configurations that
check them on small instances, and proofs checked by TLAPS.

## The system

| Part | Source | Modules | What makes it hard |
|---|---|---|---|
| Property-lease adapter, recovery, journal | `internal/systemdunit/adapter.go`, `recovery.go`, `journal.go` | `PropertyLeases` over `SystemdUnits` and `LeaseJournal` | several systemd calls and journal writes per operation; each may fail, lose its reply or be cut by a crash |
| Configuration epoch | `internal/configepoch` | `ConfigEpoch`, `EpochLock` | a condition variable shared by readers and updaters |
| Control cycle and decisions | `state/control_cycle.go`, `decision_engine.go`, `limits_applier.go` | `DecisionEngine` | timers and activation times that outlive the episode they belong to |
| Blackout schedule | `config/config.go` | `Blackout` | windows across midnight and the end of the week |
| CPU Points enforcement | `state/systemd_cpu_points.go`, `cpu_points_reload.go` | `CPUPoints` | slices, CPUs and policies change while a plan is applied |
| CPU Points planning | `internal/cpupoints` | `PointsPlan`, `ParentQuota`, `LiveCapacity` | integer rounding, 64-bit overflow, concurrent refreshes |
| Memory and I/O limits | `state/systemd_resources.go` | `ResourceLimits` | one user's failure among many |
| Weighted I/O | `state/systemd_io_weights.go`, `internal/systemdunit/io_device_weight*.go` | `IODeviceCapability`, `IOWeights` | evidence that disappears for a moment, retries, refusals that must stick |
| Limit hooks | `state/limit_hook*.go` | `LimitHooks` | saturation, process groups, shutdown |
| Reload and editor | `reloader`, `config/watcher.go`, `config/editor.go`, `mcp/config_editor.go` | `ConfigReload` | three files that change during a reload, rollback of a refused edit |
| Application, PSI watcher | `internal/app`, `cgroup/psi_watcher.go` | `Daemon` | a reload replaces what the loop waits on; a deadline races the end of cleanup |
| Start | `internal/app/app_bootstrap.go`, `cgroup/enforcement_mode.go` | `Startup` | the declared mode, the reached mode and what the previous process left |
| Metrics database | `database`, `metrics/db_writer.go` | `Database` | crashes between statements, migrations and commits |
| Sampling | `metrics/collector.go` | `Collector`, `HostCPU` | two streams, a cache, observers without a gate, PIDs that are reused |
| Export | `metrics/prometheus.go`, `state/pattern_detector.go` | `UserSeries`, `ExporterServer` | series removed and created again |
| MCP server | `mcp/server.go` | `MCPServer` | start and stop of a server that may fail by itself |
| Logging | `logging` | `Logger` | a rotation is ten file operations |

A control cycle samples (`Collector`), decides (`DecisionEngine`), enters the
configuration epoch and the state manager's operation gate, and reconciles CPU
Points, memory and I/O limits and weights, each by calls of the lease adapter. A
published plan marks users for the limit hooks. A reload waits for the cycles of
the old epoch, then replaces policy and configuration and tells the loop.

The models of the enforcement families stand on the adapter's interface, not on
`PropertyLeases` itself: to `CPUPoints`, `ResourceLimits` and `IOWeights` a lease is
what a unit invocation carries, and an adapter call succeeds, fails without effect
or fails with it. `PropertyLeases` is where one such call is taken apart.

`PROJECT.json` lists every part with its status, the source lines behind every
definition and the hazards, each at the line where it bites.

## Modules

* `SystemdUnits` is systemd as the adapter uses it: for each unit its lifetime,
  live properties, mutable files (`disk`) and the drop-ins the manager has loaded
  (`loaded`, which is stale between a revert and a reload). A managed drop-in is
  named by its property; every other mutable file is `OperatorFile`. The content
  of a file, hence its digest, is the value written into it.
* `LeaseJournal` is the lease record of one unit and what the code does to it as a
  value: stage, confirm, roll back, intend a restore, validate, export.
* `PropertyLeases` is the adapter over both. Its variables:

  | Variable | Code |
  |---|---|
  | `journal` | the journal file |
  | `mem` | `Adapter.leases`, `overrides` and `phases` |
  | `blocked` | `Adapter.blocked` |
  | `pc`, `tx`, `task`, `todo`, `departed`, `pending`, `left`, `reverted` | locals of the operation that holds the adapter's gate |
  | `budget` | bound on disturbances, not in the code |

  An operation is cut at every call that changes systemd or the journal. The
  shared middle of `Apply`, `RestoreProperties` and
  `restoreOwnedPropertiesWithoutRevert` (persist, `SetUnitProperties`, readback,
  persist) is one set of actions, told apart by `tx.kind`.
* `ConfigEpoch` is the barrier: a critical section of its mutex is a step, and
  `asleep` holds the goroutines parked in `cond.Wait`.
* `LimitHooks` is the hook executor, from the marks a published plan leaves to the
  end of shutdown. `limited`, `pending`, `queue`, `closed` and `cancelled` are
  fields of `Manager`; `backlog` is what is left of the dispatch stage's loop; `at`,
  `job` and `ctx` are the locals of each worker; `stop` is where each caller of
  `stopLimitHooks` is. A script is a process group, `leader` and `strays`, that
  exits when it likes. `reading` separates the moment a goroutine reads the
  occupancy from the moment it sets the gauges. `outcome` and `handled` are history.
* `EpochLock` is what the barrier promises, without mutex, counter and condition
  variable: the readers of the current epoch, the update that waits for them and
  the one that has the configuration to itself. `ConfigEpoch` implements it under
  the mapping in `ConfigEpoch!Lock`.
* `DecisionEngine` is `makeDecision` with its three trackers and the two activation
  times, inside the stages of a cycle. A sample says on which side of each threshold
  it falls; times are ages, capped where no comparison can tell them apart; what the
  adapter makes of a stage is open.
* `CPUPoints` is `reconcileSystemdCPUPointsAttempt` call by call, reuse and deferral
  of plans, release, publication, and the composite reload with its rollback. `mgr` is
  the manager's fields, `op` the locals of the operation that holds the gate, `lease`
  what each unit carries, `slice` the invocations that are there.
* `PointsPlan` parses and resolves a policy map, checks the totals and gives every
  slice its weight (`PlanFlatTopology`); `ParentQuota` is the arithmetic of the quota
  and the parse of the online list; `LiveCapacity` is the provider that publishes it
  with a compare-and-swap.
* `ResourceLimits` reconciles memory and I/O limits user by user; `limit` is a pair
  of a user and a resource. `IOWeights` does the same for weights, driven by cycles,
  reloads and a retry timer; `IODeviceCapability` classifies a device from what its
  files show.
* `ConfigReload` has the three files with the history of their contents (`wrote`), the
  watcher (`watch`), the reload in progress (`rl`), the editor (`ed`) and what the
  daemon runs with (`runtime`).
* `Daemon` has the loop of `Run` (`loop`), the PSI watchers with their poll goroutine,
  wake-up pipe and channel (`watcher`), a reload (`reload`) and the shutdown with its
  watchdog (`stop`). `Startup` is the chain of `With...` steps before it.
* `Blackout` is the parse of the schedule and `blackoutEndAt` over the hours of a week.
* `Database`, `Collector`, `HostCPU`, `UserSeries`, `ExporterServer`, `MCPServer` and
  `Logger` are the services around the control of limits, one module each. What they
  write in several operations (a batch, a migration, a rotation) is several steps.
* `Services` instantiates the start and the two servers, `Samplers` the collector, the
  host CPU and the series, `Housekeeping` the schedule and the logger, each component
  with variables of its own, and they state the properties that the run `Services`
  checks. The proofs are about these instances.
* Eight modules hold the theorems:

  | Module | About |
  |---|---|
  | `PropertyLeasesProofs` | a record, the adapter's control, the journal, the baselines |
  | `LimitHooksProofs` | the hook executor |
  | `CPUPointsProofs` | CPU Points, and the series of users |
  | `SliceLimitsProofs` | memory and I/O limits, weighted I/O |
  | `DecisionEngineProofs` | the decisions, and the samples they are made from |
  | `ConfigReloadProofs` | reloads and edits |
  | `DaemonProofs` | the loop and its watchers, the blackout schedule, the logger |
  | `ServicesProofs` | the barrier, the start, the MCP server, the exporter's server |

  Where one module is about several components, these share no state and the parts of
  the module do not use each other, small facts about numbers apart.
* `MC*` modules and `.cfg` files instantiate the specifications for TLC, add the
  history variables that properties need, and state the properties that need them.
  `MCLiveness`, `MCSliceLimits` and `MCServices` put components that share no state
  into one run: a variable `focus`, chosen in the initial state, says which one moves,
  so the states add up instead of multiplying.

Operators whose comment begins with `Fault:`, `Mutant:` or `The mutant` are faulty
variants of the definition that follows them. No specification uses them: they serve to confirm
that each property notices such a mistake.

## Runs

| Run | Instance | Shows |
|---|---|---|
| `LeasesOneUnit` | one unit, two properties, two values, two lifetimes, any two disturbances | drop-ins are recorded, baselines survive, a release removes only ResMan's files |
| `LeasesBatch` | two units, two properties, one value, two disturbances, no operator | `AppliedIsLive`: an applied record has the digests on disk, and a value that is not live is the one from before a lost mutation, also when units of a batch fail separately |
| `Liveness` | leases: one unit, one property, two disturbances; hooks: one worker, two shutdowns, two jobs | releases and cleanups end, shutdowns return, jobs end |
| `ConfigEpoch` | three readers, two updaters | `ImplementsLock` (refinement of `EpochLock`, hence exclusion), no starvation (hence no lost wake-up) |
| `LimitHooks` | one user, two workers, two shutdowns, three jobs, a queue of one | one record per delivery, nothing alive after shutdown, no orphan, one notice per limit |
| `DecisionEngine` | two users, minimum times of one and two ticks | `DurationsKept` (minimum active time, sustained I/O pressure), release once everything is calm |
| `CPUPoints` | two slices, one eligible, two policies, two CPU counts, three troubles | a reused plan is in force, an error-free release is complete, convergence |
| `SliceLimits` | two users; two policies and two device selectors, five device states | limits stay releasable, success means the whole sample, refusals hold, limits and weights settle |
| `ConfigReload` | two writes, one fault, one edit | one epoch is one instant, skipped means running, refused edits leave nothing, agreement in the end |
| `Daemon` | three configurations, three watchers, two reloads, two events | watchers have an owner and none survives an ordered exit, the loop follows every reload, termination |
| `Services` | each service by itself | see below |
| `LeasesCrashInRelease` | one unit, one crash | expected to fail, see Disagreements |

`Services` shows, of the start, that the mode reported is the mode in force and that
an exit asks for a restart only when that can help; of the schedule, that the hours
in a blackout are those of a reference definition (some listed day's window of known
length has begun and not elapsed); of the policy, that every named user gets its
points exactly, that the shares fit the pool, and that no plan is refused that
integers could express; of the capacity, that the newest list wins, that an answer
is not older than the question and that the quota is the exact one; of the samplers,
that no CPU time is counted twice or under another policy, that work between two
decision samples is seen, that an answer is not older than its cache allows, and that
a percentage is over the stream's own interval, whichever caller read first; of the series, that they are those
of sampled users, carry one label, count only I/O that was done and keep a bounded
history; of the servers, that one that runs has an owner, that `Stop` waits for it
and is final; of the database, whole samples, every written sample kept for as long as
the retention promises, fresh identifiers, private files once open, refusal only of what
cannot be upgraded; of the logger, that its files are the end of
the log in order and that a healthy logger can write. A property of the run is the
conjunction of what the component's module states one by one.

### Bounds

`MaxDisturbances` bounds crashes, lost calls, store errors, failed kernel
verifications, departures and operator actions together; `Disturbances` selects
the kinds. Two are enough for a failure followed by a failure of its recovery.
Two properties are needed for an operation that touches part of a unit's leases,
two units for a batch, two lifetimes for a unit that returns under a new identity.
`LeasesBatch` has both: two disturbances let both units of a batch fail, or a call be lost
and the one that confirms it come later. It takes the units, and its two properties, as
interchangeable (`SYMMETRY`): without weights no definition tells them apart.
Calls of the adapter are not bounded. Liveness is checked with one unit, because a
batch does not isolate its units (`BatchIsolation`).

In `LimitHooks`, `MaxJobs` bounds the jobs of a behaviour. A queue of one and two
workers make three jobs enough for one running, one queued and one turned away.
Plans may follow each other without bound. Runs that are not about the gauges leave
`reading` and `gauge` out of the fingerprint (the `VIEW`): no guard depends on them,
except for whether the cycle has a reading to publish, which is kept.

`DecisionEngine` has no bound: ages stop at the longest duration compared. Its
samples are one for each case `makeDecision` tells apart.

`CPUPoints`, `ResourceLimits` and `IOWeights` bound the invocations of a slice
(`MaxInv`, in the run `SliceLimits` `RInv` and `WInv`: a slice that left and returned)
and failures and changes of the host (`MaxTrouble`, `MaxMoves`, `MaxFaults`; there
`RTrouble`, `WMoves`, `WFaults`); cycles are not bounded. Two slices give one
that fails and one that does not; of the two in `CPUPoints` one is not eligible, as
root is.

In `ConfigReload` a write may replace several files, so two writes give the change
during a reload and the one that takes it back; files may be replaced before the watcher
takes its first digests and put back to any earlier content. Where the code is exposed,
the state says so: `ed.clash` once content that a running reload captured, or that is
recorded as processed, was put back under it, and `watch.partial` after an edit before
the first digests. `EarlyReloads` is off in `Daemon` for the same reason (see
Disagreements). A reload is at most followed by one more, which is the case of a change
noticed late. With three writes and three events the three invariants were checked once
without liveness (19 million states).

The numbers of the CPU Points are scaled: ten points for the thousand of the code, a
largest weight of 20 for 10,000 and 127 for the largest 64-bit integer. The
definitions take them as constants, and the instance has policies and CPU counts on
both sides of every comparison.

The collector has one PID that is used twice, the exporter two callers, the MCP
server three; the database two users, three batches, two starts and three days with
a retention of one; the logger six records with room for one per file, two limits
of copies, two faults and two starts. Each is enough for a failure and a second one
while the first is handled. The host CPU has two observers, which may overtake each
other, and counts two jiffies, with one reset. The fingerprint (`ServicesView`) leaves
out the age of a baseline of the I/O counter, which only the rate of the CPU counter
reads, what the ghost holds of a process that has been replaced, and the host's sample,
which no step reads; it takes the host's observers as interchangeable, and of a policy
only whether it is the one in force.

### Fairness

`PropertyLeases!FairSpec`: every systemd call has a timeout, so an operation that
has begun goes on (weak fairness of `Progress`); the service manager restarts the
daemon (weak fairness of `Start`); each control cycle calls `ReconcileOwned`, and
other operations may come in between (strong fairness). Nothing is assumed of
departures, operators or clients.

`ConfigEpoch!FairSpec`: an awake goroutine gets the mutex, an entered operation
returns, an update publishes. New readers and updates may keep coming; a waiting
reader is promised entry only once updates stop.

`LimitHooks!FairSpec`: a goroutine that can run does, and the deadline of a job
passes. Scripts may run for ever and ignore SIGTERM; no plan and no shutdown is
assumed to come.

`DecisionEngine`, `CPUPoints`, `ResourceLimits`, `IOWeights`: the control ticker keeps
starting cycles and a cycle runs through its stages. Promises begin at a moment,
`settled`, after which calls succeed and the host is quiet; that it comes is not
assumed, and it may come in any state. Cycles and retries of weighted I/O are started
by the same loop, one at a time, so cycles get strong fairness there.

`ConfigReload`: the watcher's loop, a reload and an edit that have begun go on, a
caller that waits for the reload gate gets it in the end (a Go channel serves its
waiters in order: strong fairness). `Daemon`: the goroutines run, and a `select` that
finds a case ready again and again takes it (Go chooses at random: strong fairness).
That the watchdog's deadline passes is not assumed: `Terminates` holds without it.

## Proofs

TLAPS checks the theorems below for every value of the constants, from the named
assumptions of the modules and nothing else: the special values (`NoFile`,
`NoLease`, `NoRecord`, `NoTx`, `OperatorFile`) are not ordinary ones, `Foreign` is
a value ResMan never asks for, the bounds are natural numbers, the sets of readers,
hook users and workers are finite and there is a worker; durations and cache
lifetimes are natural numbers, the largest gaps between host CPU samples are not zero,
the length of the pattern history and the limits on
log copies are at least one. What a theorem assumes beyond that is in its statement:
`~EarlyReloads` of the daemon (a case in which the code is known to be exposed), and that
`user.slice` is no user's slice.

Every argument has the same shape: an inductive invariant, a lemma per action that
the action keeps it, and a step from it to the property. TLC checked each of the
invariants before it was proved.

**`EpochIsExclusive`, `NoWakeupIsLost`, `EpochTypeCorrect`.** No reader works during an
update and a goroutine sleeps only while its condition is false. Exclusion alone is
not inductive: an update may start because the counter says zero. `IInv` adds that
the counter counts the readers inside, that the flag belongs to exactly one
updater, and that this updater passed its drain loop with the counter at zero.

**`BarrierImplementsLock`.** `ConfigEpoch` implements `EpochLock` for any readers and
updaters. Every step is shown to be a step of the lock or a stutter from `IInv`: a
counter at zero means no reader is inside, and a flag that is down means that no
update waits or works. Waking and falling asleep are stutters.

**`LeaseTypeCorrect`.** `TInv` adds to the types what each operation holds at each
of its steps (`Control`), and that the sets it works on are disjoint and consist of
recorded units (`Bookkeeping`). Without that a step could update the record of a
unit that has none.

**`OwnedFilesStayRecorded`.** Every drop-in ResMan wrote is covered by a durable
lease, whatever crashes, fails, departs or interferes. The journal forgets a lease
in three places: when an undispatched mutation is rolled back, when a record is
removed because the unit has no mutable file, and when departed units are cleared.
`SInv` says why each of them is right:

* `Sound`, of the durable and of the in-memory record: a lease marked new has no
  drop-in of ResMan's in either set of digests, and one on disk has the lease's
  last value, so that rolling back to the earlier digests forgets nothing;
* `Live`: the live value of an active unit with a drop-in is the drop-in's, so a
  mutation that landed is seen by the readback and the lease stops being new;
* `StagedTx`: what is about to be dispatched is already in the journal;
* `Cleared`: a departed unit that is not going to be reverted has no file left.

The proof needs the journal's own validation in one place. A new lease inside a
restoring intent would be forgotten with its drop-in still on disk, and
`validateDurableLeaseJournal` refuses such a record, so the intent is not saved.

**`BaselinesStayPreserved`, `ReleasesRevertOwnFiles`.** The baseline of a lease is the
unit's own value, and a release never selects for the destructive revert a unit with
a file that is not its own. `BInv` adds to `SInv` that every lease in memory and in the
journal has the vendor's baseline and no operator's value, that the managed paths of a
record are its leased properties, and `Known`: a live value differs from the vendor's
only under a drop-in that the manager has loaded. The last one is what makes the
value a first `Apply` reads a baseline.

**`EveryDeliveryRecordedOnce`, `StopLeavesNothing`, `ScriptsDoNotOutliveJobs`,
`LimitedUsersNotifiedOnce`.** For any number of users, workers, jobs and shutdowns
and any capacity. `HInv` has three parts beside the types. `Placement`: an issued
job is in one place, the backlog, the queue or the hands of one worker, or it has
its one outcome. `Pool`: a job is queued only while there is a worker left to take
it, a worker leaves only a closed, empty queue, and a caller that has returned
found every worker gone or never started. `Scripts`: a live process belongs to a
job in the hands of a worker that waits for it, terminates it or cleans up after
it. `StoppedIsQuiet` follows only from the last two together: an empty queue alone
does not say that no script runs.

**`ReusedPlansHold`, `DeactivationsComplete`.** For any slices, policies, CPU counts and
changes of the host. `PInv`: units that an attempt has dealt with carry its plan or
are no longer the invocation it saw (`PPlaced`); an acknowledged plan is carried, and
is of the policy in force unless the next cycle verifies it anyway (`PKept`); what a
release of everything has not dealt with is still to do (`PReleased`). `PPlaced` is
needed because publication trusts what the attempt did several steps before.

**`AppliedStaysReleasable`, `SuccessesAreExact`, `RefusalsAreHeld`.** For any users,
policies, device selectors and device states. `RIInv` and `WIInv` follow an attempt
that has met no error: what it planned is the sample, what it has dealt with is under a
lease of the slice it saw, what is not in the sample is released or still to be. Of a
refusal `WIInv` says that nothing is under way that could publish over it.

**`DurationsAreKept`.** For any users and durations. `DEInv`: the two activation times are
those of the episodes they belong to, unset exactly when the family enforces nothing,
and the pressure tracker measures the run of samples over the threshold.

**`EpochsAreOneInstant`, `RefusalsLeaveNothing`, `SkippedContentRuns`.** For any number of
writes, faults and edits. `CIInv` ties what a reload has read to the history of the
files: each part was on disk, and the candidate is what was captured unless the file
has changed since, which the check before publication sees. `SIInv` adds the watcher's
digests: they are those of what runs, or a file has left the recorded content, so that
comparing it again cannot answer "unchanged". Putting that content back is what
`ed.clash` remembers; put-backs at any other time keep the invariant.

**`DaemonWatchersOwned`, `DaemonNoticesReload`.** For any configurations, watchers and
number of reloads and events. `DInv`: a polling watcher is the application's or in the
hands of the loop or of the reload that replaces it (`DOwned`); the loop's interval,
channel and attempt are those of the configuration in force, or a notice is on its way
(`DNoticed`); an ordered exit has waited for every poll goroutine (`DExit`).

**`MCPStopIsFinal`, `ExporterOwnsItsServer`, `DaemonStartsTruthfully`.** For any callers and
number of attempts. `MInv`: one caller runs `stop`, and a transport that serves is the
last attempt's, whose context is kept. `EInv`: a start is in the hands of one caller,
and a run serves only while the exporter's own monitor watches it. `SInv` of the start:
the detected reason is kept until the mode is decided, and from then on the adapter, the
reason and the leases agree, for any host, which may read differently at each start.

**`CollectorUsageIsTrue`, `SamplersAreSeparate`.** For any observers, policies and cache
lifetimes. `CInv`: the reports on a process sum up to no more than the baseline left
behind (`CSum`), one caller scans at a time under the configuration it read (`CGate`),
and an update empties the cache (`CFresh`). For the second theorem `CTold` adds that
what a process had done at the last decision scan was told, and `HostInv` that the
counters a stream compares with are those of its own last update, that readings not yet
put into a stream are of the past, and that the counters only grow between resets.

**`UserSeriesAreTrue`.** For any users and lengths of history. `UInv`: every series is of a
tracked key; a key has one state label and one pattern, the one to be removed next;
what an I/O counter shows, and will show once the processes alive now are sampled, was
done; and the hours kept lie between the oldest of the last analysis and the hour after
it. The second clause about I/O carries a counter over the removal and return of its
series.

**`BlackoutIsAsScheduled`.** For any schedule, whether it parses or not, and any hour of
the week. The windows are always those of the schedule; the rest is arithmetic: a
window that crosses midnight is on in the morning of exactly the days whose day before,
modulo seven, is listed, and of the windows that are on there is a first.

**`LoggerKeepsSuffix`.** For any file size, limits of copies, and number of records, failed
operations, kills and restarts. `LInv`: a copy with a larger number holds older records
or, after a compression that was cut, the same ones; whatever of the log a file within
the limit holds is followed by all that was written after it (`LFiles`); the place of a
rotation says which copy is free (`LRotation`), so that no rename or compression
overwrites one; and the last record is in the active file before the rename and in the
first copy after it (`LHealth`). The limit may be lowered between two starts: the clause
about the end of the log is about the smallest limit used so far.

Only model-checked:

* liveness (`ReleaseCompletes`, `DepartedUnitsCleaned`, `HooksEnd`, `EveryoneGetsIn`,
  `Released`, `Converges`, `Settles`, `Terminates`): it rests on fairness and `ENABLED`,
  which the prover does not handle;
* `PlanIsExact` and `CapacityIsCurrent`: they are about what folds over a policy map and
  a list of CPUs compute, and induction over data is out of the prover's reach;
* `HistoryIsWhole`: the answers of its queries are counted sets of rows;
* `AppliedIsLive`, which holds only while no operator interferes; its strict form, that
  every leased value is live, does not hold (`AppliedIsExact`, see Disagreements).

## Disagreements

Where a document, a comment or a test of the repository and the code part, or the
code is exposed to an order of steps it does not handle. The first has a run; each
of the others is stated in the module named, and TLC refutes it on an instance of
the size that module has in its run.

| Property | Statement | What happens |
|---|---|---|
| `CrashesResolve` (run `LeasesCrashInRelease`) | every journal state of a release is resolved at startup | a crash while the baselines are programmed blocks the unit: the record's digests are from before the write and it has no previous footprint |
| `PropertyLeases!DepartureRevertsOwnFiles` | an additional file fails closed | a selective restore adopts an operator's file, the cleanup after departure removes it |
| `PropertyLeases!BatchIsolation` | a departed unit that fails does not stop the others | an interrupted update makes the shared journal write invalid for all |
| `PropertyLeases!AppliedIsExact` with two properties | `docs/SYSTEMD-PROPERTY-LEASES.md`: an interrupted mutation remains uncertain | `confirmAppliedUnit` confirms the other leases of the unit too, one whose own mutation was lost included; `AppliedIsLive` says what is left |
| `Startup!LimitsAreOwned` | "applied limits with no owner are worse than a daemon that refuses to start" (`releaseBeforeDeclaredObservation`) | a start whose detection no longer finds systemd observes without looking at the leases of the last run; `RunsTruthfully` names this as its exception |
| `LimitHooks!GaugesSettle` | the gauges are the current occupancy | a reading published late stays on the gauges of an idle executor |
| `MCCPUPoints!ReserveRetained` | "an incomplete release retains the conservative host reserve" (`restoreSystemdCPUPoints`) | `RestoreUnits` goes on after a unit that failed, so the parent loses its quota while a slice keeps its weight |
| `MCCPUPoints!ReleaseComplete` | root "cannot keep the finite parent quota alive by itself" | an activation sets the quota and fails before it publishes the parent; the next attempt finds no eligible user, releases only what was published, and leaves the quota behind |
| `MCResourceLimits!RefusalReleases` | `docs/SYSTEMD-PROPERTY-LEASES.md`: lost authority restores the owned properties before the refusal | after a restart the limit does not count as applied, so the refusal does not restore the lease that is still there |
| `MCIOWeights!LogoutIsNotIntervention` | `docs/IO-WEIGHTS.md`: only mismatch, unsafe cleanup or conflict needs an operator | restoring a slice that has just left fails, and that is published as a conflict |
| `MCIOWeights!CadenceGrace` | `docs/IO-WEIGHTS.md`: missing evidence gets one cadence of grace | the comparison a cycle makes never yields that reason: a cycle that cannot read the evidence releases the weights at once |
| `MCConfigReload!RollbackTakesBack` | the watcher "compares the current content with the last processed version" | an editor's rollback under a running reload restores content whose digest is recorded as processed while the daemon runs with the other; no automatic reload repairs it |
| `Logger!FailedRotationKeepsCopies` | `docs/TECHNICAL-SPECIFICATION.md` 10.3: a failure before the rename leaves every copy in place | the oldest copy is dropped before the rename that then fails |

Observed without a statement they contradict:

* The stability tracker and the CPU threshold tracker are not reset by a release that
  a blackout or a forced call brings about, so a new episode may be measured from a
  moment of the last one. `DurationsKept` still holds.
* A queued script job taken after shutdown cancelled the executor's context is started
  before the context is looked at, and may succeed (`docs/LIMIT-HOOKS.md` has queued jobs
  cancelled). `StoppedIsQuiet` and `NoOrphan` hold all the same.
* When a tracked slice was replaced, leased again without being published, and no
  eligible user remains, every cycle fails with a stale identity until a decision
  releases the limits. `Converges` is therefore stated for hosts with an eligible user.
* A reload between the start of the configuration watcher and `Run` may start a second
  PSI watcher that nobody stops (`Daemon!EarlyReloads`).
* Content written before `NewWatcher` takes its first digests is not noticed until the
  next change (`ConfigReload!Early`), and a file that somebody takes back to content
  recorded as processed, while a reload of the other content runs, is not reloaded
  (`ConfigReload!Clashes`).
* A creation of the database cut between the first table and the version is refused by
  every later start (`RefusedForGood` names this as its exception).
* Two observers that miss the host CPU cache together share one baseline: the second has
  no interval, and when the one that read first updates last its reading is taken for a
  reset and the next percentage covers an interval already reported. The decision
  stream is not touched (`StreamsAreSeparate`).
* A decision scan less than a second after the last one reports no usage, and a process
  whose start time is read as zero can inherit the baseline of another with its PID.
* A refresh of the capacity may be answered by a newer one that found the list
  unreadable, without an error of its own. The epoch keeps refreshes apart today.
* The pattern series of a user who is not in the sample is not among those that the
  removal of inactive users goes through; an hourly analysis may create one for them.

## What is not modelled

* Keyed resets and targets of `IODeviceWeight`, and the capability probe's own
  unit, with the exceptions recovery makes for it.
* Values in kernel files: their verification is a step that may fail.
* A reboot, which empties `/run`: recovery treats the missing files as a conflict.
* Edits of a managed file's content that systemd has not loaded.
* A change of the unit between two reads of one snapshot.
* JSON, permissions and ownership of the journal file.
* Limit hooks: a signal that fails, a process that survives SIGKILL, the content of
  an event, the checks of the script file, and the rate limit on saturation
  warnings. The two numbers of an occupancy reading are read in one step.
* The composition of the enforcement families with the steps inside an adapter call;
  the families see its outcomes (see The system).
* Values of configuration keys: defaults, parsing and validation (`config/config.go`,
  the blackout schedule apart). They have no behaviour over time.
* The handlers of MCP tools and resources that read a snapshot and format it, the
  weighted-I/O policy map, the queries of the database that aggregate or resolve a
  name, timestamps that do not parse, parsing of `/proc`,
  and the gauges of the host.
* A change of the clock's zone during a blackout, and clocks that go back elsewhere.
* Read-only inspection of cgroupfs, schedulers and capabilities: its verdicts are
  inputs that may change at any time.
* The owned probe of weighted I/O is one call that succeeds or fails.
* The parts marked `not_modelled` in `PROJECT.json`.
