------------------------------- MODULE Startup -------------------------------
(* The bootstrap of the daemon (main.go, internal/app/app_bootstrap.go): the *)
(* chain of With* constructors, the choice between enforcing and observing,  *)
(* the exit status of a refused start and the service manager's restarts.    *)
(* The leases an earlier run left on the host are one bit; how one lease is  *)
(* released is the matter of PropertyLeases.                                 *)
EXTENDS Naturals

CONSTANT MaxStarts    \* bound: starts of the process

VARIABLES
  boot,     \* the App under construction: where it is and what it holds
  declared, \* ENFORCEMENT_MODE of the configuration in force
  host,     \* what the detection reads: systemd's runtime directory, PID 1
  leases,   \* durable leases are applied on the host
  starts    \* starts so far (model bound)

vars == <<boot, declared, host, leases, starts>>

Declarations == {"auto", "systemd_native", "observation_only"}

Hosts == [runtime : {"directory", "absent", "unreadable"},
          pid1 : {"systemd", "other", "unreadable"}]

\* detectEnforcementStatus: everything is observed until an adapter is built,
\* and only the first reason lets one be built.
DetectEnforcementStatus(h) ==
  CASE h.runtime = "directory" -> "systemd_owns_host_workloads"
    [] h.runtime = "absent" /\ h.pid1 = "systemd" -> "systemd_runtime_unreachable"
    [] h.runtime = "absent" /\ h.pid1 = "other" -> "systemd_runtime_absent"
    [] OTHER -> "systemd_authority_unverifiable"

\* NewApp.
Begun == [at |-> "config", err |-> "none", adapter |-> FALSE,
          reason |-> "none", optional |-> {}, exit |-> "no"]

Init ==
  /\ boot = Begun /\ declared \in Declarations /\ host \in Hosts
  /\ leases \in BOOLEAN /\ starts = 1

\* The detection found that systemd owns the workloads of the host.
Owned == boot.reason = "systemd_owns_host_workloads"

\* Every constructor returns at once when an earlier one failed.
At(stage) == boot.exit = "no" /\ boot.at = stage /\ boot.err = "none"

Fail(err) == [boot EXCEPT !.err = err]

\* classifySystemdAdapterStartupError and its siblings: "permanent" needs an
\* operator, "retry" may clear by itself.
Errors == {"permanent", "retry"}

\* LoadAndValidate: a refused configuration exits with the permanent status.
LoadConfig(ok) ==
  /\ At("config")
  /\ boot' = IF ok THEN [boot EXCEPT !.at = "cgroup"] ELSE Fail("permanent")
  /\ UNCHANGED <<declared, host, leases, starts>>

\* WithCgroupManager: permanent when a required capability is missing.
WithCgroupManager(err) ==
  /\ At("cgroup")
  /\ boot' = IF err = "none"
             THEN [boot EXCEPT !.at = "collector",
                                !.reason = DetectEnforcementStatus(host)]
             ELSE Fail(err)
  /\ UNCHANGED <<declared, host, leases, starts>>

WithMetricsCollector(ok) ==
  /\ At("collector")
  /\ boot' = IF ok THEN [boot EXCEPT !.at = "telemetry"] ELSE Fail("retry")
  /\ UNCHANGED <<declared, host, leases, starts>>

\* WithDatabase and WithPrometheus: what is disabled or cannot be opened is
\* left out and the start goes on.
WithTelemetry(parts) ==
  /\ At("telemetry")
  /\ boot' = [boot EXCEPT !.at = "points", !.optional = parts]
  /\ UNCHANGED <<declared, host, leases, starts>>

\* WithStateManager, up to the live capacity.
LoadPointsPolicy(err) ==
  /\ At("points")
  /\ boot' = IF err = "none" THEN [boot EXCEPT !.at = "enforcement"] ELSE Fail(err)
  /\ UNCHANGED <<declared, host, leases, starts>>

Observing(reason) == [boot EXCEPT !.at = "weights", !.reason = reason]

\* The mutant goes on observing when the release failed.
LenientDeclaredObservation(ok) ==
  /\ At("enforcement") /\ declared = "observation_only"
  /\ leases' = (leases /\ ~ok)
  /\ boot' = Observing("operator_requested_observation")
  /\ UNCHANGED <<declared, host, starts>>

\* initializeSystemdEnforcement for a declared observation: what an earlier run
\* owns is released first, and failing to is a permanent refusal.
DeclaredObservation(ok) ==
  /\ At("enforcement") /\ declared = "observation_only"
  /\ leases' = (leases /\ ~ok)
  /\ boot' = IF leases /\ ~ok THEN Fail("permanent")
             ELSE Observing(IF Owned THEN "operator_requested_observation"
                            ELSE boot.reason)
  /\ UNCHANGED <<declared, host, starts>>

\* releaseBeforeDeclaredObservation: an unreadable journal refuses the start.
InspectFails ==
  /\ At("enforcement") /\ declared = "observation_only"
  /\ boot' = Fail("permanent")
  /\ UNCHANGED <<declared, host, leases, starts>>

\* A host that systemd does not own, as far as the detection can tell, is
\* observed: the leases of an earlier run are not looked at.
HostCannotEnforce ==
  /\ At("enforcement") /\ declared # "observation_only" /\ ~Owned
  /\ boot' = Observing(boot.reason)
  /\ UNCHANGED <<declared, host, leases, starts>>

Enforcing ==
  /\ At("enforcement") /\ declared # "observation_only" /\ Owned
  /\ boot' = [boot EXCEPT !.at = "weights", !.adapter = TRUE,
                          !.reason = "systemd_native_adapter"]
  /\ UNCHANGED <<declared, host, leases, starts>>

\* The mandatory capability is missing or a realtime service is protected.
\* Under auto the owned properties are released and the host is observed; a
\* release that fails, and every other declaration, refuses to start.
Refused(reason, ok) ==
  /\ At("enforcement") /\ declared # "observation_only" /\ Owned
  /\ leases' = (leases /\ ~(declared = "auto" /\ ok))
  /\ boot' = IF declared = "auto" /\ (leases => ok) THEN Observing(reason)
             ELSE Fail("permanent")
  /\ UNCHANGED <<declared, host, starts>>

\* The bus, a timeout, authorization, the journal ("retry") or a probe that
\* could not run ("permanent").
AdapterFails(err) ==
  /\ At("enforcement") /\ declared # "observation_only" /\ Owned
  /\ boot' = Fail(err)
  /\ UNCHANGED <<declared, host, leases, starts>>

\* The weighted-I/O policy and NewManager, which closes the adapter it refuses.
NewStateManager(err) ==
  /\ At("weights")
  /\ boot' = IF err = "none" THEN [boot EXCEPT !.at = "watcher"]
             ELSE [Fail(err) EXCEPT !.adapter = FALSE]
  /\ UNCHANGED <<declared, host, leases, starts>>

\* A config watcher that cannot be built or started is left out.
WithConfigWatcher(ok) ==
  /\ At("watcher")
  /\ boot' = [boot EXCEPT !.at = "mcp",
                !.optional = IF ok THEN @ \cup {"watcher"} ELSE @]
  /\ UNCHANGED <<declared, host, leases, starts>>

\* NewServer's refusal is permanent, Start's is not.
WithMCPServer(err) ==
  /\ At("mcp")
  /\ boot' = IF err = "none" THEN [boot EXCEPT !.at = "run"] ELSE Fail(err)
  /\ UNCHANGED <<declared, host, leases, starts>>

\* applicationExitCode.
Exit ==
  /\ boot.exit = "no" /\ boot.err # "none"
  /\ boot' = [boot EXCEPT !.exit = IF boot.err = "permanent" THEN "78" ELSE "1",
                          !.adapter = FALSE]
  /\ UNCHANGED <<declared, host, leases, starts>>

\* The running daemon applies limits, and may be killed with them applied.
Acquire ==
  /\ At("run") /\ boot.adapter /\ leases' = TRUE
  /\ UNCHANGED <<boot, declared, host, starts>>

Killed ==
  /\ At("run") /\ boot' = [boot EXCEPT !.exit = "killed", !.adapter = FALSE]
  /\ UNCHANGED <<declared, host, leases, starts>>

\* The unit restarts on failure, but never after the permanent status.  An
\* operator may have edited the configuration meanwhile, and the detection may
\* read something else of the host.
Restart ==
  /\ boot.exit \in {"1", "killed"} /\ starts < MaxStarts
  /\ boot' = Begun /\ starts' = starts + 1
  /\ declared' \in Declarations /\ host' \in Hosts
  /\ UNCHANGED leases

Next ==
  \/ \E ok \in BOOLEAN : \/ LoadConfig(ok) \/ WithMetricsCollector(ok)
                         \/ DeclaredObservation(ok) \/ WithConfigWatcher(ok)
                         \/ Refused("mandatory_capability_unavailable", ok)
                         \/ Refused("realtime_admission_protected", ok)
  \/ \E err \in Errors \cup {"none"} :
       WithCgroupManager(err) \/ LoadPointsPolicy(err)
         \/ NewStateManager(err) \/ WithMCPServer(err)
  \/ \E err \in Errors : AdapterFails(err)
  \/ \E parts \in SUBSET {"database", "prometheus"} : WithTelemetry(parts)
  \/ InspectFails \/ HostCannotEnforce \/ Enforcing
  \/ Exit \/ Acquire \/ Killed \/ Restart

Spec == Init /\ [][Next]_vars

-----------------------------------------------------------------------------
\* Once the mode is decided: who owns the applied properties, and why.
Truthful ==
  LET detected == DetectEnforcementStatus(host)
      owned == detected = "systemd_owns_host_workloads" IN
  /\ leases => boot.adapter \/ (~owned /\ declared # "observation_only")
  /\ boot.adapter = (boot.reason = "systemd_native_adapter")
  /\ declared = "systemd_native" /\ owned => boot.adapter
  /\ ~owned => ~boot.adapter /\ boot.reason = detected
  /\ ~Owned

\* A running daemon either owns the properties applied on the host or has none
\* applied: neither a crash nor an edited declaration leaves limits that nobody
\* owns.  The one exception is a host whose detection no longer finds systemd
\* (HostCannotEnforce).  It publishes why it observes, and a host declared to
\* enforce never observes for a reason enforcement could have met.
RunsTruthfully == At("run") => Truthful

\* The service manager restarts exactly the refusals that may clear without an
\* operator: a permanent one keeps status 78 through every wrapping.
RestartIsWorthwhile ==
  boot.exit # "no" => /\ boot.exit = "78" <=> boot.err = "permanent"
                      /\ boot.exit = "killed" <=> boot.err = "none"

\* Both: what a running daemon says of itself, and what its exit asks for.
StartIsTruthful == RunsTruthfully /\ RestartIsWorthwhile

\* What the code says and does not keep ("applied limits with no owner are worse
\* than a daemon that refuses to start", releaseBeforeDeclaredObservation): a
\* start that cannot detect systemd does not look at the leases.
LimitsAreOwned == At("run") => (leases => boot.adapter)
=============================================================================
