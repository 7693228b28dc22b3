------------------------------- MODULE Daemon -------------------------------
(* The running daemon after its bootstrap: App.Run and its control loop, the *)
(* reload hook that restarts the pressure (PSI) watcher, the poll goroutine  *)
(* of each PSI watcher, and the ordered shutdown with its watchdog           *)
(* (internal/app/app_loop.go, app_psi.go, app_shutdown.go and                *)
(* cgroup/psi_watcher.go).  What a control cycle decides is the matter of    *)
(* DecisionEngine; here it is an interval during which no reload is applied. *)
EXTENDS Naturals

CONSTANTS
  Configs,        \* the effective configurations: [psi, thr, poll]
  Fallback,       \* PSI_FALLBACK_INTERVAL, the cadence under event-driven PSI
  Watchers,       \* the PSI watchers that may be built, 1..n
  QueueCap,       \* capacity of a watcher's event channel (64 in the code)
  MaxReloads,     \* bound: reloads applied
  MaxEvents,      \* bound: pressure events the kernel raises
  EarlyReloads    \* TRUE: the config watcher may reload before Run starts PSI

ASSUME QueueCapAssumption == QueueCap \in Nat \ {0}
ASSUME WatchersAssumption == Watchers \subseteq Nat \ {0}
ASSUME ConfigsAssumption == Configs \subseteq [psi : BOOLEAN, thr : Nat, poll : Nat]
ASSUME FallbackAssumption == Fallback \in Nat

VARIABLES
  app,      \* App's shared fields: the configurations and the PSI fields
  watcher,  \* each PSI watcher and its poll goroutine
  loop,     \* the goroutine of Run
  reload,   \* the config watcher's reload
  stop,     \* cancellation, the shutdown watchdog and how the process ended
  events    \* pressure events raised so far (model bound)

vars == <<app, watcher, loop, reload, stop, events>>

None == 0

\* What a configuration field holds while nobody reads it.
Idle == [psi |-> FALSE, thr |-> 0, poll |-> 0]

Fresh == [run |-> "none", thr |-> 0, monitored |-> FALSE, woken |-> FALSE,
          closing |-> FALSE, queue |-> 0]

Init ==
  /\ \E c \in Configs :
       app = [state |-> c, cfg |-> c, epoch |-> 0, watcher |-> None,
              driven |-> FALSE, notified |-> FALSE, cadence |-> 0]
  /\ watcher = [w \in Watchers |-> Fresh]
  /\ loop = [at |-> "start", read |-> 0, poll |-> 0, cfg |-> Idle, listens |-> None,
             why |-> "none", old |-> None, tried |-> 0]
  /\ reload = [at |-> "idle", cfg |-> Idle, old |-> None, open |-> TRUE]
  /\ stop = [ctx |-> FALSE, dog |-> "off", failed |-> FALSE, exit |-> "no"]
  /\ events = 0

Alive == stop.exit = "no"

-----------------------------------------------------------------------------
(* The PSI watcher (cgroup/psi_watcher.go).                                  *)

Unused == {w \in Watchers : watcher[w].run = "none"}

\* NewPSIWatcher, Start and AddMonitor: the poll goroutine runs and each
\* registered pressure file wakes it.
Started(w, cfg) ==
  [watcher EXCEPT ![w] = [Fresh EXCEPT !.run = "polling", !.thr = cfg.thr,
                                       !.monitored = TRUE, !.woken = TRUE]]

\* The mutant forgets the byte on the wake pipe.
SilentClosing(w) ==
  [watcher EXCEPT ![w].closing = TRUE]

\* Stop: close(done), then the byte on the wake pipe.
Closing(w) ==
  [watcher EXCEPT ![w].closing = TRUE, ![w].woken = TRUE]

Joined(w) == w # None => watcher[w].run = "gone"

\* The goroutine is over; what its channel still holds can be received.
Gone(w) == [watcher EXCEPT ![w] = [Fresh EXCEPT !.run = "gone",
                                                !.queue = watcher[w].queue]]

\* poll returns on the wake pipe; the byte is consumed before done is read, and
\* a byte written while the goroutine is not in poll is found by the next one.
PollWake(w) ==
  /\ Alive /\ watcher[w].run = "polling" /\ watcher[w].woken
  /\ watcher' = IF watcher[w].closing THEN Gone(w)
                ELSE [watcher EXCEPT ![w].woken = FALSE]
  /\ UNCHANGED <<app, loop, reload, stop, events>>

\* processPollEvent: the event is sent without blocking, and dropped when the
\* channel is full.
PollPressure(w) ==
  /\ Alive /\ watcher[w].run = "polling" /\ watcher[w].monitored
  /\ ~watcher[w].woken
  /\ events < MaxEvents
  /\ events' = events + 1
  /\ watcher' = [watcher EXCEPT ![w].queue =
                   IF @ < QueueCap THEN @ + 1 ELSE @]
  /\ UNCHANGED <<app, loop, reload, stop>>

\* A terminal event, a failed or an empty read deactivates the monitor.
PollTerminal(w) ==
  /\ Alive /\ watcher[w].run = "polling" /\ watcher[w].monitored
  /\ ~watcher[w].woken
  /\ events < MaxEvents
  /\ events' = events + 1
  /\ watcher' = [watcher EXCEPT ![w].monitored = FALSE]
  /\ UNCHANGED <<app, loop, reload, stop>>

-----------------------------------------------------------------------------
(* What both Run and the reload do to App's PSI fields (app_psi.go).         *)

\* startPSIWatcherWithConfig, before the fields are published: nothing when
\* the mode is off or the pressure files cannot be monitored.
Built(cfg) == IF cfg.psi THEN {None} \cup
                 {w \in Unused : \A u \in Unused : w <= u} ELSE {None}

WithWatcher(w) == [app EXCEPT !.watcher = w, !.driven = TRUE]

\* stopPSIWatcher clears the fields before it stops the watcher.
WithoutWatcher == [app EXCEPT !.watcher = None, !.driven = FALSE]

Events == app.watcher

\* isPSIEventDrivenActive reads the application's configuration,
\* controlCycleInterval the state manager's.
ControlCycleInterval ==
  IF app.cfg.psi /\ app.driven THEN Fallback ELSE app.state.poll

-----------------------------------------------------------------------------
(* The goroutine of Run (app_loop.go).                                       *)

Updating == reload.at \notin {"idle", "begin"}

InCycle == loop.at = "cycle"

\* Run: startPSIWatcher reads the current configuration first.
RunBegin ==
  /\ Alive /\ loop.at = "start"
  /\ loop' = [loop EXCEPT !.at = "psi", !.cfg = app.cfg]
  /\ UNCHANGED <<app, watcher, reload, stop, events>>

RunStartPSI ==
  /\ Alive /\ loop.at = "psi"
  /\ \E w \in Built(loop.cfg) :
       /\ watcher' = IF w = None THEN watcher ELSE Started(w, loop.cfg)
       /\ loop' = [loop EXCEPT !.at = "publish", !.old = w, !.cfg = Idle]
  /\ UNCHANGED <<app, reload, stop, events>>

RunPublishPSI ==
  /\ Alive /\ loop.at = "publish"
  /\ app' = IF loop.old = None THEN app ELSE WithWatcher(loop.old)
  /\ loop' = [loop EXCEPT !.at = "ready", !.old = None]
  /\ UNCHANGED <<watcher, reload, stop, events>>

\* A failed readiness notification ends Run without the ordered shutdown.
NotifyReady(ok) ==
  /\ Alive /\ loop.at = "ready"
  /\ loop' = [loop EXCEPT !.at = IF ok THEN "enter" ELSE "unready"]
  /\ stop' = IF ok THEN stop ELSE [stop EXCEPT !.exit = "failed"]
  /\ UNCHANGED <<app, watcher, reload, events>>

\* runControlLoop: a context cancelled already goes straight to shutdown.
LoopEnter ==
  /\ Alive /\ loop.at = "enter"
  /\ loop' = IF stop.ctx THEN [loop EXCEPT !.at = "shutdown"]
             ELSE [loop EXCEPT !.at = "apply", !.why = "first",
                               !.read = ControlCycleInterval]
  /\ UNCHANGED <<app, watcher, reload, stop, events>>

\* refreshControlTicker between its read of the interval and its return; the
\* sampling cadence is published only when the interval changed.
Apply ==
  /\ Alive /\ loop.at = "apply"
  /\ app' = IF loop.read # loop.poll THEN [app EXCEPT !.cadence = loop.read]
            ELSE app
  /\ loop' = [loop EXCEPT !.poll = loop.read, !.read = 0,
                !.at = IF loop.why = "tick" THEN "wait" ELSE "attempt",
                !.why = IF @ = "first" THEN @ ELSE "none"]
  /\ UNCHANGED <<watcher, reload, stop, events>>

\* AttemptIODeviceWeightCapability, for the configuration it finds; its result
\* may ask for a control cycle at once, and the first attempt precedes the
\* initial cycle.
Attempt ==
  /\ Alive /\ loop.at = "attempt"
  /\ \E activate \in BOOLEAN :
       /\ loop.why = "first" => activate
       /\ loop' = [loop EXCEPT !.tried = app.epoch, !.why = "none",
                     !.at = IF activate THEN "wait" ELSE "top"]
  /\ UNCHANGED <<app, watcher, reload, stop, events>>

\* RunControlCycleWithTrigger enters the configuration epoch, or gives up
\* because of the shutdown.
EnterCycle ==
  /\ Alive /\ loop.at = "wait" /\ ~Updating
  /\ loop' = [loop EXCEPT !.at = IF stop.ctx THEN "top" ELSE "cycle"]
  /\ UNCHANGED <<app, watcher, reload, stop, events>>

LeaveCycle ==
  /\ Alive /\ InCycle
  /\ loop' = [loop EXCEPT !.at = "top"]
  /\ UNCHANGED <<app, watcher, reload, stop, events>>

\* The select evaluates the event channel once, when it is entered.
Select ==
  /\ Alive /\ loop.at = "top"
  /\ loop' = [loop EXCEPT !.at = "select", !.listens = Events]
  /\ UNCHANGED <<app, watcher, reload, stop, events>>

SelectTick ==
  /\ Alive /\ loop.at = "select"
  /\ loop' = [loop EXCEPT !.at = "apply", !.why = "tick", !.listens = None,
                          !.read = ControlCycleInterval]
  /\ UNCHANGED <<app, watcher, reload, stop, events>>

\* The weighted-I/O retry timer.
SelectRetry ==
  /\ Alive /\ loop.at = "select"
  /\ loop' = [loop EXCEPT !.at = "attempt", !.listens = None]
  /\ UNCHANGED <<app, watcher, reload, stop, events>>

\* handleMetricsRefreshCycle: the refresh too runs inside the epoch.
SelectMetrics ==
  /\ Alive /\ loop.at = "select"
  /\ loop' = [loop EXCEPT !.at = "wait", !.listens = None]
  /\ UNCHANGED <<app, watcher, reload, stop, events>>

SelectReloaded ==
  /\ Alive /\ loop.at = "select" /\ app.notified
  /\ app' = [app EXCEPT !.notified = FALSE]
  /\ loop' = [loop EXCEPT !.at = "apply", !.listens = None,
                          !.read = ControlCycleInterval]
  /\ UNCHANGED <<watcher, reload, stop, events>>

\* handlePSIEvent, from whichever watcher's channel the select listens to.
SelectPSI ==
  /\ Alive /\ loop.at = "select" /\ loop.listens # None
  /\ watcher[loop.listens].queue > 0
  /\ watcher' = [watcher EXCEPT ![loop.listens].queue = @ - 1]
  /\ loop' = [loop EXCEPT !.at = "wait", !.listens = None]
  /\ UNCHANGED <<app, reload, stop, events>>

SelectDone ==
  /\ Alive /\ loop.at = "select" /\ stop.ctx
  /\ loop' = [loop EXCEPT !.at = "shutdown", !.listens = None]
  /\ UNCHANGED <<app, watcher, reload, stop, events>>

-----------------------------------------------------------------------------
(* The reload, as far as the application takes part in it (app_psi.go).      *)

ReloadBegin ==
  /\ Alive /\ reload.at = "idle" /\ reload.open
  /\ app.epoch < MaxReloads
  /\ loop.at \in {"start", "psi", "publish"} => EarlyReloads
  /\ \E c \in Configs :
       reload' = [reload EXCEPT !.at = "begin", !.cfg = c]
  /\ UNCHANGED <<app, watcher, loop, stop, events>>

\* BeginConfigUpdate waits for the control cycle; UpdateConfig replaces the
\* state manager's configuration.
ReloadUpdate ==
  /\ Alive /\ reload.at = "begin" /\ ~InCycle
  /\ app' = [app EXCEPT !.state = reload.cfg, !.epoch = @ + 1]
  /\ reload' = [reload EXCEPT !.at = "apply"]
  /\ UNCHANGED <<watcher, loop, stop, events>>

\* applyReloadedConfig: the watcher is rebuilt only for changed PSI settings.
ReloadApply ==
  /\ Alive /\ reload.at = "apply"
  /\ app' = [app EXCEPT !.cfg = reload.cfg]
  /\ reload' = [reload EXCEPT !.cfg = Idle, !.at =
                  IF app.cfg.psi # reload.cfg.psi \/ app.cfg.thr # reload.cfg.thr
                  THEN "clear" ELSE "publish"]
  /\ UNCHANGED <<watcher, loop, stop, events>>

\* The mutant overwrites the fields and leaves the old watcher running.
LeakyReloadStopPSI ==
  /\ Alive /\ reload.at = "clear"
  /\ app' = WithoutWatcher
  /\ watcher' = watcher
  /\ reload' = [reload EXCEPT !.at = "join", !.old = None]
  /\ UNCHANGED <<loop, stop, events>>

ReloadStopPSI ==
  /\ Alive /\ reload.at = "clear"
  /\ app' = WithoutWatcher
  /\ watcher' = IF app.watcher = None THEN watcher ELSE Closing(app.watcher)
  /\ reload' = [reload EXCEPT !.at = "join", !.old = app.watcher]
  /\ UNCHANGED <<loop, stop, events>>

ReloadStartPSI ==
  /\ Alive /\ reload.at = "join"
  /\ Joined(reload.old)
  /\ \E w \in Built(app.cfg) :
       /\ watcher' = IF w = None THEN watcher ELSE Started(w, app.cfg)
       /\ app' = IF w = None THEN app ELSE WithWatcher(w)
  /\ reload' = [reload EXCEPT !.at = "publish", !.old = None]
  /\ UNCHANGED <<loop, stop, events>>

\* publishFallbackCPUSamplingInterval.
ReloadPublish ==
  /\ Alive /\ reload.at = "publish"
  /\ app' = [app EXCEPT !.cadence = ControlCycleInterval]
  /\ reload' = [reload EXCEPT !.at = "notify"]
  /\ UNCHANGED <<watcher, loop, stop, events>>

\* The mutant skips the notification while the loop runs a cycle.
LossyReloadNotify ==
  /\ Alive /\ reload.at = "notify"
  /\ app' = [app EXCEPT !.notified = loop.at = "select"]
  /\ reload' = [reload EXCEPT !.at = "idle"]
  /\ UNCHANGED <<watcher, loop, stop, events>>

\* notifyConfigReloaded: one slot, filled without blocking; then the epoch ends.
ReloadNotify ==
  /\ Alive /\ reload.at = "notify"
  /\ app' = [app EXCEPT !.notified = TRUE]
  /\ reload' = [reload EXCEPT !.at = "idle"]
  /\ UNCHANGED <<watcher, loop, stop, events>>

-----------------------------------------------------------------------------
(* Termination (app_shutdown.go).                                            *)

\* startSignalHandler on SIGINT or SIGTERM: the watchdog first, then cancel.
Terminate ==
  /\ Alive /\ ~stop.ctx /\ loop.at # "start"
  /\ stop' = [stop EXCEPT !.ctx = TRUE, !.dog = "armed"]
  /\ UNCHANGED <<app, watcher, loop, reload, events>>

\* The deadline expires and the watchdog claims the outcome.
Claim ==
  /\ Alive /\ stop.dog = "armed"
  /\ stop' = [stop EXCEPT !.dog = "claimed"]
  /\ UNCHANGED <<app, watcher, loop, reload, events>>

ForceExit ==
  /\ Alive /\ stop.dog = "claimed"
  /\ stop' = [stop EXCEPT !.exit = "killed"]
  /\ UNCHANGED <<app, watcher, loop, reload, events>>

\* configWatcher.Stop waits for the reload in flight.
StopConfigWatcher ==
  /\ Alive /\ loop.at = "shutdown"
  /\ reload.open
  /\ reload' = [reload EXCEPT !.open = FALSE]
  /\ UNCHANGED <<app, watcher, loop, stop, events>>

\* The MCP server, then the PSI watcher.
StopPSIWatcher ==
  /\ Alive /\ loop.at = "shutdown" /\ ~reload.open /\ reload.at = "idle"
  /\ app' = WithoutWatcher
  /\ watcher' = IF app.watcher = None THEN watcher ELSE Closing(app.watcher)
  /\ loop' = [loop EXCEPT !.at = "join", !.old = app.watcher]
  /\ UNCHANGED <<reload, stop, events>>

\* The metrics collector, the state manager's Cleanup and the database; an
\* error of any of them is collected and does not end the sequence.
StopManagers(ok) ==
  /\ Alive /\ loop.at = "join"
  /\ Joined(loop.old)
  /\ loop' = [loop EXCEPT !.at = "finish", !.old = None]
  /\ stop' = [stop EXCEPT !.failed = ~ok]
  /\ UNCHANGED <<app, watcher, reload, events>>

\* finishShutdownWatchdog: the outcome is completed unless it is claimed.
FinishShutdown ==
  /\ Alive /\ loop.at = "finish"
  /\ loop' = [loop EXCEPT !.at = "ended"]
  /\ stop' = [stop EXCEPT !.dog = IF @ = "claimed" THEN @ ELSE "done"]
  /\ UNCHANGED <<app, watcher, reload, events>>

\* Its wg.Wait, and main's return: a claimed watchdog never leaves its
\* goroutine but through SIGKILL.
Return ==
  /\ Alive /\ loop.at = "ended" /\ stop.dog # "claimed"
  /\ stop' = [stop EXCEPT !.exit = IF stop.failed THEN "failed" ELSE "clean"]
  /\ UNCHANGED <<app, watcher, loop, reload, events>>

-----------------------------------------------------------------------------
Run == \/ RunBegin \/ RunStartPSI \/ RunPublishPSI \/ NotifyReady(TRUE)
       \/ LoopEnter \/ Apply \/ Attempt \/ EnterCycle \/ LeaveCycle \/ Select

Reload == \/ ReloadUpdate \/ ReloadApply \/ ReloadStopPSI \/ ReloadStartPSI
          \/ ReloadPublish \/ ReloadNotify

Shutdown == \/ StopConfigWatcher \/ StopPSIWatcher \/ StopManagers(TRUE)
            \/ FinishShutdown \/ Return

Next ==
  \/ Run \/ NotifyReady(FALSE) \/ Reload \/ ReloadBegin
  \/ SelectTick \/ SelectRetry \/ SelectMetrics \/ SelectReloaded
  \/ SelectPSI \/ SelectDone
  \/ \E w \in Watchers : PollWake(w) \/ PollPressure(w) \/ PollTerminal(w)
  \/ Terminate \/ Claim \/ ForceExit \/ Shutdown \/ StopManagers(FALSE)

\* The goroutines run whenever they can.  A select with several ready cases
\* picks one at random, so the notification and the cancellation are strongly
\* fair.  Signals, ticks, pressure and the deadline owe the model nothing.
Fairness ==
  /\ WF_vars(Run) /\ WF_vars(Reload) /\ WF_vars(Shutdown) /\ WF_vars(ForceExit)
  /\ \A w \in Watchers : WF_vars(PollWake(w))
  /\ SF_vars(SelectReloaded) /\ SF_vars(SelectDone)

Spec == Init /\ [][Next]_vars /\ Fairness

-----------------------------------------------------------------------------
\* Every poll goroutine belongs to someone who will stop it: the application's
\* field, Run before it publishes, or the reload or shutdown that joins it.  So an
\* ordered exit, which the watchdog has not claimed, leaves none behind.
WatchersOwned ==
  /\ Alive => \A w \in Watchers : watcher[w].run = "polling" =>
        w \in {app.watcher, loop.old, reload.old}
  /\ stop.exit \in {"clean", "failed"} /\ loop.at = "ended" =>
        /\ stop.dog = "done"
        /\ \A w \in Watchers : watcher[w].run \in {"none", "gone"}

\* When no reload is in progress and none is still to be noticed, the waiting
\* loop polls and samples at the interval in force, listens to the channel of
\* the watcher in force and has tried weighted I/O under this configuration.
\* The watcher in force has the threshold of the configuration in force.
NoticedReload ==
  Alive /\ loop.at = "select" /\ reload.at \in {"idle", "begin"} /\ ~app.notified =>
    /\ loop.poll = ControlCycleInterval /\ app.cadence = loop.poll
    /\ loop.listens = Events /\ loop.tried = app.epoch
    /\ app.watcher # None => /\ app.cfg.psi
                             /\ watcher[app.watcher].thr = app.cfg.thr
=============================================================================
