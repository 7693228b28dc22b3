---------------------------- MODULE DaemonProofs ----------------------------
(***************************************************************************)
(* Theorems about the daemon's loop, when no reload precedes the start of  *)
(* PSI, for any configurations, watchers, queue capacity, and number of    *)
(* reloads and of pressure events: every poll goroutine is owned, and the  *)
(* loop that waits with no reload to notice works under the configuration  *)
(* in force.  Then of what the daemon keeps beside it: the blackout        *)
(* schedule, for any windows, and the log, for any limits on its copies    *)
(* and any number of records, of failed operations and of restarts.        *)
(***************************************************************************)
EXTENDS Daemon, Housekeeping, WellFoundedInduction, TLAPS

\* What the variables of Daemon hold: settings of a configuration, the application,
\* the pollers, and where the loop, a reload and the shutdown may be.
Watcher0 == Watchers \cup {None}
Settings == [psi : BOOLEAN, thr : Nat, poll : Nat]

Apps == [state : Settings, cfg : Settings, epoch : Nat, watcher : Watcher0,
         driven : BOOLEAN, notified : BOOLEAN, cadence : Nat]
Runs == {"none", "polling", "gone"}
Pollers == [run : Runs, thr : Nat, monitored : BOOLEAN,
            woken : BOOLEAN, closing : BOOLEAN, queue : Nat]
Starting == {"start", "psi", "publish"}
Looping == {"apply", "attempt", "wait", "cycle", "top", "select"}
Stopping == {"shutdown", "join", "finish", "ended"}
LoopAts == Starting \cup Looping \cup Stopping \cup {"ready", "unready", "enter"}
Whys == {"none", "first", "tick"}
Loops == [at : LoopAts, read : Nat, poll : Nat, cfg : Settings, listens : Watcher0,
          why : Whys, old : Watcher0, tried : Nat]
ReloadAts == {"idle", "begin", "apply", "clear", "join", "publish", "notify"}
Reloads == [at : ReloadAts, cfg : Settings, old : Watcher0, open : BOOLEAN]
Dogs == {"off", "armed", "claimed", "done"}
Exits == {"no", "killed", "clean", "failed"}
Stops == [ctx : BOOLEAN, dog : Dogs, failed : BOOLEAN, exit : Exits]

\* Every variable has its type.
DTypes ==
  /\ app \in Apps /\ watcher \in [Watchers -> Pollers]
  /\ loop \in Loops /\ reload \in Reloads /\ stop \in Stops

\* Where the loop, the reload and the watchdog can be together, and who may
\* hold a watcher there.
DControl ==
  /\ loop.at \in Starting => /\ reload.at = "idle" /\ app.watcher = None
                             /\ loop.poll = 0 /\ app.cadence = 0
  /\ loop.at \in Stopping => stop.ctx
  /\ loop.at \in {"join", "finish", "ended"} =>
       ~reload.open /\ reload.at = "idle" /\ app.watcher = None
  /\ loop.at = "ended" => stop.dog \in {"claimed", "done"}
  /\ loop.old # None => loop.at \in {"publish", "join"}
  /\ reload.old # None => reload.at = "join"
  /\ reload.at = "join" => app.watcher = None
  /\ loop.why # "none" => loop.at \in {"apply", "attempt"}

\* Every poll goroutine has an owner; the one in force is not being stopped, and
\* has the threshold of the configuration in force but while a reload replaces
\* it.  At most one reload step separates the two copies of the configuration.
DOwned ==
  /\ \A w \in Watchers : watcher[w].run = "polling" => w \in {app.watcher, loop.old, reload.old}
  /\ \A w \in {app.watcher} \cup (IF loop.at = "publish" THEN {loop.old} ELSE {}) : w # None =>
       /\ watcher[w].run = "polling" /\ ~watcher[w].closing
       /\ reload.at # "clear" => app.cfg.psi /\ watcher[w].thr = app.cfg.thr
  /\ app.driven <=> app.watcher # None
  /\ loop.at = "psi" => loop.cfg = app.cfg
  /\ app.state = IF reload.at = "apply" THEN reload.cfg ELSE app.cfg

\* Nothing reloaded is still to be noticed by the loop.
Quiet == reload.at \in {"idle", "begin"} /\ ~app.notified

\* What the loop knows of the configuration when it has noticed every reload:
\* the interval it read, then the interval it polls and samples at, then the
\* capability it tried.
DNoticed ==
  /\ reload.at \in {"notify", "idle", "begin"} /\ loop.at \notin Stopping =>
       app.cadence \in {loop.poll, ControlCycleInterval}
  /\ Quiet =>
       /\ loop.at = "apply" => loop.read = ControlCycleInterval
       /\ loop.at \in Looping \ {"apply"} =>
            loop.poll = ControlCycleInterval /\ app.cadence = ControlCycleInterval
       /\ loop.at \in {"wait", "cycle", "top", "select"} => loop.tried = app.epoch
       /\ loop.at = "apply" /\ loop.why = "tick" => loop.tried = app.epoch
       /\ loop.at = "select" => loop.listens = app.watcher

\* What an ordered exit leaves behind; the process does nothing afterwards.
DExit ==
  stop.exit \in {"clean", "failed"} /\ loop.at = "ended" =>
    stop.dog = "done" /\ \A w \in Watchers : watcher[w].run \in {"none", "gone"}

\* The inductive invariant.
DInv == DTypes /\ DControl /\ DExit /\ (Alive => DOwned /\ DNoticed)

\* The strings and the fields that the steps assign.
LEMMA DAssigned ==
  ASSUME DTypes
  PROVE  /\ \A x \in {"start", "psi", "publish", "ready", "unready", "enter", "apply", "attempt", "wait",
                    "cycle", "top", "select", "shutdown", "join", "finish", "ended"} : x \in LoopAts
         /\ "none" \in Whys /\ "first" \in Whys /\ "tick" \in Whys
         /\ \A x \in {"idle", "begin", "apply", "clear", "join", "publish", "notify"} : x \in ReloadAts
         /\ \A x \in {"off", "armed", "claimed", "done"} : x \in Dogs
         /\ \A x \in {"no", "killed", "clean", "failed"} : x \in Exits
         /\ \A x \in {"none", "polling", "gone"} : x \in Runs
         /\ None \in Watcher0 /\ \A x \in Watchers : x \in Watcher0
         /\ Idle \in Settings /\ \A x \in Configs : x \in Settings
         /\ app.cfg \in Settings /\ loop.cfg \in Settings /\ reload.cfg \in Settings
         /\ app.watcher \in Watcher0 /\ loop.old \in Watcher0
         /\ 0 \in Nat /\ ControlCycleInterval \in Nat /\ loop.read \in Nat
         /\ app.epoch \in Nat /\ app.epoch + 1 \in Nat
         /\ TRUE \in BOOLEAN /\ FALSE \in BOOLEAN
<1>1. LoopAts = {"start", "psi", "publish", "ready", "unready", "enter", "apply", "attempt", "wait",
                 "cycle", "top", "select", "shutdown", "join", "finish", "ended"}
  BY Zenon DEF LoopAts, Starting, Looping, Stopping
<1>2. app.epoch \in Nat /\ loop.read \in Nat /\ app.cfg \in Settings /\ app.state \in Settings
      /\ loop.cfg \in Settings /\ reload.cfg \in Settings /\ app.watcher \in Watcher0 /\ loop.old \in Watcher0
  BY Zenon DEF DTypes, Apps, Loops, Reloads
<1>3. ControlCycleInterval \in Nat /\ Idle \in Settings /\ app.epoch + 1 \in Nat
  BY <1>2, FallbackAssumption DEF ControlCycleInterval, Settings, Idle
<1>. QED
  BY <1>1, <1>2, <1>3, ConfigsAssumption, Zenon DEF Whys, ReloadAts, Dogs, Exits, Runs, Watcher0, Settings

\* A watcher that was started has its type (NewPSIWatcher, Start, AddMonitor).
LEMMA StartedType ==
  ASSUME DTypes, NEW w \in Watchers, NEW c \in Settings
  PROVE  Started(w, c) \in [Watchers -> Pollers]
<1>1. c.thr \in Nat
  BY Zenon DEF Settings
<1>2. [Fresh EXCEPT !.run = "polling", !.thr = c.thr, !.monitored = TRUE, !.woken = TRUE] \in Pollers
  BY <1>1, DAssigned, Zenon DEF Fresh, Pollers
<1>. QED
  BY <1>2, Zenon DEF Started, DTypes

\* Every step of Daemon keeps the types.
LEMMA DTypesStep ==
  ASSUME DTypes, Next
  PROVE  DTypes'
<1>0. /\ app \in Apps /\ watcher \in [Watchers -> Pollers]
      /\ loop \in Loops /\ reload \in Reloads /\ stop \in Stops
  BY Zenon DEF DTypes
<1>1. CASE RunBegin
  <2>1. loop' \in Loops
    BY <1>1, <1>0, DAssigned, Zenon DEF RunBegin, Alive, Idle, Loops
  <2>. QED
    BY <1>1, <2>1, Zenon DEF RunBegin, DTypes
<1>2. CASE RunStartPSI
  <2>1. loop' \in Loops
    BY <1>2, <1>0, DAssigned, Zenon DEF RunStartPSI, Built, Unused, Started, Fresh, Idle, Loops
  <2>2. watcher' \in [Watchers -> Pollers]
    <3>1. \A w \in Watchers : Started(w, loop.cfg) \in [Watchers -> Pollers]
      BY DAssigned, StartedType, Zenon
    <3>. QED
      BY <1>2, <1>0, <3>1, Zenon DEF RunStartPSI, Built, Unused
  <2>. QED
    BY <1>2, <2>1, <2>2, Zenon DEF RunStartPSI, DTypes
<1>3. CASE RunPublishPSI
  <2>1. app' \in Apps
    BY <1>3, <1>0, DAssigned, Zenon DEF RunPublishPSI, WithWatcher, Apps
  <2>2. loop' \in Loops
    BY <1>3, <1>0, DAssigned, Zenon DEF RunPublishPSI, WithWatcher, Loops
  <2>. QED
    BY <1>3, <2>1, <2>2, Zenon DEF RunPublishPSI, DTypes
<1>4. CASE NotifyReady(TRUE)
  <2>1. loop' \in Loops
    BY <1>4, <1>0, DAssigned, Zenon DEF NotifyReady, Loops
  <2>2. stop' \in Stops
    BY <1>4, <1>0, DAssigned, Zenon DEF NotifyReady, Stops
  <2>. QED
    BY <1>4, <2>1, <2>2, Zenon DEF NotifyReady, DTypes
<1>5. CASE NotifyReady(FALSE)
  <2>1. loop' \in Loops
    BY <1>5, <1>0, DAssigned, Zenon DEF NotifyReady, Loops
  <2>2. stop' \in Stops
    BY <1>5, <1>0, DAssigned, Zenon DEF NotifyReady, Stops
  <2>. QED
    BY <1>5, <2>1, <2>2, Zenon DEF NotifyReady, DTypes
<1>6. CASE LoopEnter
  <2>1. loop' \in Loops
    BY <1>6, <1>0, DAssigned, Zenon DEF LoopEnter, Loops
  <2>. QED
    BY <1>6, <2>1, Zenon DEF LoopEnter, DTypes
<1>7. CASE Apply
  <2>1. app' \in Apps
    BY <1>7, <1>0, DAssigned, Zenon DEF Apply, Apps
  <2>2. loop' \in Loops
    BY <1>7, <1>0, DAssigned, Zenon DEF Apply, Loops
  <2>. QED
    BY <1>7, <2>1, <2>2, Zenon DEF Apply, DTypes
<1>8. CASE Attempt
  <2>1. loop' \in Loops
    BY <1>8, <1>0, DAssigned, Zenon DEF Attempt, Loops
  <2>. QED
    BY <1>8, <2>1, Zenon DEF Attempt, DTypes
<1>9. CASE EnterCycle
  <2>1. loop' \in Loops
    BY <1>9, <1>0, DAssigned, Zenon DEF EnterCycle, Updating, Loops
  <2>. QED
    BY <1>9, <2>1, Zenon DEF EnterCycle, DTypes
<1>10. CASE LeaveCycle
  <2>1. loop' \in Loops
    BY <1>10, <1>0, DAssigned, Zenon DEF LeaveCycle, InCycle, Loops
  <2>. QED
    BY <1>10, <2>1, Zenon DEF LeaveCycle, DTypes
<1>11. CASE Select
  <2>1. loop' \in Loops
    BY <1>11, <1>0, DAssigned, Zenon DEF Select, Events, Loops
  <2>. QED
    BY <1>11, <2>1, Zenon DEF Select, DTypes
<1>12. CASE SelectTick
  <2>1. loop' \in Loops
    BY <1>12, <1>0, DAssigned, Zenon DEF SelectTick, Loops
  <2>. QED
    BY <1>12, <2>1, Zenon DEF SelectTick, DTypes
<1>13. CASE SelectRetry
  <2>1. loop' \in Loops
    BY <1>13, <1>0, DAssigned, Zenon DEF SelectRetry, Loops
  <2>. QED
    BY <1>13, <2>1, Zenon DEF SelectRetry, DTypes
<1>14. CASE SelectMetrics
  <2>1. loop' \in Loops
    BY <1>14, <1>0, DAssigned, Zenon DEF SelectMetrics, Loops
  <2>. QED
    BY <1>14, <2>1, Zenon DEF SelectMetrics, DTypes
<1>15. CASE SelectReloaded
  <2>1. app' \in Apps
    BY <1>15, <1>0, DAssigned, Zenon DEF SelectReloaded, Apps
  <2>2. loop' \in Loops
    BY <1>15, <1>0, DAssigned, Zenon DEF SelectReloaded, Loops
  <2>. QED
    BY <1>15, <2>1, <2>2, Zenon DEF SelectReloaded, DTypes
<1>16. CASE SelectPSI
  <2>1. loop' \in Loops
    BY <1>16, <1>0, DAssigned, Zenon DEF SelectPSI, Loops
  <2>2. watcher' \in [Watchers -> Pollers]
    <3>1. /\ watcher[loop.listens].queue > 0 /\ loop.listens \in Watchers
          /\ watcher' = [watcher EXCEPT ![loop.listens].queue = watcher[loop.listens].queue - 1]
      BY <1>16, <1>0, Zenon DEF SelectPSI, Loops, Watcher0
    <3>2. watcher[loop.listens].queue - 1 \in Nat /\ watcher[loop.listens] \in Pollers
      BY <1>0, <3>1 DEF Pollers
    <3>. QED
      BY <1>0, <3>1, <3>2, Zenon DEF Pollers
  <2>. QED
    BY <1>16, <2>1, <2>2, Zenon DEF SelectPSI, DTypes
<1>17. CASE SelectDone
  <2>1. loop' \in Loops
    BY <1>17, <1>0, DAssigned, Zenon DEF SelectDone, Loops
  <2>. QED
    BY <1>17, <2>1, Zenon DEF SelectDone, DTypes
<1>18. CASE ReloadBegin
  <2>1. reload' \in Reloads
    BY <1>18, <1>0, DAssigned, Zenon DEF ReloadBegin, Reloads
  <2>. QED
    BY <1>18, <2>1, Zenon DEF ReloadBegin, DTypes
<1>19. CASE ReloadUpdate
  <2>1. app' \in Apps
    BY <1>19, <1>0, DAssigned, Zenon DEF ReloadUpdate, InCycle, Apps
  <2>2. reload' \in Reloads
    BY <1>19, <1>0, DAssigned, Zenon DEF ReloadUpdate, InCycle, Reloads
  <2>. QED
    BY <1>19, <2>1, <2>2, Zenon DEF ReloadUpdate, DTypes
<1>20. CASE ReloadApply
  <2>1. app' \in Apps
    BY <1>20, <1>0, DAssigned, Zenon DEF ReloadApply, Idle, Apps
  <2>2. reload' \in Reloads
    BY <1>20, <1>0, DAssigned, Zenon DEF ReloadApply, Idle, Reloads
  <2>. QED
    BY <1>20, <2>1, <2>2, Zenon DEF ReloadApply, DTypes
<1>21. CASE ReloadStopPSI
  <2>1. app' \in Apps
    BY <1>21, <1>0, DAssigned, Zenon DEF ReloadStopPSI, WithoutWatcher, Closing, Apps
  <2>2. reload' \in Reloads
    BY <1>21, <1>0, DAssigned, Zenon DEF ReloadStopPSI, WithoutWatcher, Closing, Reloads
  <2>3. watcher' \in [Watchers -> Pollers]
    <3>1. app.watcher # None => app.watcher \in Watchers
      BY <1>0, Zenon DEF Apps, Watcher0
    <3>2. watcher' = IF app.watcher = None THEN watcher ELSE Closing(app.watcher)
      BY <1>21, Zenon DEF ReloadStopPSI
    <3>3. \A w \in Watchers : watcher[w] \in Pollers
      BY <1>0, Zenon
    <3>4. \A w \in Watchers : [watcher[w] EXCEPT !.closing = TRUE, !.woken = TRUE] \in Pollers
      BY <3>3, Zenon DEF Pollers
    <3>5. \A w \in Watchers : Closing(w) \in [Watchers -> Pollers]
      BY <1>0, <3>4, Zenon DEF Closing
    <3>. QED
      BY <1>0, <3>1, <3>2, <3>5, Zenon
  <2>. QED
    BY <1>21, <2>1, <2>2, <2>3, Zenon DEF ReloadStopPSI, DTypes
<1>22. CASE ReloadStartPSI
  <2>1. app' \in Apps
    <3>1. PICK w \in Built(app.cfg) : app' = IF w = None THEN app ELSE WithWatcher(w)
      BY <1>22, Zenon DEF ReloadStartPSI
    <3>2. w \in Watcher0
      BY <3>1, DAssigned, Zenon DEF Built, Unused
    <3>3. WithWatcher(w) \in Apps
      BY <1>0, <3>2, Zenon DEF WithWatcher, Apps
    <3>. QED
      BY <1>0, <3>1, <3>3, Zenon
  <2>2. reload' \in Reloads
    BY <1>22, <1>0, DAssigned, Zenon DEF ReloadStartPSI, Joined, Built, Unused, Started, Fresh, WithWatcher, Reloads
  <2>3. watcher' \in [Watchers -> Pollers]
    <3>1. \A w \in Watchers : Started(w, app.cfg) \in [Watchers -> Pollers]
      BY DAssigned, StartedType, Zenon
    <3>. QED
      BY <1>22, <1>0, <3>1, Zenon DEF ReloadStartPSI, Built, Unused
  <2>. QED
    BY <1>22, <2>1, <2>2, <2>3, Zenon DEF ReloadStartPSI, DTypes
<1>23. CASE ReloadPublish
  <2>1. app' \in Apps
    BY <1>23, <1>0, DAssigned, Zenon DEF ReloadPublish, Apps
  <2>2. reload' \in Reloads
    BY <1>23, <1>0, DAssigned, Zenon DEF ReloadPublish, Reloads
  <2>. QED
    BY <1>23, <2>1, <2>2, Zenon DEF ReloadPublish, DTypes
<1>24. CASE ReloadNotify
  <2>1. app' \in Apps
    BY <1>24, <1>0, DAssigned, Zenon DEF ReloadNotify, Apps
  <2>2. reload' \in Reloads
    BY <1>24, <1>0, DAssigned, Zenon DEF ReloadNotify, Reloads
  <2>. QED
    BY <1>24, <2>1, <2>2, Zenon DEF ReloadNotify, DTypes
<1>25. CASE Terminate
  <2>1. stop' \in Stops
    BY <1>25, <1>0, DAssigned, Zenon DEF Terminate, Stops
  <2>. QED
    BY <1>25, <2>1, Zenon DEF Terminate, DTypes
<1>26. CASE Claim
  <2>1. stop' \in Stops
    BY <1>26, <1>0, DAssigned, Zenon DEF Claim, Stops
  <2>. QED
    BY <1>26, <2>1, Zenon DEF Claim, DTypes
<1>27. CASE ForceExit
  <2>1. stop' \in Stops
    BY <1>27, <1>0, DAssigned, Zenon DEF ForceExit, Stops
  <2>. QED
    BY <1>27, <2>1, Zenon DEF ForceExit, DTypes
<1>28. CASE StopConfigWatcher
  <2>1. reload' \in Reloads
    BY <1>28, <1>0, DAssigned, Zenon DEF StopConfigWatcher, Reloads
  <2>. QED
    BY <1>28, <2>1, Zenon DEF StopConfigWatcher, DTypes
<1>29. CASE StopPSIWatcher
  <2>1. app' \in Apps
    BY <1>29, <1>0, DAssigned, Zenon DEF StopPSIWatcher, WithoutWatcher, Closing, Apps
  <2>2. loop' \in Loops
    BY <1>29, <1>0, DAssigned, Zenon DEF StopPSIWatcher, WithoutWatcher, Closing, Loops
  <2>3. watcher' \in [Watchers -> Pollers]
    BY <1>29, <1>0, DAssigned, Zenon DEF StopPSIWatcher, WithoutWatcher, Closing, Pollers
  <2>. QED
    BY <1>29, <2>1, <2>2, <2>3, Zenon DEF StopPSIWatcher, DTypes
<1>30. CASE StopManagers(TRUE)
  <2>1. loop' \in Loops
    BY <1>30, <1>0, DAssigned, Zenon DEF StopManagers, Joined, Loops
  <2>2. stop' \in Stops
    BY <1>30, <1>0, DAssigned, Zenon DEF StopManagers, Joined, Stops
  <2>. QED
    BY <1>30, <2>1, <2>2, Zenon DEF StopManagers, DTypes
<1>31. CASE StopManagers(FALSE)
  <2>1. loop' \in Loops
    BY <1>31, <1>0, DAssigned, Zenon DEF StopManagers, Joined, Loops
  <2>2. stop' \in Stops
    BY <1>31, <1>0, DAssigned, Zenon DEF StopManagers, Joined, Stops
  <2>. QED
    BY <1>31, <2>1, <2>2, Zenon DEF StopManagers, DTypes
<1>32. CASE FinishShutdown
  <2>1. loop' \in Loops
    BY <1>32, <1>0, DAssigned, Zenon DEF FinishShutdown, Loops
  <2>2. stop' \in Stops
    BY <1>32, <1>0, DAssigned, Zenon DEF FinishShutdown, Stops
  <2>. QED
    BY <1>32, <2>1, <2>2, Zenon DEF FinishShutdown, DTypes
<1>33. CASE Return
  <2>1. stop' \in Stops
    BY <1>33, <1>0, DAssigned, Zenon DEF Return, Stops
  <2>. QED
    BY <1>33, <2>1, Zenon DEF Return, DTypes
<1>34. ASSUME NEW w \in Watchers, PollWake(w) PROVE DTypes'
  <2>1. watcher[w] \in Pollers /\ watcher[w].queue \in Nat
    BY <1>0, Zenon DEF Pollers
  <2>2. [Fresh EXCEPT !.run = "gone", !.queue = watcher[w].queue] \in Pollers
    BY <2>1, DAssigned, Zenon DEF Fresh, Pollers
  <2>3. watcher' \in [Watchers -> Pollers]
    BY <1>34, <1>0, <2>1, <2>2, DAssigned, Zenon DEF PollWake, Gone, Pollers
  <2>. QED
    BY <1>34, <2>3, Zenon DEF PollWake, DTypes
<1>35. ASSUME NEW w \in Watchers, PollPressure(w) PROVE DTypes'
  <2> DEFINE n == IF watcher[w].queue < QueueCap THEN watcher[w].queue + 1 ELSE watcher[w].queue
  <2>1. watcher[w] \in Pollers /\ n \in Nat
    BY <1>0 DEF Pollers
  <2>2. watcher' = [watcher EXCEPT ![w].queue = n]
    BY <1>35, Zenon DEF PollPressure
  <2>3. watcher' \in [Watchers -> Pollers]
    <3> HIDE DEF n
    <3>. QED
      BY <1>0, <2>1, <2>2, Zenon DEF Pollers
  <2>. QED
    BY <1>35, <2>3, Zenon DEF PollPressure, DTypes
<1>36. ASSUME NEW w \in Watchers, PollTerminal(w) PROVE DTypes'
  <2>1. watcher' \in [Watchers -> Pollers]
    BY <1>36, <1>0, DAssigned, Zenon DEF PollTerminal, Pollers
  <2>. QED
    BY <1>36, <2>1, Zenon DEF PollTerminal, DTypes
<1>37. CASE Run
  BY <1>37, <1>1, <1>2, <1>3, <1>4, <1>6, <1>7, <1>8, <1>9, <1>10, <1>11, Zenon DEF Run
<1>38. CASE Reload
  BY <1>38, <1>19, <1>20, <1>21, <1>22, <1>23, <1>24, Zenon DEF Reload
<1>39. CASE Shutdown
  BY <1>39, <1>28, <1>29, <1>30, <1>32, <1>33, Zenon DEF Shutdown
<1>. QED
  BY <1>5, <1>12, <1>13, <1>14, <1>15, <1>16, <1>17, <1>18, <1>25, <1>26, <1>27, <1>31,
     <1>34, <1>35, <1>36, <1>37, <1>38, <1>39, Zenon DEF Next

\* Every step keeps the invariant, one case for each action of the loop, the pollers,
\* the reload and the shutdown.
LEMMA DStep ==
  ASSUME ~EarlyReloads, DInv, [Next]_vars
  PROVE  DInv'
<1>0. DTypes'
  BY DTypesStep, Zenon DEF DInv, DTypes, vars
<1> USE DEF DInv, Alive, Apps, Pollers, Loops, Reloads, Stops, Settings, Watcher0, None,
            Starting, Looping, Stopping, ControlCycleInterval, Quiet
<1> USE WatchersAssumption, ConfigsAssumption, FallbackAssumption
<1>1. CASE RunBegin
  <2>1. DControl'
    BY <1>1, <1>0, Zenon DEF RunBegin, Alive, Idle, DTypes, DControl
  <2>2. DExit'
    BY <1>1, <1>0, Zenon DEF RunBegin, Alive, Idle, DTypes, DControl, DExit, DOwned
  <2>3. Alive' => DOwned'
    BY <1>1, <1>0, Zenon DEF RunBegin, Alive, Idle, DTypes, DControl, DOwned
  <2>4. Alive' => DNoticed'
    BY <1>1, <1>0, Zenon DEF RunBegin, Alive, Idle, DTypes, DControl, DOwned, DNoticed
  <2>. QED
    BY <1>0, <2>1, <2>2, <2>3, <2>4, Zenon DEF DInv
<1>2. CASE RunStartPSI
  <2>1. DControl'
    BY <1>2, <1>0 DEF RunStartPSI, Built, Unused, Started, Fresh, Idle, DTypes, DControl
  <2>2. DExit'
    BY <1>2, <1>0, Zenon DEF RunStartPSI, Built, Unused, Started, Fresh, Idle, DTypes, DControl, DExit, DOwned
  <2>3. Alive' => DOwned'
    BY <1>2, <1>0 DEF RunStartPSI, Built, Unused, Started, Fresh, Idle, DTypes, DControl, DOwned
  <2>4. Alive' => DNoticed'
    BY <1>2, <1>0 DEF RunStartPSI, Built, Unused, Started, Fresh, Idle, DTypes, DControl, DOwned, DNoticed
  <2>. QED
    BY <1>0, <2>1, <2>2, <2>3, <2>4, Zenon DEF DInv
<1>3. CASE RunPublishPSI
  <2>1. DControl'
    BY <1>3, <1>0, Zenon DEF RunPublishPSI, WithWatcher, DTypes, DControl
  <2>2. DExit'
    BY <1>3, <1>0, Zenon DEF RunPublishPSI, WithWatcher, DTypes, DControl, DExit, DOwned
  <2>3. Alive' => DOwned'
    BY <1>3, <1>0 DEF RunPublishPSI, WithWatcher, DTypes, DControl, DOwned
  <2>4. Alive' => DNoticed'
    BY <1>3, <1>0 DEF RunPublishPSI, WithWatcher, DTypes, DControl, DOwned, DNoticed
  <2>. QED
    BY <1>0, <2>1, <2>2, <2>3, <2>4, Zenon DEF DInv
<1>4. CASE NotifyReady(TRUE)
  <2>1. DControl'
    BY <1>4, <1>0, Zenon DEF NotifyReady, DTypes, DControl
  <2>2. DExit'
    BY <1>4, <1>0, Zenon DEF NotifyReady, DTypes, DControl, DExit, DOwned
  <2>3. Alive' => DOwned'
    BY <1>4, <1>0 DEF NotifyReady, DTypes, DControl, DOwned
  <2>4. Alive' => DNoticed'
    BY <1>4, <1>0, Zenon DEF NotifyReady, DTypes, DControl, DOwned, DNoticed
  <2>. QED
    BY <1>0, <2>1, <2>2, <2>3, <2>4, Zenon DEF DInv
<1>5. CASE NotifyReady(FALSE)
  <2>1. DControl'
    BY <1>5, <1>0, Zenon DEF NotifyReady, DTypes, DControl
  <2>2. DExit'
    BY <1>5, <1>0, Zenon DEF NotifyReady, DTypes, DControl, DExit, DOwned
  <2>3. Alive' => DOwned'
    BY <1>5, <1>0, Zenon DEF NotifyReady, DTypes, DControl, DOwned
  <2>4. Alive' => DNoticed'
    BY <1>5, <1>0, Zenon DEF NotifyReady, DTypes, DControl, DOwned, DNoticed
  <2>. QED
    BY <1>0, <2>1, <2>2, <2>3, <2>4, Zenon DEF DInv
<1>6. CASE LoopEnter
  <2>1. DControl'
    BY <1>6, <1>0, Zenon DEF LoopEnter, DTypes, DControl
  <2>2. DExit'
    BY <1>6, <1>0, Zenon DEF LoopEnter, DTypes, DControl, DExit, DOwned
  <2>3. Alive' => DOwned'
    BY <1>6, <1>0 DEF LoopEnter, DTypes, DControl, DOwned
  <2>4. Alive' => DNoticed'
    BY <1>6, <1>0 DEF LoopEnter, DTypes, DControl, DOwned, DNoticed
  <2>. QED
    BY <1>0, <2>1, <2>2, <2>3, <2>4, Zenon DEF DInv
<1>7. CASE Apply
  <2>1. DControl'
    BY <1>7, <1>0 DEF Apply, DTypes, DControl
  <2>2. DExit'
    BY <1>7, <1>0, Zenon DEF Apply, DTypes, DControl, DExit, DOwned
  <2>3. Alive' => DOwned'
    BY <1>7, <1>0 DEF Apply, DTypes, DControl, DOwned
  <2>4. Alive' => DNoticed'
    BY <1>7, <1>0 DEF Apply, DTypes, DControl, DOwned, DNoticed
  <2>. QED
    BY <1>0, <2>1, <2>2, <2>3, <2>4, Zenon DEF DInv
<1>8. CASE Attempt
  <2>1. DControl'
    BY <1>8, <1>0 DEF Attempt, DTypes, DControl
  <2>2. DExit'
    BY <1>8, <1>0, Zenon DEF Attempt, DTypes, DControl, DExit, DOwned
  <2>3. Alive' => DOwned'
    BY <1>8, <1>0 DEF Attempt, DTypes, DControl, DOwned
  <2>4. Alive' => DNoticed'
    BY <1>8, <1>0 DEF Attempt, DTypes, DControl, DOwned, DNoticed
  <2>. QED
    BY <1>0, <2>1, <2>2, <2>3, <2>4, Zenon DEF DInv
<1>9. CASE EnterCycle
  <2>1. DControl'
    BY <1>9, <1>0, Zenon DEF EnterCycle, Updating, DTypes, DControl
  <2>2. DExit'
    BY <1>9, <1>0, Zenon DEF EnterCycle, Updating, DTypes, DControl, DExit, DOwned
  <2>3. Alive' => DOwned'
    BY <1>9, <1>0 DEF EnterCycle, Updating, DTypes, DControl, DOwned
  <2>4. Alive' => DNoticed'
    BY <1>9, <1>0 DEF EnterCycle, Updating, DTypes, DControl, DOwned, DNoticed
  <2>. QED
    BY <1>0, <2>1, <2>2, <2>3, <2>4, Zenon DEF DInv
<1>10. CASE LeaveCycle
  <2>1. DControl'
    BY <1>10, <1>0, Zenon DEF LeaveCycle, InCycle, DTypes, DControl
  <2>2. DExit'
    BY <1>10, <1>0, Zenon DEF LeaveCycle, InCycle, DTypes, DControl, DExit, DOwned
  <2>3. Alive' => DOwned'
    BY <1>10, <1>0 DEF LeaveCycle, InCycle, DTypes, DControl, DOwned
  <2>4. Alive' => DNoticed'
    BY <1>10, <1>0, Zenon DEF LeaveCycle, InCycle, DTypes, DControl, DOwned, DNoticed
  <2>. QED
    BY <1>0, <2>1, <2>2, <2>3, <2>4, Zenon DEF DInv
<1>11. CASE Select
  <2>1. DControl'
    BY <1>11, <1>0, Zenon DEF Select, Events, DTypes, DControl
  <2>2. DExit'
    BY <1>11, <1>0, Zenon DEF Select, Events, DTypes, DControl, DExit, DOwned
  <2>3. Alive' => DOwned'
    BY <1>11, <1>0 DEF Select, Events, DTypes, DControl, DOwned
  <2>4. Alive' => DNoticed'
    BY <1>11, <1>0, Zenon DEF Select, Events, DTypes, DControl, DOwned, DNoticed
  <2>. QED
    BY <1>0, <2>1, <2>2, <2>3, <2>4, Zenon DEF DInv
<1>12. CASE SelectTick
  <2>1. DControl'
    BY <1>12, <1>0 DEF SelectTick, DTypes, DControl
  <2>2. DExit'
    BY <1>12, <1>0, Zenon DEF SelectTick, DTypes, DControl, DExit, DOwned
  <2>3. Alive' => DOwned'
    BY <1>12, <1>0 DEF SelectTick, DTypes, DControl, DOwned
  <2>4. Alive' => DNoticed'
    BY <1>12, <1>0 DEF SelectTick, DTypes, DControl, DOwned, DNoticed
  <2>. QED
    BY <1>0, <2>1, <2>2, <2>3, <2>4, Zenon DEF DInv
<1>13. CASE SelectRetry
  <2>1. DControl'
    BY <1>13, <1>0, Zenon DEF SelectRetry, DTypes, DControl
  <2>2. DExit'
    BY <1>13, <1>0, Zenon DEF SelectRetry, DTypes, DControl, DExit, DOwned
  <2>3. Alive' => DOwned'
    BY <1>13, <1>0 DEF SelectRetry, DTypes, DControl, DOwned
  <2>4. Alive' => DNoticed'
    BY <1>13, <1>0 DEF SelectRetry, DTypes, DControl, DOwned, DNoticed
  <2>. QED
    BY <1>0, <2>1, <2>2, <2>3, <2>4, Zenon DEF DInv
<1>14. CASE SelectMetrics
  <2>1. DControl'
    BY <1>14, <1>0, Zenon DEF SelectMetrics, DTypes, DControl
  <2>2. DExit'
    BY <1>14, <1>0, Zenon DEF SelectMetrics, DTypes, DControl, DExit, DOwned
  <2>3. Alive' => DOwned'
    BY <1>14, <1>0 DEF SelectMetrics, DTypes, DControl, DOwned
  <2>4. Alive' => DNoticed'
    BY <1>14, <1>0 DEF SelectMetrics, DTypes, DControl, DOwned, DNoticed
  <2>. QED
    BY <1>0, <2>1, <2>2, <2>3, <2>4, Zenon DEF DInv
<1>15. CASE SelectReloaded
  <2>1. DControl'
    BY <1>15, <1>0 DEF SelectReloaded, DTypes, DControl
  <2>2. DExit'
    BY <1>15, <1>0, Zenon DEF SelectReloaded, DTypes, DControl, DExit, DOwned
  <2>3. Alive' => DOwned'
    BY <1>15, <1>0 DEF SelectReloaded, DTypes, DControl, DOwned
  <2>4. Alive' => DNoticed'
    BY <1>15, <1>0 DEF SelectReloaded, DTypes, DControl, DOwned, DNoticed
  <2>. QED
    BY <1>0, <2>1, <2>2, <2>3, <2>4, Zenon DEF DInv
<1>16. CASE SelectPSI
  <2>1. DControl'
    BY <1>16, <1>0, Zenon DEF SelectPSI, DTypes, DControl
  <2>2. DExit'
    BY <1>16, <1>0, Zenon DEF SelectPSI, DTypes, DControl, DExit, DOwned
  <2>3. Alive' => DOwned'
    BY <1>16, <1>0 DEF SelectPSI, DTypes, DControl, DOwned
  <2>4. Alive' => DNoticed'
    BY <1>16, <1>0 DEF SelectPSI, DTypes, DControl, DOwned, DNoticed
  <2>. QED
    BY <1>0, <2>1, <2>2, <2>3, <2>4, Zenon DEF DInv
<1>17. CASE SelectDone
  <2>1. DControl'
    BY <1>17, <1>0, Zenon DEF SelectDone, DTypes, DControl
  <2>2. DExit'
    BY <1>17, <1>0, Zenon DEF SelectDone, DTypes, DControl, DExit, DOwned
  <2>3. Alive' => DOwned'
    BY <1>17, <1>0 DEF SelectDone, DTypes, DControl, DOwned
  <2>4. Alive' => DNoticed'
    BY <1>17, <1>0, Zenon DEF SelectDone, DTypes, DControl, DOwned, DNoticed
  <2>. QED
    BY <1>0, <2>1, <2>2, <2>3, <2>4, Zenon DEF DInv
<1>18. CASE ReloadBegin
  <2>1. DControl'
    BY <1>18, <1>0 DEF ReloadBegin, DTypes, DControl
  <2>2. DExit'
    BY <1>18, <1>0, Zenon DEF ReloadBegin, DTypes, DControl, DExit, DOwned
  <2>3. Alive' => DOwned'
    BY <1>18, <1>0 DEF ReloadBegin, DTypes, DControl, DOwned
  <2>4. Alive' => DNoticed'
    BY <1>18, <1>0, Zenon DEF ReloadBegin, DTypes, DControl, DOwned, DNoticed
  <2>. QED
    BY <1>0, <2>1, <2>2, <2>3, <2>4, Zenon DEF DInv
<1>19. CASE ReloadUpdate
  <2>1. DControl'
    BY <1>19, <1>0, Zenon DEF ReloadUpdate, InCycle, DTypes, DControl
  <2>2. DExit'
    BY <1>19, <1>0, Zenon DEF ReloadUpdate, InCycle, DTypes, DControl, DExit, DOwned
  <2>3. Alive' => DOwned'
    BY <1>19, <1>0 DEF ReloadUpdate, InCycle, DTypes, DControl, DOwned
  <2>4. Alive' => DNoticed'
    BY <1>19, <1>0, Zenon DEF ReloadUpdate, InCycle, DTypes, DControl, DOwned, DNoticed
  <2>. QED
    BY <1>0, <2>1, <2>2, <2>3, <2>4, Zenon DEF DInv
<1>20. CASE ReloadApply
  <2>1. DControl'
    BY <1>20, <1>0, Zenon DEF ReloadApply, Idle, DTypes, DControl
  <2>2. DExit'
    BY <1>20, <1>0, Zenon DEF ReloadApply, Idle, DTypes, DControl, DExit, DOwned
  <2>3. Alive' => DOwned'
    BY <1>20, <1>0 DEF ReloadApply, Idle, DTypes, DControl, DOwned
  <2>4. Alive' => DNoticed'
    BY <1>20, <1>0, Zenon DEF ReloadApply, Idle, DTypes, DControl, DOwned, DNoticed
  <2>. QED
    BY <1>0, <2>1, <2>2, <2>3, <2>4, Zenon DEF DInv
<1>21. CASE ReloadStopPSI
  <2>1. DControl'
    BY <1>21, <1>0, Zenon DEF ReloadStopPSI, WithoutWatcher, Closing, DTypes, DControl
  <2>2. DExit'
    BY <1>21, <1>0, Zenon DEF ReloadStopPSI, WithoutWatcher, Closing, DTypes, DControl, DExit, DOwned
  <2>3. Alive' => DOwned'
    BY <1>21, <1>0 DEF ReloadStopPSI, WithoutWatcher, Closing, DTypes, DControl, DOwned
  <2>4. Alive' => DNoticed'
    BY <1>21, <1>0, Zenon DEF ReloadStopPSI, WithoutWatcher, Closing, DTypes, DControl, DOwned, DNoticed
  <2>. QED
    BY <1>0, <2>1, <2>2, <2>3, <2>4, Zenon DEF DInv
<1>22. CASE ReloadStartPSI
  <2>1. DControl'
    BY <1>22, <1>0, Zenon DEF ReloadStartPSI, Joined, Built, Unused, Started, Fresh, WithWatcher, DTypes, DControl
  <2>2. DExit'
    BY <1>22, <1>0, Zenon DEF ReloadStartPSI, Joined, Built, Unused, Started, Fresh, WithWatcher, DTypes, DControl, DExit, DOwned
  <2>3. Alive' => DOwned'
    BY <1>22, <1>0 DEF ReloadStartPSI, Joined, Built, Unused, Started, Fresh, WithWatcher, DTypes, DControl, DOwned
  <2>4. Alive' => DNoticed'
    BY <1>22, <1>0, Zenon DEF ReloadStartPSI, Joined, Built, Unused, Started, Fresh, WithWatcher, DTypes, DControl, DOwned, DNoticed
  <2>. QED
    BY <1>0, <2>1, <2>2, <2>3, <2>4, Zenon DEF DInv
<1>23. CASE ReloadPublish
  <2>1. DControl'
    BY <1>23, <1>0, Zenon DEF ReloadPublish, DTypes, DControl
  <2>2. DExit'
    BY <1>23, <1>0, Zenon DEF ReloadPublish, DTypes, DControl, DExit, DOwned
  <2>3. Alive' => DOwned'
    BY <1>23, <1>0 DEF ReloadPublish, DTypes, DControl, DOwned
  <2>4. Alive' => DNoticed'
    BY <1>23, <1>0 DEF ReloadPublish, DTypes, DControl, DOwned, DNoticed
  <2>. QED
    BY <1>0, <2>1, <2>2, <2>3, <2>4, Zenon DEF DInv
<1>24. CASE ReloadNotify
  <2>1. DControl'
    BY <1>24, <1>0, Zenon DEF ReloadNotify, DTypes, DControl
  <2>2. DExit'
    BY <1>24, <1>0, Zenon DEF ReloadNotify, DTypes, DControl, DExit, DOwned
  <2>3. Alive' => DOwned'
    BY <1>24, <1>0 DEF ReloadNotify, DTypes, DControl, DOwned
  <2>4. Alive' => DNoticed'
    BY <1>24, <1>0 DEF ReloadNotify, DTypes, DControl, DOwned, DNoticed
  <2>. QED
    BY <1>0, <2>1, <2>2, <2>3, <2>4, Zenon DEF DInv
<1>25. CASE Terminate
  <2>1. DControl'
    BY <1>25, <1>0, Zenon DEF Terminate, DTypes, DControl
  <2>2. DExit'
    BY <1>25, <1>0, Zenon DEF Terminate, DTypes, DControl, DExit, DOwned
  <2>3. Alive' => DOwned'
    BY <1>25, <1>0 DEF Terminate, DTypes, DControl, DOwned
  <2>4. Alive' => DNoticed'
    BY <1>25, <1>0 DEF Terminate, DTypes, DControl, DOwned, DNoticed
  <2>. QED
    BY <1>0, <2>1, <2>2, <2>3, <2>4, Zenon DEF DInv
<1>26. CASE Claim
  <2>1. DControl'
    BY <1>26, <1>0, Zenon DEF Claim, DTypes, DControl
  <2>2. DExit'
    BY <1>26, <1>0, Zenon DEF Claim, DTypes, DControl, DExit, DOwned
  <2>3. Alive' => DOwned'
    BY <1>26, <1>0 DEF Claim, DTypes, DControl, DOwned
  <2>4. Alive' => DNoticed'
    BY <1>26, <1>0 DEF Claim, DTypes, DControl, DOwned, DNoticed
  <2>. QED
    BY <1>0, <2>1, <2>2, <2>3, <2>4, Zenon DEF DInv
<1>27. CASE ForceExit
  <2>1. DControl'
    BY <1>27, <1>0, Zenon DEF ForceExit, DTypes, DControl
  <2>2. DExit'
    BY <1>27, <1>0, Zenon DEF ForceExit, DTypes, DControl, DExit, DOwned
  <2>3. Alive' => DOwned'
    BY <1>27, <1>0, Zenon DEF ForceExit, DTypes, DControl, DOwned
  <2>4. Alive' => DNoticed'
    BY <1>27, <1>0 DEF ForceExit, DTypes, DControl, DOwned, DNoticed
  <2>. QED
    BY <1>0, <2>1, <2>2, <2>3, <2>4, Zenon DEF DInv
<1>28. CASE StopConfigWatcher
  <2>1. DControl'
    BY <1>28, <1>0, Zenon DEF StopConfigWatcher, DTypes, DControl
  <2>2. DExit'
    BY <1>28, <1>0, Zenon DEF StopConfigWatcher, DTypes, DControl, DExit, DOwned
  <2>3. Alive' => DOwned'
    BY <1>28, <1>0 DEF StopConfigWatcher, DTypes, DControl, DOwned
  <2>4. Alive' => DNoticed'
    BY <1>28, <1>0, Zenon DEF StopConfigWatcher, DTypes, DControl, DOwned, DNoticed
  <2>. QED
    BY <1>0, <2>1, <2>2, <2>3, <2>4, Zenon DEF DInv
<1>29. CASE StopPSIWatcher
  <2>1. DControl'
    BY <1>29, <1>0, Zenon DEF StopPSIWatcher, WithoutWatcher, Closing, DTypes, DControl
  <2>2. DExit'
    BY <1>29, <1>0, Zenon DEF StopPSIWatcher, WithoutWatcher, Closing, DTypes, DControl, DExit, DOwned
  <2>3. Alive' => DOwned'
    BY <1>29, <1>0 DEF StopPSIWatcher, WithoutWatcher, Closing, DTypes, DControl, DOwned
  <2>4. Alive' => DNoticed'
    BY <1>29, <1>0 DEF StopPSIWatcher, WithoutWatcher, Closing, DTypes, DControl, DOwned, DNoticed
  <2>. QED
    BY <1>0, <2>1, <2>2, <2>3, <2>4, Zenon DEF DInv
<1>30. CASE StopManagers(TRUE)
  <2>1. DControl'
    BY <1>30, <1>0, Zenon DEF StopManagers, Joined, DTypes, DControl
  <2>2. DExit'
    BY <1>30, <1>0, Zenon DEF StopManagers, Joined, DTypes, DControl, DExit, DOwned
  <2>3. Alive' => DOwned'
    BY <1>30, <1>0, Zenon DEF StopManagers, Joined, DTypes, DControl, DOwned
  <2>4. Alive' => DNoticed'
    BY <1>30, <1>0, Zenon DEF StopManagers, Joined, DTypes, DControl, DOwned, DNoticed
  <2>. QED
    BY <1>0, <2>1, <2>2, <2>3, <2>4, Zenon DEF DInv
<1>31. CASE StopManagers(FALSE)
  <2>1. DControl'
    BY <1>31, <1>0, Zenon DEF StopManagers, Joined, DTypes, DControl
  <2>2. DExit'
    BY <1>31, <1>0, Zenon DEF StopManagers, Joined, DTypes, DControl, DExit, DOwned
  <2>3. Alive' => DOwned'
    BY <1>31, <1>0, Zenon DEF StopManagers, Joined, DTypes, DControl, DOwned
  <2>4. Alive' => DNoticed'
    BY <1>31, <1>0 DEF StopManagers, Joined, DTypes, DControl, DOwned, DNoticed
  <2>. QED
    BY <1>0, <2>1, <2>2, <2>3, <2>4, Zenon DEF DInv
<1>32. CASE FinishShutdown
  <2>1. DControl'
    BY <1>32, <1>0, Zenon DEF FinishShutdown, DTypes, DControl
  <2>2. DExit'
    BY <1>32, <1>0, Zenon DEF FinishShutdown, DTypes, DControl, DExit, DOwned
  <2>3. Alive' => DOwned'
    BY <1>32, <1>0, Zenon DEF FinishShutdown, DTypes, DControl, DOwned
  <2>4. Alive' => DNoticed'
    BY <1>32, <1>0, Zenon DEF FinishShutdown, DTypes, DControl, DOwned, DNoticed
  <2>. QED
    BY <1>0, <2>1, <2>2, <2>3, <2>4, Zenon DEF DInv
<1>33. CASE Return
  <2>1. DControl'
    BY <1>33, <1>0, Zenon DEF Return, DTypes, DControl
  <2>2. DExit'
    <3>1. /\ Alive /\ loop.at = "ended" /\ stop.dog # "claimed" /\ stop'.dog = stop.dog
          /\ UNCHANGED <<watcher, loop>>
      BY <1>33, Zenon DEF Return, DTypes
    <3>2. stop.dog = "done" /\ app.watcher = None /\ loop.old = None /\ reload.old = None
      BY <3>1, Zenon DEF DControl
    <3>3. \A w \in Watchers : watcher[w].run \in {"none", "gone"}
      BY <3>1, <3>2 DEF DOwned, DTypes, Runs
    <3>. QED
      BY <3>1, <3>2, <3>3, Zenon DEF DExit
  <2>3. Alive' => DOwned'
    BY <1>33, <1>0, Zenon DEF Return, DTypes, DControl, DOwned
  <2>4. Alive' => DNoticed'
    BY <1>33, <1>0, Zenon DEF Return, DTypes, DControl, DOwned, DNoticed
  <2>. QED
    BY <1>0, <2>1, <2>2, <2>3, <2>4, Zenon DEF DInv
<1>34. ASSUME NEW w \in Watchers, PollWake(w) PROVE DInv'
  <2>1. DControl'
    BY <1>34, <1>0, Zenon DEF PollWake, DControl
  <2>2. DExit'
    BY <1>34, <1>0, Zenon DEF PollWake, DExit
  <2>3. Alive' => DOwned'
    BY <1>34, <1>0 DEF PollWake, Gone, Fresh, DTypes, DControl, DOwned
  <2>4. Alive' => DNoticed'
    BY <1>34, <1>0, Zenon DEF PollWake, DNoticed
  <2>. QED
    BY <1>0, <2>1, <2>2, <2>3, <2>4, Zenon DEF DInv
<1>35. ASSUME NEW w \in Watchers, PollPressure(w) PROVE DInv'
  <2>1. DControl'
    BY <1>35, <1>0, Zenon DEF PollPressure, DControl
  <2>2. DExit'
    BY <1>35, <1>0, Zenon DEF PollPressure, DExit
  <2>3. Alive' => DOwned'
    BY <1>35, <1>0 DEF PollPressure, DTypes, DControl, DOwned
  <2>4. Alive' => DNoticed'
    BY <1>35, <1>0, Zenon DEF PollPressure, DNoticed
  <2>. QED
    BY <1>0, <2>1, <2>2, <2>3, <2>4, Zenon DEF DInv
<1>36. ASSUME NEW w \in Watchers, PollTerminal(w) PROVE DInv'
  <2>1. DControl'
    BY <1>36, <1>0, Zenon DEF PollTerminal, DControl
  <2>2. DExit'
    BY <1>36, <1>0, Zenon DEF PollTerminal, DExit
  <2>3. Alive' => DOwned'
    BY <1>36, <1>0 DEF PollTerminal, DTypes, DControl, DOwned
  <2>4. Alive' => DNoticed'
    BY <1>36, <1>0, Zenon DEF PollTerminal, DNoticed
  <2>. QED
    BY <1>0, <2>1, <2>2, <2>3, <2>4, Zenon DEF DInv
<1>37. CASE Run
  BY <1>37, <1>1, <1>2, <1>3, <1>4, <1>6, <1>7, <1>8, <1>9, <1>10, <1>11, Zenon DEF Run
<1>38. CASE Reload
  BY <1>38, <1>19, <1>20, <1>21, <1>22, <1>23, <1>24, Zenon DEF Reload
<1>39. CASE Shutdown
  BY <1>39, <1>28, <1>29, <1>30, <1>32, <1>33, Zenon DEF Shutdown
<1>40. CASE UNCHANGED vars
  BY <1>40, <1>0 DEF vars, DControl, DExit, DOwned, DNoticed
<1>. QED
  BY <1>5, <1>12, <1>13, <1>14, <1>15, <1>16, <1>17, <1>18, <1>25, <1>26, <1>27, <1>31,
     <1>34, <1>35, <1>36, <1>37, <1>38, <1>39, <1>40, Zenon DEF Next

\* The invariant holds of Run, HandleReload and the shutdown as long as no reload
\* precedes the start of PSI.
THEOREM DaemonInvariant ==
  ASSUME ~EarlyReloads
  PROVE  Spec => []DInv
<1>1. Init => DInv
  <2> SUFFICES ASSUME Init PROVE DInv
    BY Zenon
  <2> USE ConfigsAssumption, WatchersAssumption
  <2>1. DTypes
    BY DEF Init, DTypes, Apps, Pollers, Loops, Reloads, Stops, Settings, Watcher0, LoopAts, Starting,
           ReloadAts, Whys, Dogs, Exits, Runs, Fresh, Idle
  <2>2. DControl
    BY DEF Init, DControl, Starting, Stopping
  <2>3. DExit
    BY Zenon DEF Init, DExit
  <2>4. DOwned
    BY DEF Init, DOwned, Fresh
  <2>5. DNoticed
    BY DEF Init, DNoticed, Looping
  <2>. QED
    BY <2>1, <2>2, <2>3, <2>4, <2>5, Zenon DEF DInv
<1>2. DInv /\ [Next]_vars => DInv'
  BY DStep, Zenon
<1>. QED
  BY <1>1, <1>2, PTL DEF Spec

\* cgroup/psi_watcher.go and internal/app: no poll goroutine is ever without an
\* owner that stops it, and an ordered exit leaves none behind.
THEOREM DaemonWatchersOwned ==
  ASSUME ~EarlyReloads
  PROVE  Spec => []WatchersOwned
<1>1. DInv => WatchersOwned
  BY Zenon DEF DInv, DOwned, DExit, WatchersOwned
<1>. QED
  BY <1>1, DaemonInvariant, PTL

\* internal/app/app_loop.go and app_psi.go: the notification of a reload is never
\* lost to the loop, whatever the loop was doing when it came.
THEOREM DaemonNoticesReload ==
  ASSUME ~EarlyReloads
  PROVE  Spec => []NoticedReload
<1>1. DInv => NoticedReload
  BY Zenon DEF DInv, DOwned, DNoticed, NoticedReload, Quiet, Looping, Events
<1>. QED
  BY <1>1, DaemonInvariant, PTL

-----------------------------------------------------------------------------
(* The least and the greatest of a set of numbers *)

LEMMA LeastNatural ==
    ASSUME NEW T, T \subseteq Nat, T # {}
    PROVE  \E x \in T : \A y \in T : x <= y
<1> DEFINE R == OpToRel(<, Nat)
<1>1. IsWellFoundedOn(R, Nat)
  BY NatLessThanWellFounded, Zenon
<1>2. \A x, y \in Nat : x < y => <<x, y>> \in R
  BY DEF OpToRel
<1> HIDE DEF R
<1>3. PICK x \in T : \A y \in T : ~(<<y, x>> \in R)
  BY <1>1, WFMin, Zenon
<1>4. \A y \in T : ~(y < x)
  BY <1>2, <1>3, Zenon
<1>5. \A y \in T : x <= y
  BY <1>4
<1>. QED
  BY <1>5, Zenon

-----------------------------------------------------------------------------
(* The blackout schedule *)

\* A schedule as written, and the hours of a week.
Parts == Seq(Int) \ {<<>>}
BWindows == [days : Seq(Parts), hours : Int \X Int]
Week == 0..167

\* The inductive invariant: the windows are those of the schedule.
BInv ==
    /\ bSpec \in Seq(BWindows) /\ bHour \in Week
    /\ bFrames = B!ParseTimeframe(bSpec)

\* A week goes round.
LEMMA WeekGoesRound ==
    ASSUME NEW x \in -167..167
    PROVE  x % 168 = IF x >= 0 THEN x ELSE x + 168
OBVIOUS

\* The parse of a list of days.
LEMMA ParsedDays ==
    ASSUME NEW parts \in Seq(Parts), B!parseDaysOk(parts)
    PROVE  B!parseDays(parts) = B!DaysOf(parts)
<1>1. CASE parts = B!Star
  BY <1>1, Zenon DEF B!parseDays, B!DaysOf
<1>2. CASE parts # B!Star
  <2>1. ASSUME NEW i \in DOMAIN parts
        PROVE  parts[i][1] \in 0..6 /\ parts[i][Len(parts[i])] \in 0..6
    <3>1. parts[i] \in Seq(Int) /\ parts[i] # <<>>
      BY <2>1 DEF Parts
    <3>2. 1 \in DOMAIN parts[i] /\ Len(parts[i]) \in DOMAIN parts[i]
      BY <3>1
    <3>. QED
      BY <2>1, <3>2, Zenon DEF B!parseDaysOk
  <2>2. ASSUME NEW d
        PROVE  (\E i \in DOMAIN parts : d \in parts[i][1]..parts[i][Len(parts[i])])
               <=> d \in 0..6 /\ \E i \in DOMAIN parts : parts[i][1] <= d /\ d <= parts[i][Len(parts[i])]
    <3>1. ASSUME NEW i \in DOMAIN parts
          PROVE  d \in parts[i][1]..parts[i][Len(parts[i])]
                 <=> d \in 0..6 /\ parts[i][1] <= d /\ d <= parts[i][Len(parts[i])]
      <4>1. \A lo, hi \in 0..6 : d \in lo..hi <=> d \in 0..6 /\ lo <= d /\ d <= hi
        OBVIOUS
      <4>. QED
        BY <2>1, <3>1, <4>1, Zenon
    <3>. QED
      BY <3>1, Zenon
  <2>. QED
    BY <1>2, <2>2, Zenon DEF B!parseDays, B!DaysOf
<1>. QED
  BY <1>1, <1>2, Zenon

\* An hour of the week is an hour of a day, and the day before Sunday is Saturday.
LEMMA HourOfDay ==
    ASSUME NEW hour \in Week
    PROVE  /\ hour \div 24 \in 0..6 /\ hour % 24 \in 0..23
           /\ hour = 24 * (hour \div 24) + (hour % 24)
           /\ ((hour \div 24) + 6) % 7 = IF hour \div 24 = 0 THEN 6 ELSE (hour \div 24) - 1
<1>1. hour \in Int /\ 0 <= hour /\ hour <= 167
  BY DEF Week
<1> DEFINE day == hour \div 24
           h == hour % 24
<1>2. day \in Int /\ h \in Int /\ 0 <= h /\ h < 24 /\ hour = 24 * day + h
  BY <1>1
<1> HIDE DEF day, h
<1>3. day \in 0..6 /\ h \in 0..23
  BY <1>1, <1>2
<1>4. (day + 6) % 7 = IF day = 0 THEN 6 ELSE day - 1
  BY <1>3
<1>. QED
  BY <1>2, <1>3, <1>4, Zenon DEF day, h

\* blackoutEndAt of one window: on in the hours that its author means, and the end
\* it names is that of the day it started on.
LEMMA WindowEnds ==
    ASSUME bHour \in Week, NEW w \in BWindows, B!parseDaysOk(w.days), B!parseHoursOk(w.hours),
           NEW tf, tf = [days |-> B!parseDays(w.days), start |-> w.hours[1], end |-> w.hours[2]],
           NEW r, r = B!EndOf(tf, bHour \div 24, bHour % 24)
    PROVE  IF B!On(w) = {} THEN ~r.active
           ELSE r.active /\ \E d \in B!On(w) : r.in = B!Length(w.hours) - B!Elapsed(w, d)
<1> DEFINE day == bHour \div 24
           h == bHour % 24
           s == w.hours[1]
           e == w.hours[2]
           days == B!DaysOf(w.days)
           before == IF day = 0 THEN 6 ELSE day - 1
           length == B!Length(w.hours)
           elapsed(d) == B!Elapsed(w, d)
<1>1. day \in 0..6 /\ h \in 0..23 /\ bHour = 24 * day + h /\ (day + 6) % 7 = before
  BY HourOfDay, Zenon
<1>2. s \in 0..23 /\ e \in 0..24 /\ s # e
  BY Zenon DEF B!parseHoursOk
<1>3. tf.days = days /\ tf.start = s /\ tf.end = e
  <2>1. w.days \in Seq(Parts)
    BY Zenon DEF BWindows
  <2>2. B!parseDays(w.days) = days
    BY <2>1, ParsedDays, Zenon
  <2>. QED
    BY <2>2
<1>4. length = IF e > s THEN e - s ELSE 24 - s + e
  BY Zenon DEF B!Length
<1>5. \A d \in days : d \in 0..6
  BY Zenon DEF B!DaysOf
<1>6. before \in 0..6
  BY <1>1
<1>7. B!On(w) = {d \in days : elapsed(d) < length}
  BY Zenon DEF B!On
<1>8. ASSUME NEW d \in 0..6 PROVE elapsed(d) = (bHour - (24 * d + s)) % 168
  BY DEF B!Elapsed
<1>9. r = IF s < e
          THEN IF day \in days /\ h >= s /\ h < e THEN [active |-> TRUE, in |-> e - h] ELSE B!None
          ELSE IF day \in days /\ h >= s THEN [active |-> TRUE, in |-> 24 + e - h]
          ELSE IF before \in days /\ h < e THEN [active |-> TRUE, in |-> e - h] ELSE B!None
  <2> HIDE DEF before, days
  <2>. QED
    BY <1>1, <1>3, Zenon DEF B!EndOf
<1>10. ~B!None.active
  BY Zenon DEF B!None
<1> HIDE DEF day, h, s, e, days, before, length, elapsed
<1>11. ASSUME NEW d \in 0..6
       PROVE  /\ s < e => (elapsed(d) < length <=> d = day /\ h >= s /\ h < e)
              /\ ~(s < e) => (elapsed(d) < length <=> (d = day /\ h >= s) \/ (d = before /\ h < e))
              /\ d = day /\ h >= s => elapsed(d) = h - s
              /\ d = before /\ h < s => elapsed(d) = 24 + h - s
  <2> DEFINE x == bHour - (24 * d + s)
             y == elapsed(d)
  <2>1. x = 24 * (day - d) + (h - s) /\ day - d \in -6..6 /\ h - s \in -23..23
    BY <1>1, <1>2
  <2>2. x \in -167..167
    BY <2>1
  <2>3. y = x % 168
    BY <1>8, <1>11, Zenon
  <2> HIDE DEF x, y
  <2>4. y = IF x >= 0 THEN x ELSE x + 168
    BY <2>2, <2>3, WeekGoesRound, Zenon
  <2>5. before = IF day = 0 THEN 6 ELSE day - 1
    BY Zenon DEF before
  <2>6. /\ s < e => (y < length <=> d = day /\ h >= s /\ h < e)
        /\ ~(s < e) => (y < length <=> (d = day /\ h >= s) \/ (d = before /\ h < e))
        /\ d = day /\ h >= s => y = h - s
        /\ d = before /\ h < s => y = 24 + h - s
    BY <1>1, <1>2, <1>4, <2>1, <2>4, <2>5
  <2>. QED
    BY <2>6, Zenon DEF y
<1>12. CASE s < e
  <2>1. CASE day \in days /\ h >= s /\ h < e
    <3>1. r.active /\ r.in = e - h
      BY <1>9, <1>12, <2>1
    <3>2. day \in B!On(w) /\ elapsed(day) = h - s
      BY <1>1, <1>7, <1>11, <1>12, <2>1, Zenon
    <3>3. e - h = (e - s) - (h - s)
      BY <1>1, <1>2
    <3>4. length = e - s
      BY <1>2, <1>4, <1>12
    <3>5. e - h = length - elapsed(day)
      BY <3>2, <3>3, <3>4, Zenon
    <3>. QED
      BY <3>1, <3>2, <3>5, Zenon DEF length, elapsed
  <2>2. CASE ~(day \in days /\ h >= s /\ h < e)
    <3>1. ~r.active
      BY <1>9, <1>10, <1>12, <2>2, Zenon
    <3>2. B!On(w) = {}
      BY <1>5, <1>7, <1>11, <1>12, <2>2, Zenon
    <3>. QED
      BY <3>1, <3>2, Zenon
  <2>. QED
    BY <2>1, <2>2, Zenon
<1>13. CASE ~(s < e)
  <2>1. CASE day \in days /\ h >= s
    <3>1. r.active /\ r.in = 24 + e - h
      BY <1>9, <1>13, <2>1
    <3>2. day \in B!On(w) /\ elapsed(day) = h - s
      BY <1>1, <1>7, <1>11, <1>13, <2>1, Zenon
    <3>3. 24 + e - h = (24 - s + e) - (h - s)
      BY <1>1, <1>2
    <3>4. length = 24 - s + e
      BY <1>2, <1>4, <1>13
    <3>5. 24 + e - h = length - elapsed(day)
      BY <3>2, <3>3, <3>4, Zenon
    <3>. QED
      BY <3>1, <3>2, <3>5, Zenon DEF length, elapsed
  <2>2. CASE ~(day \in days /\ h >= s) /\ before \in days /\ h < e
    <3>1. r.active /\ r.in = e - h
      BY <1>9, <1>13, <2>2
    <3>2. h < s
      BY <1>1, <1>2, <1>13, <2>2
    <3>3. before \in B!On(w) /\ elapsed(before) = 24 + h - s
      BY <1>6, <1>7, <1>11, <1>13, <2>2, <3>2, Zenon
    <3>4. e - h = (24 - s + e) - (24 + h - s)
      BY <1>1, <1>2
    <3>5. length = 24 - s + e
      BY <1>2, <1>4, <1>13
    <3>6. e - h = length - elapsed(before)
      BY <3>3, <3>4, <3>5, Zenon
    <3>. QED
      BY <3>1, <3>3, <3>6, Zenon DEF length, elapsed
  <2>3. CASE ~(day \in days /\ h >= s) /\ ~(before \in days /\ h < e)
    <3>1. ~r.active
      BY <1>9, <1>10, <1>13, <2>3, Zenon
    <3>2. B!On(w) = {}
      BY <1>5, <1>7, <1>11, <1>13, <2>3, Zenon
    <3>. QED
      BY <3>1, <3>2, Zenon
  <2>. QED
    BY <2>1, <2>2, <2>3, Zenon
<1>. QED
  BY <1>12, <1>13, Zenon

\* config/config.go: the daemon is in a blackout exactly in the hours that the schedule
\* covers, and the end it names is that of a window that is on, for every schedule.
THEOREM BlackoutIsAsScheduled == B!Spec => []BlackoutAsScheduled
<1>1. B!Init => BInv
  <2> SUFFICES ASSUME B!Init PROVE BInv
    BY Zenon
  <2>1. bSpec \in Seq(BWindows)
    BY BlackoutAssumption, Zenon DEF B!Init, BWindows, Parts
  <2>2. bHour \in Week
    BY DEF B!Init, Week
  <2>. QED
    BY <2>1, <2>2, Zenon DEF BInv, B!Init
<1>2. BInv /\ [B!Next]_(B!bvars) => BInv'
  <2> SUFFICES ASSUME BInv, [B!Next]_(B!bvars) PROVE BInv'
    BY Zenon
  <2>1. bSpec' = bSpec /\ bFrames' = bFrames
    BY Zenon DEF B!Next, B!Tick, B!bvars
  <2>2. bHour' \in Week
    <3>1. bHour \in Int /\ (bHour' = bHour \/ bHour' = (bHour + 1) % 168)
      BY DEF B!Next, B!Tick, B!bvars, BInv, Week
    <3>2. (bHour + 1) % 168 \in 0..167
      BY <3>1
    <3>. QED
      BY <3>1, <3>2, Zenon DEF BInv, Week
  <2>. QED
    BY <2>1, <2>2, Zenon DEF BInv, B!ParseTimeframe
<1>3. BInv => BlackoutAsScheduled
  <2> SUFFICES ASSUME BInv, bFrames # B!Invalid
               PROVE  LET b == B!blackoutEndAt(bHour) IN
                      IF \A i \in DOMAIN bSpec : B!On(bSpec[i]) = {} THEN ~b.active
                      ELSE /\ b.active
                           /\ \E i \in DOMAIN bSpec : \E d \in B!On(bSpec[i]) :
                                b.in = B!Length(bSpec[i].hours) - B!Elapsed(bSpec[i], d)
    BY Zenon DEF BlackoutAsScheduled, B!BlackoutAsScheduled
  <2> DEFINE end(i) == B!EndOf(bFrames[i], bHour \div 24, bHour % 24)
             on == {i \in DOMAIN bFrames : end(i).active}
  <2>1. /\ \A i \in DOMAIN bSpec : B!parseDaysOk(bSpec[i].days) /\ B!parseHoursOk(bSpec[i].hours)
        /\ bFrames = [i \in DOMAIN bSpec |-> [days |-> B!parseDays(bSpec[i].days),
                                              start |-> bSpec[i].hours[1], end |-> bSpec[i].hours[2]]]
    BY Zenon DEF BInv, B!ParseTimeframe
  <2>2. ASSUME NEW i \in DOMAIN bSpec
        PROVE  IF B!On(bSpec[i]) = {} THEN ~end(i).active
               ELSE end(i).active /\ \E d \in B!On(bSpec[i]) :
                      end(i).in = B!Length(bSpec[i].hours) - B!Elapsed(bSpec[i], d)
    <3>1. bHour \in Week /\ bSpec[i] \in BWindows
      BY <2>2 DEF BInv
    <3>2. bFrames[i] = [days |-> B!parseDays(bSpec[i].days), start |-> bSpec[i].hours[1], end |-> bSpec[i].hours[2]]
      BY <2>1, <2>2, Zenon
    <3>. QED
      BY <2>1, <2>2, <3>1, <3>2, WindowEnds, Zenon
  <2>3. DOMAIN bFrames = DOMAIN bSpec /\ DOMAIN bSpec \subseteq Nat
    BY <2>1 DEF BInv
  <2> HIDE DEF end
  <2>4. B!blackoutEndAt(bHour) = IF on = {} THEN B!None ELSE end(CHOOSE i \in on : \A j \in on : i <= j)
    BY Zenon DEF B!blackoutEndAt, end
  <2>5. CASE on = {}
    <3>1. \A i \in DOMAIN bSpec : B!On(bSpec[i]) = {}
      BY <2>2, <2>3, <2>5, Zenon
    <3>2. ~B!None.active
      BY Zenon DEF B!None
    <3>. QED
      BY <2>4, <2>5, <3>1, <3>2, Zenon
  <2>6. CASE on # {}
    <3>1. on \subseteq Nat
      BY <2>3, Zenon
    <3>2. \E i \in on : \A j \in on : i <= j
      BY <2>6, <3>1, LeastNatural, Zenon
    <3>3. PICK i \in on : B!blackoutEndAt(bHour) = end(i)
      BY <2>4, <2>6, <3>2, Zenon
    <3>4. i \in DOMAIN bSpec /\ end(i).active
      BY <2>3, Zenon
    <3>. QED
      BY <2>2, <3>3, <3>4, Zenon
  <2>. QED
    BY <2>5, <2>6, Zenon
<1>. QED
  BY <1>1, <1>2, <1>3, PTL DEF B!Spec

-----------------------------------------------------------------------------
(* The log *)

\* What the variables of the logger hold.
LGhosts == [written : SUBSET Nat, next : Nat, last : Nat, low : L!Slots, kept : SUBSET Nat,
            faults : Int, starts : Int]
LLogs == [sink : {"none", "file", "stderr", "syslog"}, handle : {"open", "nil", "dead"}, max : L!Slots,
          level : {"INFO", "ERROR"}, healthy : BOOLEAN]
LBefore == {"stat", "close", "prune", "remove", "shift", "compress", "drop", "rename"}
LAfter == {"open", "notice"}
LRots == [pc : {"idle", "write"} \cup LBefore \cup LAfter, index : Nat]

LTypes ==
    /\ lActive \in SUBSET Nat /\ lCopies \in [L!Slots -> SUBSET Nat]
    /\ lLog \in LLogs /\ lRot \in LRots /\ lGhost \in LGhosts

\* The records of the files are numbered below the next one, a copy is of older
\* records than one with a smaller number, unless a compression was given up
\* between the copy and the removal, and the files hold the end of the log.
LFiles ==
    /\ \A r \in lActive \cup lGhost.written : r < lGhost.next
    /\ \A i \in L!Slots : \A r \in lCopies[i] : r < lGhost.next /\ \A q \in lActive : r < q
    /\ \A i, j \in L!Slots : i < j =>
          lCopies[i] = lCopies[j] \/ \A r \in lCopies[i], q \in lCopies[j] : q < r
    /\ \A old \in L!Retained, new \in lGhost.written : old < new => new \in lActive \cup L!Copied

\* Where a rotation is says which copies are free.
LRotation ==
    /\ lRot.pc \notin {"idle", "write"} => lLog.sink = "file"
    /\ lLog.sink = "file" => lGhost.low <= lLog.max
    /\ lRot.pc = "idle" => lRot = L!Idle
    /\ lRot.pc = "prune" => lRot.index > lLog.max
    /\ lRot.pc = "shift" => lRot.index < lLog.max /\ lCopies[lRot.index + 1] = {}
    /\ lRot.pc = "compress" => 2 <= lLog.max /\ lCopies[2] = {}
    /\ lRot.pc = "drop" => 2 <= lLog.max /\ lCopies[2] = lCopies[1]
    /\ lRot.pc = "rename" => lCopies[1] = {}

\* And where the last record is.
LHealth ==
    /\ lRot.pc = "idle" /\ lLog.sink = "file" /\ lLog.healthy =>
         lLog.handle # "dead" /\ (lGhost.last # 0 => lGhost.last \in lActive \cup L!Copied)
    /\ lRot.pc \notin {"idle", "write"} => lLog.handle # "dead"
    /\ lRot.pc \in LBefore => lGhost.last \in lActive
    /\ lRot.pc \in LAfter => lGhost.last \in lCopies[1]

\* The inductive invariant.
LInv == LTypes /\ LFiles /\ LRotation /\ LHealth

\* The numbers of the copies.
LEMMA SlotNumbers ==
    /\ L!Largest \in Nat \ {0} /\ L!Slots = 1..L!Largest /\ lLimits \subseteq L!Slots /\ 1 \in L!Slots
    /\ L!Slots \subseteq Nat \ {0}
    /\ \A i \in L!Slots : \A j \in 1..i : j \in L!Slots
<1>1. L!Largest \in lLimits /\ \A k \in lLimits : k <= L!Largest
  BY LoggerAssumption, Zenon DEF L!Largest
<1>2. L!Largest \in Nat \ {0} /\ \A k \in lLimits : k \in Nat \ {0}
  BY <1>1, LoggerAssumption, Zenon
<1>3. L!Slots = 1..L!Largest
  BY Zenon DEF L!Slots
<1>4. \A k \in lLimits : k \in 1..L!Largest
  BY <1>1, <1>2
<1>5. 1 \in 1..L!Largest /\ 1..L!Largest \subseteq Nat \ {0}
  BY <1>2
<1>6. \A i \in 1..L!Largest : \A j \in 1..i : j \in 1..L!Largest
  BY <1>2
<1>. QED
  BY <1>2, <1>3, <1>4, <1>5, <1>6, Zenon

\* What is copied and what is retained.
LEMMA Holds ==
    /\ \A x : x \in L!Copied <=> \E i \in L!Slots : x \in lCopies[i]
    /\ \A x : x \in L!Retained <=> x \in lActive \/ \E i \in 1..lGhost.low : x \in lCopies[i]
BY Zenon DEF L!Copied, L!Retained

\* Files that stay, move or are copied hold the end of the log.
LEMMA SuffixStays ==
    ASSUME LFiles, lGhost'.written = lGhost.written,
           \A x : x \in L!Retained' => x \in L!Retained,
           \A x : x \in lActive \cup L!Copied => x \in (lActive \cup L!Copied)'
    PROVE  \A old \in L!Retained', new \in lGhost'.written : old < new => new \in (lActive \cup L!Copied)'
BY Zenon DEF LFiles

LEMMA FilesStay ==
    ASSUME LTypes, LFiles, UNCHANGED <<lActive, lCopies>>, lGhost' \in LGhosts,
           lGhost'.written = lGhost.written, lGhost'.next >= lGhost.next, lGhost'.low <= lGhost.low
    PROVE  LFiles'
<1>1. lGhost.next \in Nat /\ lGhost'.next \in Nat /\ lGhost.low \in Nat /\ lGhost'.low \in Nat
  BY SlotNumbers, Zenon DEF LTypes, LGhosts
<1>2. \A r \in Nat : r < lGhost.next => r < lGhost'.next
  BY <1>1
<1>3. \A i \in 1..lGhost'.low : i \in 1..lGhost.low
  BY <1>1
<1>4. \A x : x \in L!Retained' => x \in L!Retained
  BY <1>3, Zenon DEF L!Retained
<1>5. \A x : x \in lActive \cup L!Copied => x \in (lActive \cup L!Copied)'
  BY Zenon DEF L!Copied
<1>6. \A r \in lActive \cup lGhost.written : r \in Nat
  BY Zenon DEF LTypes, LGhosts
<1>7. \A i \in L!Slots : \A r \in lCopies[i] : r \in Nat
  BY Zenon DEF LTypes
<1>. QED
  BY <1>2, <1>4, <1>5, <1>6, <1>7, SuffixStays, Zenon DEF LFiles

\* A record is appended.
LEMMA FilesGrow ==
    ASSUME LTypes, LFiles, lCopies' = lCopies, lActive' = lActive \cup {lGhost.next},
           lGhost'.written = lGhost.written \cup {lGhost.next},
           lGhost'.next = lGhost.next + 1, lGhost'.low = lGhost.low
    PROVE  LFiles'
<1>1. lGhost.next \in Nat /\ lGhost.next < lGhost'.next
  BY DEF LTypes, LGhosts
<1>2. ASSUME NEW r \in Nat, r < lGhost.next PROVE r < lGhost'.next
  BY <1>1, <1>2
<1>3. \A r \in lActive \cup lGhost.written : r \in Nat /\ r < lGhost.next
  BY Zenon DEF LTypes, LGhosts, LFiles
<1>4. \A i \in L!Slots : \A r \in lCopies[i] : r \in Nat /\ r < lGhost.next
  BY Zenon DEF LTypes, LFiles
<1>5. \A r \in lActive' \cup lGhost'.written : r < lGhost'.next
  BY <1>1, <1>2, <1>3, Zenon
<1>6. \A i \in L!Slots : \A r \in lCopies'[i] : r < lGhost'.next /\ \A q \in lActive' : r < q
  BY <1>2, <1>4, Zenon DEF LFiles
<1>7. L!Copied' = L!Copied /\ \A x : x \in L!Retained' <=> x \in L!Retained \/ x = lGhost.next
  BY Zenon DEF L!Copied, L!Retained
<1>8. ASSUME NEW old \in L!Retained', NEW new \in lGhost'.written, old < new PROVE new \in (lActive \cup L!Copied)'
  <2>1. CASE new = lGhost.next
    BY <2>1, Zenon
  <2>2. CASE new \in lGhost.written /\ old \in L!Retained
    BY <1>7, <1>8, <2>2, Zenon DEF LFiles
  <2>3. CASE new \in lGhost.written /\ old = lGhost.next
    BY <1>1, <1>3, <1>8, <2>3
  <2>. QED
    BY <1>7, <1>8, <2>1, <2>2, <2>3, Zenon
<1>. QED
  BY <1>5, <1>6, <1>8, Zenon DEF LFiles

\* A copy at the limit or above it is removed: what is kept is newer.
LEMMA FilesShrink ==
    ASSUME LTypes, LFiles, NEW k \in L!Slots, lGhost.low <= k, lCopies' = [lCopies EXCEPT ![k] = {}],
           lActive' = lActive, lGhost' = lGhost
    PROVE  LFiles'
<1>1. lCopies'[k] = {} /\ \A i \in L!Slots \ {k} : lCopies'[i] = lCopies[i]
  BY Zenon DEF LTypes
<1>2. /\ \A i \in L!Slots : \A r \in lCopies'[i] : r < lGhost'.next /\ \A q \in lActive' : r < q
      /\ \A i, j \in L!Slots : i < j =>
           lCopies'[i] = lCopies'[j] \/ \A r \in lCopies'[i], q \in lCopies'[j] : q < r
  BY <1>1, Zenon DEF LFiles
<1>3. ASSUME NEW old \in L!Retained', NEW new \in lGhost.written, old < new PROVE new \in (lActive \cup L!Copied)'
  <2>1. CASE old \in lActive
    <3>1. new \in lActive \/ \E i \in L!Slots : new \in lCopies[i]
      BY <1>3, <2>1, Holds, Zenon DEF LFiles
    <3>2. \A i \in L!Slots : \A r \in lCopies[i] : r \in Nat /\ old \in Nat /\ r < old
      BY <2>1, Zenon DEF LFiles, LTypes
    <3>3. \A i \in L!Slots : new \notin lCopies[i]
      BY <1>3, <3>2
    <3>. QED
      BY <3>1, <3>3, Zenon
  <2>2. ASSUME NEW i \in 1..lGhost.low, old \in lCopies'[i] PROVE new \in (lActive \cup L!Copied)'
    <3>1. i \in L!Slots
      BY SlotNumbers, Zenon DEF LTypes, LGhosts
    <3>2. i # k /\ old \in lCopies[i]
      BY <1>1, <2>2, <3>1, Zenon
    <3>3. i < k
      BY <2>2, <3>1, <3>2, SlotNumbers DEF LTypes, LGhosts
    <3>4. old \in L!Retained
      BY <2>2, <3>2, Holds, Zenon
    <3>5. new \in lActive \/ \E j \in L!Slots : new \in lCopies[j]
      BY <1>3, <3>4, Holds, Zenon DEF LFiles
    <3>6. CASE new \in lActive \/ \E j \in L!Slots \ {k} : new \in lCopies[j]
      BY <1>1, <3>6, Zenon DEF L!Copied
    <3>7. CASE new \in lCopies[k]
      <4>1. CASE lCopies[i] = lCopies[k]
        BY <1>1, <3>1, <3>2, <3>7, <4>1, Zenon DEF L!Copied
      <4>2. CASE \A r \in lCopies[i], q \in lCopies[k] : q < r
        <5>1. new < old /\ new \in Nat /\ old \in Nat
          BY <3>1, <3>2, <3>7, <4>2, Zenon DEF LTypes
        <5>. QED
          BY <1>3, <5>1
      <4>. QED
        BY <3>1, <3>3, <4>1, <4>2, Zenon DEF LFiles
    <3>. QED
      BY <3>5, <3>6, <3>7, Zenon
  <2>. QED
    BY <1>3, <2>1, <2>2, Zenon DEF L!Retained
<1>. QED
  BY <1>2, <1>3, Zenon DEF LFiles

\* A copy moves to the next number, which is free.
LEMMA FilesShift ==
    ASSUME LTypes, LFiles, NEW k \in L!Slots, k + 1 \in L!Slots, lCopies[k + 1] = {},
           lCopies' = [lCopies EXCEPT ![k] = {}, ![k + 1] = lCopies[k]], lActive' = lActive, lGhost' = lGhost
    PROVE  LFiles'
<1>0. k \in Nat /\ k # k + 1 /\ k < k + 1 /\ \A i \in L!Slots : i \in Nat
  BY SlotNumbers
<1> DEFINE n == k + 1
<1> HIDE DEF n
<1>1. n \in L!Slots /\ n # k /\ lCopies[n] = {} /\ lCopies' = [lCopies EXCEPT ![k] = {}, ![n] = lCopies[k]]
  BY <1>0, Zenon DEF n
<1>2. lCopies'[k] = {} /\ lCopies'[n] = lCopies[k] /\ \A i \in L!Slots \ {k, n} : lCopies'[i] = lCopies[i]
  BY <1>1, Zenon DEF LTypes
<1>3. \A i \in L!Slots : \A r \in lCopies'[i] : r < lGhost'.next /\ \A q \in lActive' : r < q
  BY <1>1, <1>2, Zenon DEF LFiles
<1>4. /\ \A j \in L!Slots : n < j => k < j
      /\ \A i \in L!Slots \ {k} : i < n => i < k
  BY <1>0 DEF n
<1>5. ASSUME NEW i \in L!Slots, NEW j \in L!Slots, i < j
      PROVE  lCopies'[i] = lCopies'[j] \/ \A r \in lCopies'[i], q \in lCopies'[j] : q < r
  <2>1. CASE i = k \/ j = k
    BY <1>2, <2>1, Zenon
  <2>2. CASE i = n /\ j \notin {k, n}
    BY <1>2, <1>4, <1>5, <2>2, Zenon DEF LFiles
  <2>3. CASE j = n /\ i \notin {k, n}
    BY <1>2, <1>4, <1>5, <2>3, Zenon DEF LFiles
  <2>4. CASE i \notin {k, n} /\ j \notin {k, n}
    BY <1>2, <1>5, <2>4, Zenon DEF LFiles
  <2>5. CASE i = n /\ j = n
    BY <2>5, Zenon
  <2>. QED
    BY <2>1, <2>2, <2>3, <2>4, <2>5, Zenon
<1>6. n \in 1..lGhost.low => k \in 1..lGhost.low
  BY <1>0, SlotNumbers DEF n, LTypes, LGhosts
<1>7. \A i \in 1..lGhost.low : i \in L!Slots
  BY SlotNumbers, Zenon DEF LTypes, LGhosts
<1>8. ASSUME NEW x, x \in L!Retained' PROVE x \in L!Retained
  <2>1. x \in lActive \/ \E i \in 1..lGhost.low : x \in lCopies'[i]
    BY <1>8, Zenon DEF L!Retained
  <2>2. ASSUME NEW i \in 1..lGhost.low, x \in lCopies'[i] PROVE \E j \in 1..lGhost.low : x \in lCopies[j]
    <3>1. CASE i = n
      BY <1>2, <1>6, <2>2, <3>1, Zenon
    <3>2. CASE i # n
      BY <1>2, <1>7, <2>2, <3>2, Zenon
    <3>. QED
      BY <3>1, <3>2, Zenon
  <2>. QED
    BY <2>1, <2>2, Holds, Zenon
<1>9. ASSUME NEW x, x \in lActive \cup L!Copied PROVE x \in (lActive \cup L!Copied)'
  <2>1. x \in lActive \/ \E i \in L!Slots : x \in lCopies[i]
    BY <1>9, Holds, Zenon
  <2>2. ASSUME NEW i \in L!Slots, x \in lCopies[i] PROVE \E j \in L!Slots : x \in lCopies'[j]
    <3>1. CASE i = k
      BY <1>1, <1>2, <2>2, <3>1, Zenon
    <3>2. CASE i # k
      BY <1>1, <1>2, <2>2, <3>2, Zenon
    <3>. QED
      BY <3>1, <3>2, Zenon
  <2>. QED
    BY <2>1, <2>2, Zenon DEF L!Copied
<1>10. \A old \in L!Retained', new \in lGhost'.written : old < new => new \in (lActive \cup L!Copied)'
  BY <1>8, <1>9, SuffixStays, Zenon
<1>. QED
  BY <1>3, <1>5, <1>10, Zenon DEF LFiles

\* The first copy is compressed into the second, which is free.
LEMMA FilesCopy ==
    ASSUME LTypes, LFiles, 2 \in L!Slots, lCopies[2] = {},
           lCopies' = [lCopies EXCEPT ![2] = lCopies[1]], lActive' = lActive, lGhost' = lGhost
    PROVE  LFiles'
<1>0. 1 \in L!Slots /\ (\A i \in L!Slots : i \in Nat /\ (2 < i => 1 < i) /\ (i < 2 => i = 1))
      /\ (2 \in 1..lGhost.low => 1 \in 1..lGhost.low)
  BY SlotNumbers DEF LTypes, LGhosts
<1>2. lCopies'[2] = lCopies[1] /\ lCopies'[1] = lCopies[1] /\ \A i \in L!Slots \ {2} : lCopies'[i] = lCopies[i]
  BY <1>0, Zenon DEF LTypes
<1>3. \A i \in L!Slots : \A r \in lCopies'[i] : r < lGhost'.next /\ \A q \in lActive' : r < q
  BY <1>0, <1>2, Zenon DEF LFiles
<1>5. ASSUME NEW i \in L!Slots, NEW j \in L!Slots, i < j
      PROVE  lCopies'[i] = lCopies'[j] \/ \A r \in lCopies'[i], q \in lCopies'[j] : q < r
  <2>1. CASE j = 2
    BY <1>0, <1>2, <1>5, <2>1, Zenon
  <2>2. CASE i = 2 /\ j # 2
    <3>1. 1 < j /\ lCopies'[i] = lCopies[1] /\ lCopies'[j] = lCopies[j]
      BY <1>0, <1>2, <1>5, <2>2, Zenon
    <3>. QED
      BY <1>0, <3>1, Zenon DEF LFiles
  <2>3. CASE i # 2 /\ j # 2
    BY <1>2, <1>5, <2>3, Zenon DEF LFiles
  <2>. QED
    BY <2>1, <2>2, <2>3, Zenon
<1>7. \A i \in 1..lGhost.low : i \in L!Slots
  BY SlotNumbers, Zenon DEF LTypes, LGhosts
<1>8. ASSUME NEW x, x \in L!Retained' PROVE x \in L!Retained
  <2>1. x \in lActive \/ \E i \in 1..lGhost.low : x \in lCopies'[i]
    BY <1>8, Zenon DEF L!Retained
  <2>2. ASSUME NEW i \in 1..lGhost.low, x \in lCopies'[i] PROVE \E j \in 1..lGhost.low : x \in lCopies[j]
    <3>1. CASE i = 2
      BY <1>0, <1>2, <2>2, <3>1, Zenon
    <3>2. CASE i # 2
      BY <1>2, <1>7, <2>2, <3>2, Zenon
    <3>. QED
      BY <3>1, <3>2, Zenon
  <2>. QED
    BY <2>1, <2>2, Holds, Zenon
<1>9. ASSUME NEW x, x \in lActive \cup L!Copied PROVE x \in (lActive \cup L!Copied)'
  BY <1>2, <1>9, Zenon DEF L!Copied
<1>10. \A old \in L!Retained', new \in lGhost'.written : old < new => new \in (lActive \cup L!Copied)'
  BY <1>8, <1>9, SuffixStays, Zenon
<1>. QED
  BY <1>3, <1>5, <1>10, Zenon DEF LFiles

\* The first copy goes once the second holds the same.
LEMMA FilesDrop ==
    ASSUME LTypes, LFiles, 2 \in L!Slots, lCopies[2] = lCopies[1],
           lCopies' = [lCopies EXCEPT ![1] = {}], lActive' = lActive, lGhost' = lGhost
    PROVE  LFiles'
<1>0. 1 \in L!Slots /\ 2 # 1
  BY SlotNumbers
<1>2. lCopies'[1] = {} /\ \A i \in L!Slots \ {1} : lCopies'[i] = lCopies[i]
  BY <1>0, Zenon DEF LTypes
<1>3. \A i \in L!Slots : \A r \in lCopies'[i] : r < lGhost'.next /\ \A q \in lActive' : r < q
  BY <1>0, <1>2, Zenon DEF LFiles
<1>5. \A i, j \in L!Slots : i < j => lCopies'[i] = lCopies'[j] \/ \A r \in lCopies'[i], q \in lCopies'[j] : q < r
  BY <1>2, Zenon DEF LFiles
<1>7. \A i \in 1..lGhost.low : i \in L!Slots
  BY SlotNumbers, Zenon DEF LTypes, LGhosts
<1>8. ASSUME NEW x, x \in L!Retained' PROVE x \in L!Retained
  BY <1>0, <1>2, <1>7, <1>8, Zenon DEF L!Retained
<1>9. ASSUME NEW x, x \in lActive \cup L!Copied PROVE x \in (lActive \cup L!Copied)'
  BY <1>0, <1>2, <1>9, Zenon DEF L!Copied
<1>10. \A old \in L!Retained', new \in lGhost'.written : old < new => new \in (lActive \cup L!Copied)'
  BY <1>8, <1>9, SuffixStays, Zenon
<1>. QED
  BY <1>3, <1>5, <1>10, Zenon DEF LFiles

\* The active file becomes the first copy, which is free.
LEMMA FilesRotate ==
    ASSUME LTypes, LFiles, lCopies[1] = {}, lCopies' = [lCopies EXCEPT ![1] = lActive],
           lActive' = {}, lGhost' = lGhost
    PROVE  LFiles'
<1>0. 1 \in L!Slots /\ 1 \in 1..lGhost.low /\ \A i \in L!Slots : ~(i < 1)
  BY SlotNumbers DEF LTypes, LGhosts
<1>2. lCopies'[1] = lActive /\ \A i \in L!Slots \ {1} : lCopies'[i] = lCopies[i]
  BY <1>0, Zenon DEF LTypes
<1>3. \A i \in L!Slots : \A r \in lCopies'[i] : r < lGhost'.next
  BY <1>0, <1>2, Zenon DEF LFiles
<1>5. ASSUME NEW i \in L!Slots, NEW j \in L!Slots, i < j
      PROVE  lCopies'[i] = lCopies'[j] \/ \A r \in lCopies'[i], q \in lCopies'[j] : q < r
  BY <1>0, <1>2, <1>5, Zenon DEF LFiles
<1>7. \A i \in 1..lGhost.low : i \in L!Slots
  BY SlotNumbers, Zenon DEF LTypes, LGhosts
<1>8. ASSUME NEW x, x \in L!Retained' PROVE x \in L!Retained
  <2>1. \E i \in 1..lGhost.low : x \in lCopies'[i]
    BY <1>8, Zenon DEF L!Retained
  <2>2. ASSUME NEW i \in 1..lGhost.low, x \in lCopies'[i]
        PROVE  x \in lActive \/ \E j \in 1..lGhost.low : x \in lCopies[j]
    <3>1. CASE i = 1
      BY <1>2, <2>2, <3>1, Zenon
    <3>2. CASE i # 1
      BY <1>2, <1>7, <2>2, <3>2, Zenon
    <3>. QED
      BY <3>1, <3>2, Zenon
  <2>. QED
    BY <2>1, <2>2, Holds, Zenon
<1>9. ASSUME NEW x, x \in lActive \cup L!Copied PROVE x \in (lActive \cup L!Copied)'
  <2>1. x \in lActive \/ \E i \in L!Slots : x \in lCopies[i]
    BY <1>9, Holds, Zenon
  <2>2. ASSUME NEW i \in L!Slots, x \in lCopies[i] PROVE \E j \in L!Slots : x \in lCopies'[j]
    BY <1>2, <2>2, Zenon
  <2>3. x \in lActive => \E j \in L!Slots : x \in lCopies'[j]
    BY <1>0, <1>2, Zenon
  <2>. QED
    BY <2>1, <2>2, <2>3, Zenon DEF L!Copied
<1>10. \A old \in L!Retained', new \in lGhost'.written : old < new => new \in (lActive \cup L!Copied)'
  BY <1>8, <1>9, SuffixStays, Zenon
<1>11. \A r \in lActive' \cup lGhost'.written : r < lGhost'.next
  BY Zenon DEF LFiles
<1>. QED
  BY <1>3, <1>5, <1>10, <1>11, Zenon DEF LFiles

\* What each outcome of a record does to the ghost.
Follows(g) == /\ g \in LGhosts /\ g.written = lGhost.written /\ g.next >= lGhost.next
              /\ g.low = lGhost.low

LEMMA GhostMoves ==
    ASSUME LTypes
    PROVE  /\ Follows(L!Tried) /\ Follows(L!LostRecord) /\ Follows(L!Faulted) /\ Follows(lGhost)
           /\ L!Faulted.last = lGhost.last
           /\ L!Wrote \in LGhosts /\ L!Wrote.written = lGhost.written \cup {lGhost.next}
           /\ L!Wrote.next = lGhost.next + 1 /\ L!Wrote.last = lGhost.next /\ L!Wrote.low = lGhost.low
<1>1. /\ lGhost \in LGhosts /\ lGhost.next \in Nat /\ lGhost.next + 1 \in Nat /\ lGhost.faults + 1 \in Int
      /\ lGhost.next + 1 >= lGhost.next /\ lGhost.next >= lGhost.next
  BY DEF LTypes, LGhosts
<1>2. /\ L!Tried \in LGhosts /\ L!Tried.written = lGhost.written /\ L!Tried.next = lGhost.next + 1
      /\ L!Tried.last = lGhost.next /\ L!Tried.low = lGhost.low /\ L!Tried.faults = lGhost.faults
  BY <1>1, Zenon DEF L!Tried, LGhosts
<1>3. /\ L!Faulted \in LGhosts /\ L!Faulted.written = lGhost.written /\ L!Faulted.next = lGhost.next
      /\ L!Faulted.last = lGhost.last /\ L!Faulted.low = lGhost.low
  BY <1>1, Zenon DEF L!Faulted, LGhosts
<1>4. /\ L!LostRecord \in LGhosts /\ L!LostRecord.written = lGhost.written /\ L!LostRecord.next = lGhost.next + 1
      /\ L!LostRecord.low = lGhost.low
  BY <1>1, <1>2, Zenon DEF L!LostRecord, LGhosts
<1>5. /\ L!Wrote \in LGhosts /\ L!Wrote.written = lGhost.written \cup {lGhost.next}
      /\ L!Wrote.next = lGhost.next + 1 /\ L!Wrote.last = lGhost.next /\ L!Wrote.low = lGhost.low
  <2>1. lGhost.written \cup {lGhost.next} \in SUBSET Nat
    BY <1>1, Zenon DEF LGhosts
  <2>. QED
    BY <1>1, <1>2, <2>1, Zenon DEF L!Wrote, LGhosts
<1>. QED
  BY <1>1, <1>2, <1>3, <1>4, <1>5, Zenon DEF Follows

\* A step that leaves the files.
LEMMA FollowsKeeps ==
    ASSUME LTypes, LFiles, UNCHANGED <<lActive, lCopies>>, Follows(lGhost')
    PROVE  LFiles' /\ lGhost' \in LGhosts /\ lGhost'.low = lGhost.low
<1>1. lGhost'.low <= lGhost.low
  BY SlotNumbers DEF Follows, LTypes, LGhosts
<1>. QED
  BY <1>1, FilesStay, Zenon DEF Follows

\* Where a rotation or a record may be.
LEMMA Places ==
    /\ L!Idle \in LRots /\ L!Idle.pc = "idle" /\ L!Idle.index = 0
    /\ \A pc : L!At(pc).pc = pc
    /\ \A pc \in {"idle", "write"} \cup LBefore \cup LAfter : L!At(pc) \in LRots
BY DEF L!Idle, L!At, LRots

\* A failure is told: the logger is not healthy, and the record or rotation ends.
LEMMA FailureIsTold ==
    ASSUME LInv, NEW h \in {"open", "nil", "dead"}, L!reportSinkFailure(h), UNCHANGED <<lActive, lCopies>>,
           Follows(lGhost')
    PROVE  LInv'
<1> USE DEF LInv
<1>1. LFiles' /\ lGhost' \in LGhosts /\ lGhost'.low = lGhost.low
  BY FollowsKeeps, Zenon
<1>2. lRot' = L!Idle /\ lLog' = [lLog EXCEPT !.healthy = FALSE, !.handle = h]
  BY Zenon DEF L!reportSinkFailure
<1>3. lLog' \in LLogs /\ lLog'.max = lLog.max /\ lLog'.sink = lLog.sink /\ ~lLog'.healthy
  BY <1>2, Zenon DEF LTypes, LLogs
<1>4. LTypes'
  BY <1>1, <1>2, <1>3, Places, Zenon DEF LTypes
<1>5. lRot'.pc = "idle"
  BY <1>2, Places, Zenon
<1>6. LRotation'
  BY <1>1, <1>2, <1>3, <1>5, Zenon DEF LRotation
<1>7. LHealth'
  BY <1>3, <1>5, Zenon DEF LHealth, LBefore, LAfter
<1>. QED
  BY <1>1, <1>4, <1>6, <1>7, Zenon

LEMMA GivesUp ==
    ASSUME LInv, L!GiveUp
    PROVE  LInv'
<1>1. PICK h \in {"open", "nil"} : L!reportSinkFailure(h)
  BY Zenon DEF L!GiveUp
<1>2. UNCHANGED <<lActive, lCopies>> /\ lGhost' = L!Faulted
  BY Zenon DEF L!GiveUp
<1>3. Follows(lGhost')
  BY <1>2, GhostMoves, Zenon DEF LInv
<1>. QED
  BY <1>1, <1>2, <1>3, FailureIsTold, Zenon

\* A step of a rotation: the file operation, the next place, the sink the same.
LEMMA RotationGoesOn ==
    ASSUME LInv, lRot.pc \in LBefore, LFiles', UNCHANGED <<lActive, lGhost>>,
           lCopies' \in [L!Slots -> SUBSET Nat], lRot' \in LRots, lRot'.pc \in LBefore,
           lLog' = lLog,
           lRot'.pc = "prune" => lRot'.index > lLog.max,
           lRot'.pc = "shift" => lRot'.index < lLog.max /\ lCopies'[lRot'.index + 1] = {},
           lRot'.pc = "compress" => 2 <= lLog.max /\ lCopies'[2] = {},
           lRot'.pc = "drop" => 2 <= lLog.max /\ lCopies'[2] = lCopies'[1],
           lRot'.pc = "rename" => lCopies'[1] = {}
    PROVE  LInv'
<1> USE DEF LInv
<1>1. \A pc \in LBefore : pc \notin {"idle", "write"} /\ pc \notin LAfter
  BY Zenon DEF LBefore, LAfter
<1>2. LTypes'
  BY Zenon DEF LTypes
<1>3. LRotation'
  BY <1>1, Zenon DEF LRotation
<1>4. LHealth'
  BY <1>1, Zenon DEF LHealth
<1>. QED
  BY <1>2, <1>3, <1>4, Zenon

\* The numbers that a rotation works with.
LEMMA RotationNumbers ==
    ASSUME LInv, lRot.pc \in LBefore
    PROVE  /\ lLog.max \in L!Slots /\ lLog.max \in Nat \ {0} /\ lRot.index \in Nat
           /\ lGhost.low \in Nat \ {0} /\ lGhost.low <= lLog.max
           /\ lLog.sink = "file" /\ lLog.handle # "dead"
           /\ lLog \in LLogs /\ lRot \in LRots /\ LTypes /\ LFiles
<1>1. lRot.pc \notin {"idle", "write"}
  BY Zenon DEF LBefore
<1>. QED
  BY <1>1, SlotNumbers, Zenon DEF LInv, LTypes, LLogs, LRots, LGhosts, LRotation, LHealth

\* pruneBackups, removeOldest.
LEMMA CopiesGo ==
    ASSUME LInv, L!pruneBackups \/ L!removeOldest
    PROVE  LInv'
<1>1. lRot.pc \in LBefore
  BY Zenon DEF L!pruneBackups, L!removeOldest, LBefore
<1>2. /\ lLog.max \in L!Slots /\ lLog.max \in Nat \ {0} /\ lRot.index \in Nat
      /\ lGhost.low \in Nat \ {0} /\ lGhost.low <= lLog.max /\ lRot \in LRots /\ LTypes /\ LFiles
  BY <1>1, RotationNumbers, Zenon
<1>3. \A k \in L!Slots : [lCopies EXCEPT ![k] = {}] \in [L!Slots -> SUBSET Nat]
  BY <1>2, Zenon DEF LTypes
<1>4. CASE L!GiveUp
  BY <1>4, GivesUp, Zenon
<1>5. CASE L!pruneBackups /\ ~L!GiveUp
  <2>1. lRot.pc = "prune" /\ lRot.index > lLog.max
    BY <1>5, Zenon DEF L!pruneBackups, LInv, LRotation
  <2>2. CASE /\ lRot.index \in L!Slots /\ lCopies' = [lCopies EXCEPT ![lRot.index] = {}]
             /\ lRot' = [lRot EXCEPT !.index = lRot.index + 1] /\ UNCHANGED <<lActive, lLog, lGhost>>
    <3>1. lRot.index + 1 \in Nat /\ lRot.index + 1 > lLog.max /\ lGhost.low <= lRot.index
      BY <1>2, <2>1
    <3>2. lRot' \in LRots /\ lRot'.pc = "prune" /\ lRot'.index = lRot.index + 1
      BY <1>2, <2>1, <2>2, <3>1, Zenon DEF LRots
    <3>3. LFiles'
      BY <1>2, <2>2, <3>1, FilesShrink, Zenon
    <3>. QED
      BY <1>1, <1>2, <1>3, <2>2, <3>1, <3>2, <3>3, RotationGoesOn, Zenon DEF LBefore
  <2>3. CASE lRot' = [pc |-> "remove", index |-> lLog.max] /\ UNCHANGED <<lActive, lCopies, lLog, lGhost>>
    <3>1. lRot' \in LRots /\ lRot'.pc = "remove"
      BY <1>2, <2>3, Zenon DEF LRots, LBefore
    <3>2. LFiles'
      BY <1>2, <2>3, GhostMoves, FollowsKeeps, Zenon
    <3>. QED
      BY <1>1, <1>2, <2>3, <3>1, <3>2, RotationGoesOn, Zenon DEF LBefore, LTypes
  <2>. QED
    BY <1>5, <2>2, <2>3, Zenon DEF L!pruneBackups
<1>6. CASE L!removeOldest /\ ~L!GiveUp
  <2>1. /\ lCopies' = [lCopies EXCEPT ![lLog.max] = {}] /\ lRot' = [pc |-> "shift", index |-> lLog.max - 1]
        /\ UNCHANGED <<lActive, lLog, lGhost>>
    BY <1>6, Zenon DEF L!removeOldest
  <2>2. lLog.max - 1 \in Nat /\ lLog.max - 1 < lLog.max /\ (lLog.max - 1) + 1 = lLog.max
    BY <1>2
  <2>3. lRot' \in LRots /\ lRot'.pc = "shift" /\ lRot'.index = lLog.max - 1
    BY <2>1, <2>2, Zenon DEF LRots, LBefore
  <2>4. lCopies'[lLog.max] = {}
    BY <1>2, <2>1, Zenon DEF LTypes
  <2>5. LFiles'
    BY <1>2, <2>1, FilesShrink, Zenon
  <2>6. lRot'.index < lLog.max /\ lCopies'[lRot'.index + 1] = {}
    BY <2>2, <2>3, <2>4, Zenon
  <2>. QED
    BY <1>1, <1>2, <1>3, <2>1, <2>3, <2>5, <2>6, RotationGoesOn, Zenon DEF LBefore
<1>. QED
  BY <1>4, <1>5, <1>6, Zenon

\* shiftBackups.
LEMMA CopiesShift ==
    ASSUME LInv, L!shiftBackups
    PROVE  LInv'
<1>1. lRot.pc = "shift" /\ lRot.pc \in LBefore
  BY Zenon DEF L!shiftBackups, LBefore
<1>2. /\ lLog.max \in L!Slots /\ lLog.max \in Nat \ {0} /\ lRot.index \in Nat
      /\ lRot \in LRots /\ LTypes /\ LFiles
  BY <1>1, RotationNumbers, Zenon
<1>3. lRot.index < lLog.max /\ lCopies[lRot.index + 1] = {}
  BY <1>1, Zenon DEF LInv, LRotation
<1>4. CASE L!GiveUp
  BY <1>4, GivesUp, Zenon
<1>5. CASE /\ lRot.index >= 2 /\ lCopies' = L!Rename(lRot.index, lRot.index + 1)
           /\ lRot' = [lRot EXCEPT !.index = lRot.index - 1] /\ UNCHANGED <<lActive, lLog, lGhost>>
  <2>1. /\ lRot.index - 1 \in Nat /\ lRot.index - 1 < lLog.max /\ (lRot.index - 1) + 1 = lRot.index
        /\ lRot.index \in 1..lLog.max /\ lRot.index + 1 \in 1..lLog.max /\ lRot.index # lRot.index + 1
    BY <1>2, <1>3, <1>5
  <2>2. lRot.index \in L!Slots /\ lRot.index + 1 \in L!Slots
    BY <1>2, <2>1, SlotNumbers, Zenon
  <2>3. lRot' \in LRots /\ lRot'.pc = "shift" /\ lRot'.index = lRot.index - 1
    BY <1>1, <1>2, <1>5, <2>1, Zenon DEF LRots
  <2>4. lCopies' \in [L!Slots -> SUBSET Nat] /\ lCopies'[lRot.index] = {} /\ LFiles'
    <3>1. CASE lCopies[lRot.index] = {}
      <4>1. lCopies' = lCopies
        BY <1>5, <3>1, Zenon DEF L!Rename
      <4>. QED
        BY <1>2, <1>5, <3>1, <4>1, GhostMoves, FollowsKeeps, Zenon DEF LTypes
    <3>2. CASE lCopies[lRot.index] # {}
      <4>1. lCopies' = [lCopies EXCEPT ![lRot.index] = {}, ![lRot.index + 1] = lCopies[lRot.index]]
        BY <1>5, <3>2, Zenon DEF L!Rename
      <4>2. lCopies' \in [L!Slots -> SUBSET Nat] /\ lCopies'[lRot.index] = {}
        BY <1>2, <2>1, <2>2, <4>1, Zenon DEF LTypes
      <4>3. LFiles'
        BY <1>2, <1>3, <1>5, <2>2, <4>1, FilesShift, Zenon
      <4>. QED
        BY <4>2, <4>3, Zenon
    <3>. QED
      BY <3>1, <3>2, Zenon
  <2>5. lRot'.index < lLog.max /\ lCopies'[lRot'.index + 1] = {}
    BY <2>1, <2>3, <2>4, Zenon
  <2>. QED
    BY <1>1, <1>5, <2>3, <2>4, <2>5, RotationGoesOn, Zenon DEF LBefore
<1>6. CASE /\ lRot.index < 2 /\ UNCHANGED <<lActive, lCopies, lLog, lGhost>>
           /\ lRot' = L!At(IF lLog.max = 1 \/ lCopies[1] = {} THEN "rename" ELSE "compress")
  <2>1. LFiles' /\ lCopies' \in [L!Slots -> SUBSET Nat]
    BY <1>2, <1>6, GhostMoves, FollowsKeeps, Zenon DEF LTypes
  <2>2. lRot.index = 0 \/ lRot.index = 1
    BY <1>2, <1>6
  <2>3. (lRot.index = 0 => lRot.index + 1 = 1) /\ (lRot.index = 1 => lRot.index + 1 = 2)
    BY <1>2
  <2>4. lRot.index = 1 => lCopies[2] = {}
    BY <1>3, <2>3, Zenon
  <2>5. lLog.max = 1 => lRot.index = 0
    BY <1>2, <1>3
  <2>6. lLog.max # 1 => 2 <= lLog.max
    BY <1>2
  <2>7. lRot.index = 0 => lCopies[1] = {}
    BY <1>3, <2>3, Zenon
  <2>8. CASE lLog.max = 1 \/ lCopies[1] = {}
    <3>1. lRot' = L!At("rename") /\ lCopies[1] = {}
      BY <1>6, <2>5, <2>7, <2>8, Zenon
    <3>2. lRot' \in LRots /\ lRot'.pc = "rename" /\ "rename" \in LBefore
      BY <3>1, Places, Zenon DEF LBefore
    <3>. QED
      BY <1>1, <1>6, <2>1, <3>1, <3>2, RotationGoesOn, Zenon
  <2>9. CASE ~(lLog.max = 1 \/ lCopies[1] = {})
    <3>1. lRot' = L!At("compress") /\ 2 <= lLog.max /\ lCopies[2] = {}
      BY <1>6, <2>2, <2>4, <2>6, <2>7, <2>9, Zenon
    <3>2. lRot' \in LRots /\ lRot'.pc = "compress" /\ "compress" \in LBefore
      BY <3>1, Places, Zenon DEF LBefore
    <3>. QED
      BY <1>1, <1>6, <2>1, <3>1, <3>2, RotationGoesOn, Zenon
  <2>. QED
    BY <2>8, <2>9, Zenon
<1>. QED
  BY <1>4, <1>5, <1>6, Zenon DEF L!shiftBackups

\* compressLogBackup and the removal of what it compressed.
LEMMA CopiesCompress ==
    ASSUME LInv, L!compressLogBackup \/ L!dropCompressed
    PROVE  LInv'
<1>1. lRot.pc \in LBefore /\ lRot.pc \in {"compress", "drop"}
  BY Zenon DEF L!compressLogBackup, L!dropCompressed, LBefore
<1>2. lLog.max \in L!Slots /\ lLog.max \in Nat \ {0} /\ LTypes /\ LFiles
  BY <1>1, RotationNumbers, Zenon
<1>3. 2 <= lLog.max
  BY <1>1, Zenon DEF LInv, LRotation
<1>4. 2 \in 1..lLog.max /\ 2 # 1
  BY <1>2, <1>3
<1>5. 1 \in L!Slots /\ 2 \in L!Slots
  BY <1>2, <1>4, SlotNumbers, Zenon
<1>6. CASE L!GiveUp
  BY <1>6, GivesUp, Zenon
<1>7. CASE L!compressLogBackup /\ ~L!GiveUp
  <2>1. /\ lRot.pc = "compress" /\ lCopies' = [lCopies EXCEPT ![2] = lCopies[1]] /\ lRot' = L!At("drop")
        /\ UNCHANGED <<lActive, lLog, lGhost>>
    BY <1>7, Zenon DEF L!compressLogBackup
  <2>2. lRot' \in LRots /\ lRot'.pc = "drop" /\ "drop" \in LBefore
    BY <2>1, Places, Zenon DEF LBefore
  <2>3. lCopies' \in [L!Slots -> SUBSET Nat] /\ lCopies'[2] = lCopies'[1] /\ lCopies[2] = {}
    BY <1>2, <1>4, <1>5, <2>1, Zenon DEF LTypes, LInv, LRotation
  <2>4. LFiles'
    BY <1>2, <1>5, <2>1, <2>3, FilesCopy, Zenon
  <2>. QED
    BY <1>1, <1>3, <2>1, <2>2, <2>3, <2>4, RotationGoesOn, Zenon
<1>8. CASE L!dropCompressed /\ ~L!GiveUp
  <2>1. /\ lRot.pc = "drop" /\ lCopies' = [lCopies EXCEPT ![1] = {}] /\ lRot' = L!At("rename")
        /\ UNCHANGED <<lActive, lLog, lGhost>>
    BY <1>8, Zenon DEF L!dropCompressed
  <2>2. lRot' \in LRots /\ lRot'.pc = "rename" /\ "rename" \in LBefore
    BY <2>1, Places, Zenon DEF LBefore
  <2>3. lCopies' \in [L!Slots -> SUBSET Nat] /\ lCopies'[1] = {} /\ lCopies[2] = lCopies[1]
    BY <1>2, <1>5, <2>1, Zenon DEF LTypes, LInv, LRotation
  <2>4. LFiles'
    BY <1>2, <1>5, <2>1, <2>3, FilesDrop, Zenon
  <2>. QED
    BY <1>1, <2>1, <2>2, <2>3, <2>4, RotationGoesOn, Zenon
<1>. QED
  BY <1>6, <1>7, <1>8, Zenon

\* The rename of the active file.
LEMMA ActiveMoves ==
    ASSUME LInv, L!renameActive
    PROVE  LInv'
<1> USE DEF LInv
<1>1. lRot.pc = "rename" /\ lRot.pc \in LBefore
  BY Zenon DEF L!renameActive, LBefore
<1>2. lLog.sink = "file" /\ lLog.handle # "dead" /\ LTypes /\ LFiles /\ lCopies[1] = {} /\ lGhost.last \in lActive
  BY <1>1, RotationNumbers, Zenon DEF LRotation, LHealth
<1>3. CASE L!GiveUp
  BY <1>3, GivesUp, Zenon
<1>4. CASE ~L!GiveUp
  <2>1. /\ lCopies' = [lCopies EXCEPT ![1] = lActive] /\ lActive' = {} /\ lRot' = L!At("open")
        /\ UNCHANGED <<lLog, lGhost>>
    BY <1>4, Zenon DEF L!renameActive
  <2>2. lRot' \in LRots /\ lRot'.pc = "open"
    BY <2>1, Places, Zenon DEF LAfter
  <2>3. lCopies' \in [L!Slots -> SUBSET Nat] /\ lCopies'[1] = lActive /\ lActive' \in SUBSET Nat
    BY <1>2, <2>1, SlotNumbers, Zenon DEF LTypes
  <2>4. LFiles'
    BY <1>2, <2>1, FilesRotate, Zenon
  <2>5. LTypes'
    BY <2>1, <2>2, <2>3, Zenon DEF LTypes
  <2>6. LRotation'
    BY <1>1, <1>2, <2>1, <2>2, Zenon DEF LRotation
  <2>7. LHealth'
    BY <1>2, <2>1, <2>2, <2>3, Zenon DEF LHealth, LBefore
  <2>. QED
    BY <2>4, <2>5, <2>6, <2>7, Zenon
<1>. QED
  BY <1>3, <1>4, Zenon

\* The other steps of a record.
LEMMA Rotates ==
    ASSUME LInv, L!checkAndRotate \/ L!closeActive \/ L!openAfterRotation
    PROVE  LInv'
<1> USE DEF LInv
<1>0. UNCHANGED <<lActive, lCopies>> /\ L!Faulted \in LGhosts /\ Follows(L!Faulted) /\ Follows(lGhost)
  BY GhostMoves, Zenon DEF L!checkAndRotate, L!closeActive, L!openAfterRotation, Follows
<1>1. ASSUME NEW h \in {"open", "nil", "dead"}, L!reportSinkFailure(h), lGhost' = L!Faulted PROVE LInv'
  BY <1>0, <1>1, FailureIsTold, Zenon
<1>2. ASSUME lGhost' \in LGhosts, lGhost'.written = lGhost.written, lGhost'.next = lGhost.next,
             lGhost'.low = lGhost.low, lGhost'.last = lGhost.last, lLog' \in LLogs, lRot' \in LRots
      PROVE  LTypes' /\ LFiles'
  <2>1. Follows(lGhost')
    BY <1>0, <1>2, Zenon DEF Follows
  <2>. QED
    BY <1>0, <1>2, <2>1, FollowsKeeps, Zenon DEF LTypes
<1>3. CASE lRot.pc = "stat" /\ L!checkAndRotate
  <2>1. lLog.sink = "file" /\ lLog.handle # "dead" /\ lGhost.last \in lActive /\ lGhost \in LGhosts /\ lLog \in LLogs
    BY <1>3, Zenon DEF LRotation, LHealth, LTypes, LBefore
  <2>2. CASE lRot' = L!At("close") /\ lGhost' = [lGhost EXCEPT !.kept = L!Copied] /\ UNCHANGED lLog
    <3>0. lLog' = lLog
      BY <2>2, Zenon
    <3>1. L!Copied \subseteq Nat
      BY Zenon DEF L!Copied, LTypes
    <3>2. /\ lGhost' \in LGhosts /\ lGhost'.written = lGhost.written /\ lGhost'.next = lGhost.next
          /\ lGhost'.low = lGhost.low /\ lGhost'.last = lGhost.last
      BY <2>1, <2>2, <3>1, Zenon DEF LGhosts
    <3>3. lRot' \in LRots /\ lRot'.pc = "close"
      BY <2>2, Places, Zenon DEF LBefore
    <3>4. LTypes' /\ LFiles'
      BY <1>2, <2>1, <2>2, <3>2, <3>3, Zenon
    <3>5. LRotation'
      BY <2>1, <2>2, <3>2, <3>3, Zenon DEF LRotation
    <3>6. lLog'.handle = lLog.handle /\ lGhost'.last \in lActive'
      BY <1>0, <2>1, <3>0, <3>2, Zenon
    <3>7. LHealth'
      BY <2>1, <3>3, <3>6, Zenon DEF LHealth, LAfter
    <3>. QED
      BY <3>4, <3>5, <3>7, Zenon
  <2>3. CASE lLog' = [lLog EXCEPT !.healthy = TRUE] /\ lRot' = L!Idle /\ UNCHANGED lGhost
    <3>1. lLog' \in LLogs /\ lLog'.sink = lLog.sink /\ lLog'.max = lLog.max /\ lLog'.handle = lLog.handle
      BY <2>1, <2>3, Zenon DEF LLogs
    <3>2. lRot' \in LRots /\ lRot'.pc = "idle"
      BY <2>3, Places, Zenon
    <3>3. LTypes' /\ LFiles'
      BY <1>2, <2>1, <2>3, <3>1, <3>2, Zenon
    <3>4. LRotation'
      BY <2>1, <2>3, <3>1, <3>2, Zenon DEF LRotation
    <3>5. LHealth'
      BY <1>0, <2>1, <2>3, <3>1, <3>2, Zenon DEF LHealth, LAfter, LBefore
    <3>. QED
      BY <3>3, <3>4, <3>5, Zenon
  <2>. QED
    BY <1>1, <1>3, <2>2, <2>3, Zenon DEF L!checkAndRotate, L!recordSinkSuccess
<1>4. CASE lRot.pc = "close" /\ L!closeActive
  <2>1. lLog.sink = "file" /\ lGhost.last \in lActive /\ lGhost \in LGhosts /\ lLog \in LLogs /\ lGhost.low <= lLog.max
    BY <1>4, Zenon DEF LRotation, LHealth, LTypes, LBefore
  <2>2. CASE /\ lLog' = [lLog EXCEPT !.handle = "nil"] /\ lRot' = [pc |-> "prune", index |-> lLog.max + 1]
             /\ UNCHANGED lGhost
    <3>1. lLog' \in LLogs /\ lLog'.sink = lLog.sink /\ lLog'.max = lLog.max /\ lLog'.handle = "nil"
      BY <2>1, <2>2, Zenon DEF LLogs
    <3>2. lLog.max \in Nat
      BY <2>1, SlotNumbers, Zenon DEF LLogs
    <3>3. lLog.max + 1 \in Nat /\ lLog.max + 1 > lLog.max
      BY <3>2
    <3>4. lRot' \in LRots /\ lRot'.pc = "prune" /\ lRot'.index = lLog.max + 1
      BY <2>2, <3>3, Zenon DEF LRots, LBefore
    <3>5. LTypes' /\ LFiles'
      BY <1>2, <2>1, <2>2, <3>1, <3>4, Zenon
    <3>6. LRotation'
      BY <2>1, <2>2, <3>1, <3>3, <3>4, Zenon DEF LRotation
    <3>7. LHealth'
      BY <1>0, <2>1, <2>2, <3>1, <3>4, Zenon DEF LHealth, LAfter
    <3>. QED
      BY <3>5, <3>6, <3>7, Zenon
  <2>. QED
    BY <1>1, <1>4, <2>2, Zenon DEF L!closeActive
<1>5. CASE lRot.pc = "open" /\ L!openAfterRotation
  <2>1. /\ lLog.sink = "file" /\ lGhost.last \in lCopies[1] /\ lGhost \in LGhosts /\ lLog \in LLogs
        /\ lGhost.low <= lLog.max
    BY <1>5, Zenon DEF LRotation, LHealth, LTypes, LAfter
  <2>2. CASE lLog' = [lLog EXCEPT !.handle = "open"] /\ lRot' = L!At("notice") /\ UNCHANGED lGhost
    <3>1. lLog' \in LLogs /\ lLog'.sink = lLog.sink /\ lLog'.max = lLog.max /\ lLog'.handle = "open"
      BY <2>1, <2>2, Zenon DEF LLogs
    <3>2. lRot' \in LRots /\ lRot'.pc = "notice"
      BY <2>2, Places, Zenon DEF LAfter
    <3>3. LTypes' /\ LFiles'
      BY <1>2, <2>1, <2>2, <3>1, <3>2, Zenon
    <3>4. LRotation'
      BY <2>1, <2>2, <3>1, <3>2, Zenon DEF LRotation
    <3>5. LHealth'
      BY <1>0, <2>1, <2>2, <3>1, <3>2, Zenon DEF LHealth, LBefore
    <3>. QED
      BY <3>3, <3>4, <3>5, Zenon
  <2>. QED
    BY <1>1, <1>5, <2>2, Zenon DEF L!openAfterRotation
<1>. QED
  BY <1>3, <1>4, <1>5, Zenon DEF L!checkAndRotate, L!closeActive, L!openAfterRotation

\* A record that is written: the file has it, and the logger is idle or looks at
\* the size of the file.
LEMMA RecordIsWritten ==
    ASSUME LInv, lLog.sink = "file", lLog.handle # "dead", lActive' = L!Append, lGhost' = L!Wrote,
           lCopies' = lCopies,
           \/ lRot' = L!At("stat") /\ lLog' = lLog
           \/ lRot' = L!Idle /\ lLog' = [lLog EXCEPT !.healthy = TRUE]
    PROVE  LInv'
<1> USE DEF LInv
<1>1. /\ lGhost' \in LGhosts /\ lGhost'.written = lGhost.written \cup {lGhost.next}
      /\ lGhost'.next = lGhost.next + 1 /\ lGhost'.last = lGhost.next /\ lGhost'.low = lGhost.low
  BY GhostMoves, Zenon
<1>2. lActive' = lActive \cup {lGhost.next} /\ lGhost'.last \in lActive' /\ lGhost.next \in Nat
  BY <1>1, Zenon DEF L!Append, LTypes, LGhosts
<1>3. LFiles'
  BY <1>1, <1>2, FilesGrow, Zenon
<1>4. lLog' \in LLogs /\ lLog'.sink = lLog.sink /\ lLog'.max = lLog.max /\ lLog'.handle = lLog.handle
  BY Zenon DEF LTypes, LLogs
<1>5. lRot' \in LRots /\ lRot'.pc \in {"idle", "stat"} /\ (lRot'.pc = "idle" => lRot' = L!Idle)
  BY Places, Zenon DEF LBefore
<1>6. LTypes'
  BY <1>1, <1>2, <1>4, <1>5, Zenon DEF LTypes
<1>7. LRotation'
  BY <1>1, <1>4, <1>5, Zenon DEF LRotation
<1>8. LHealth'
  BY <1>2, <1>4, <1>5, Zenon DEF LHealth, LAfter
<1>. QED
  BY <1>3, <1>6, <1>7, <1>8, Zenon

\* A step that leaves the files and the file logger's limit, and ends idle or at the
\* write, where nothing is said of the last record.
LEMMA NothingIsWritten ==
    ASSUME LInv, UNCHANGED <<lActive, lCopies, lGhost>>, lLog' \in LLogs,
           lLog'.sink = "file" => lLog.sink = "file" /\ lLog'.max = lLog.max,
           \/ lRot' = L!At("write")
           \/ lRot' = L!Idle /\ (lLog'.sink = "file" => lRot = L!Idle /\ lLog'.healthy = lLog.healthy
                                                         /\ lLog'.handle = lLog.handle)
    PROVE  LInv'
<1> USE DEF LInv
<1>1. LFiles'
  BY GhostMoves, FollowsKeeps, Zenon
<1>2. lRot' \in LRots /\ lRot'.pc \in {"idle", "write"} /\ (lRot'.pc = "idle" => lRot' = L!Idle)
  BY Places, Zenon
<1>3. LTypes'
  BY <1>2, Zenon DEF LTypes
<1>4. LRotation'
  BY <1>2, Zenon DEF LRotation
<1>5. LHealth'
  <2>1. CASE lRot'.pc = "write"
    BY <2>1, Zenon DEF LHealth, LBefore, LAfter
  <2>2. CASE lRot'.pc = "idle" /\ lLog'.sink # "file"
    BY <2>2, Zenon DEF LHealth, LBefore, LAfter
  <2>3. CASE lRot'.pc = "idle" /\ lLog'.sink = "file"
    <3>1. L!At("write").pc = "write"
      BY Places, Zenon
    <3>2. lRot = L!Idle /\ lLog'.healthy = lLog.healthy /\ lLog'.handle = lLog.handle /\ lLog.sink = "file"
      BY <2>3, <3>1, Zenon
    <3>3. lRot.pc = "idle"
      BY <3>2, Places, Zenon
    <3>4. L!Copied' = L!Copied
      BY Zenon DEF L!Copied
    <3>. QED
      BY <2>3, <3>2, <3>3, <3>4, Zenon DEF LHealth, LBefore, LAfter
  <2>. QED
    BY <1>2, <2>1, <2>2, <2>3, Zenon
<1>. QED
  BY <1>1, <1>3, <1>4, <1>5, Zenon

LEMMA LogTypes ==
    ASSUME LInv
    PROVE  /\ lLog \in LLogs /\ lGhost \in LGhosts
           /\ \A h \in {"open", "nil", "dead"} : /\ [lLog EXCEPT !.handle = h] \in LLogs
                                                 /\ [lLog EXCEPT !.handle = h].sink = lLog.sink
                                                 /\ [lLog EXCEPT !.handle = h].max = lLog.max
           /\ \A s \in {"none", "stderr", "syslog"} : L!OtherLogger(s) \in LLogs /\ L!OtherLogger(s).sink = s
<1>1. lLog \in LLogs /\ lGhost \in LGhosts
  BY Zenon DEF LInv, LTypes
<1>2. ASSUME NEW s \in {"none", "stderr", "syslog"} PROVE L!OtherLogger(s) \in LLogs /\ L!OtherLogger(s).sink = s
  BY SlotNumbers, Zenon DEF L!OtherLogger, LLogs
<1>. QED
  BY <1>1, <1>2, Zenon DEF LLogs

LEMMA RecordEnds ==
    ASSUME LInv, L!writePrimaryRecord \/ L!rotationNotice
    PROVE  LInv'
<1>1. CASE L!writePrimaryRecord /\ lLog.sink = "file"
  BY <1>1, RecordIsWritten, Zenon DEF L!writePrimaryRecord, L!recordSinkSuccess
<1>2. CASE L!writePrimaryRecord /\ lLog.sink # "file"
  <2>1. /\ lLog' = [lLog EXCEPT !.healthy = TRUE] /\ lRot' = L!Idle /\ UNCHANGED <<lActive, lCopies, lGhost>>
    BY <1>2, Zenon DEF L!writePrimaryRecord, L!recordSinkSuccess
  <2>2. lLog' \in LLogs /\ lLog'.sink = lLog.sink
    BY <2>1, LogTypes, Zenon DEF LLogs
  <2>. QED
    BY <1>2, <2>1, <2>2, NothingIsWritten, Zenon
<1>3. CASE L!rotationNotice
  <2>1. lRot.pc = "notice"
    BY <1>3, Zenon DEF L!rotationNotice
  <2>2. lLog.sink = "file" /\ lLog.handle # "dead" /\ lGhost.last \in lCopies[1] /\ LTypes /\ LFiles
    BY <2>1, Zenon DEF LInv, LRotation, LHealth, LAfter
  <2>3. CASE lActive' = L!Append /\ lGhost' = L!Wrote /\ L!recordSinkSuccess /\ lRot' = L!Idle
    BY <1>3, <2>2, <2>3, RecordIsWritten, Zenon DEF L!rotationNotice, L!recordSinkSuccess
  <2>4. CASE UNCHANGED <<lActive, lGhost>> /\ L!recordSinkSuccess /\ lRot' = L!Idle
    <3>1. lCopies' = lCopies /\ lLog' = [lLog EXCEPT !.healthy = TRUE]
      BY <1>3, <2>4, Zenon DEF L!rotationNotice, L!recordSinkSuccess
    <3>2. lLog' \in LLogs /\ lLog'.sink = lLog.sink /\ lLog'.max = lLog.max /\ lLog'.handle = lLog.handle
      BY <2>2, <3>1, Zenon DEF LTypes, LLogs
    <3>3. lRot' \in LRots /\ lRot'.pc = "idle"
      BY <2>4, Places, Zenon
    <3>4. LFiles'
      BY <2>2, <2>4, <3>1, GhostMoves, FollowsKeeps, Zenon
    <3>5. LTypes'
      BY <2>2, <2>4, <3>1, <3>2, <3>3, Zenon DEF LTypes
    <3>6. LRotation'
      BY <2>4, <3>2, <3>3, Zenon DEF LRotation, LInv
    <3>7. lGhost'.last \in L!Copied'
      BY <2>2, <2>4, <3>1, SlotNumbers, Zenon DEF L!Copied
    <3>8. LHealth'
      BY <2>2, <3>2, <3>3, <3>7, Zenon DEF LHealth, LBefore, LAfter
    <3>. QED
      BY <3>4, <3>5, <3>6, <3>8, Zenon DEF LInv
  <2>5. CASE lGhost' = L!Faulted /\ L!reportSinkFailure("nil") /\ lActive' = lActive
    BY <1>3, <2>2, <2>5, GhostMoves, FailureIsTold, Zenon DEF L!rotationNotice
  <2>. QED
    BY <1>3, <2>3, <2>4, <2>5, Zenon DEF L!rotationNotice
<1>. QED
  BY <1>1, <1>2, <1>3, Zenon

LEMMA RecordStarts ==
    ASSUME LInv, L!logInternal \/ L!writeFails
    PROVE  LInv'
<1>0. Follows(L!Tried) /\ Follows(L!LostRecord) /\ lLog.handle \in {"open", "nil", "dead"}
  BY GhostMoves, LogTypes, Zenon DEF LInv, LLogs
<1>1. CASE L!writeFails
  <2>1. UNCHANGED <<lActive, lCopies>> /\ Follows(lGhost')
    BY <1>0, <1>1, Zenon DEF L!writeFails
  <2>2. PICK h \in {"open", "nil", "dead"} : L!reportSinkFailure(h)
    <3>1. CASE lLog.handle = "dead"
      BY <1>1, <3>1, Zenon DEF L!writeFails
    <3>2. CASE lLog.handle # "dead"
      <4>1. PICK h \in IF lLog.sink = "file" THEN {"nil", "dead"} ELSE {lLog.handle} : L!reportSinkFailure(h)
        BY <1>1, <3>2, Zenon DEF L!writeFails
      <4>2. h \in {"open", "nil", "dead"}
        BY <1>0, Zenon
      <4>. QED
        BY <4>1, <4>2, Zenon
    <3>. QED
      BY <3>1, <3>2, Zenon
  <2>. QED
    BY <2>1, <2>2, FailureIsTold, Zenon
<1>2. CASE L!logInternal
  <2>1. UNCHANGED <<lActive, lCopies>>
    BY <1>2, Zenon DEF L!logInternal
  <2>2. CASE lGhost' = L!LostRecord /\ L!reportSinkFailure("nil")
    BY <1>0, <2>1, <2>2, FailureIsTold, Zenon
  <2>3. CASE lRot' = L!At("write") /\ UNCHANGED lGhost /\ (lLog' = lLog \/ lLog' = [lLog EXCEPT !.handle = "open"])
    BY <2>1, <2>3, LogTypes, NothingIsWritten, Zenon
  <2>. QED
    BY <1>2, <2>2, <2>3, Zenon DEF L!logInternal
<1>. QED
  BY <1>1, <1>2, Zenon

\* The end of the process, a change of the level, and the clock.
LEMMA LoggerStands ==
    ASSUME LInv, L!SetLevel \/ L!Close \/ L!Tick \/ L!Crash \/ UNCHANGED <<lActive, lCopies, lLog, lRot, lDue, lGhost>>
    PROVE  LInv'
<1>1. CASE UNCHANGED <<lActive, lCopies, lLog, lRot, lGhost>>
  <2>1. L!Copied' = L!Copied /\ L!Retained' = L!Retained
    BY <1>1, Zenon DEF L!Copied, L!Retained
  <2>2. LTypes'
    BY <1>1, Zenon DEF LInv, LTypes
  <2>3. LFiles'
    BY <1>1, <2>1, Zenon DEF LInv, LFiles
  <2>4. LRotation'
    BY <1>1, Zenon DEF LInv, LRotation
  <2>5. LHealth'
    BY <1>1, <2>1, Zenon DEF LInv, LHealth
  <2>. QED
    BY <2>2, <2>3, <2>4, <2>5, Zenon DEF LInv
<1>2. CASE L!Crash
  BY <1>2, LogTypes, NothingIsWritten, Zenon DEF L!Crash
<1>3. CASE L!Close
  <2>1. lRot = L!Idle /\ lRot' = L!Idle /\ UNCHANGED <<lActive, lCopies>>
    BY <1>3, Zenon DEF L!Close
  <2>2. CASE lLog' = L!OtherLogger("none") /\ UNCHANGED lGhost
    BY <2>1, <2>2, LogTypes, NothingIsWritten, Zenon
  <2>3. CASE lLog' = [L!OtherLogger("none") EXCEPT !.healthy = FALSE] /\ lGhost' = L!Faulted
    <3>1. lLog' \in LLogs /\ lLog'.sink = "none"
      BY <2>3, LogTypes, Zenon DEF LLogs
    <3>2. LFiles' /\ lGhost' \in LGhosts
      BY <2>1, <2>3, GhostMoves, FollowsKeeps, Zenon DEF LInv
    <3>3. lRot'.pc = "idle" /\ lRot' \in LRots
      BY <2>1, Places, Zenon
    <3>. QED
      BY <2>1, <3>1, <3>2, <3>3, Zenon DEF LInv, LTypes, LRotation, LHealth, LBefore, LAfter
  <2>. QED
    BY <1>3, <2>2, <2>3, Zenon DEF L!Close
<1>4. CASE L!SetLevel
  <2>1. PICK l \in {"INFO", "ERROR"} : lLog' = [lLog EXCEPT !.level = l]
    BY <1>4, Zenon DEF L!SetLevel
  <2>2. /\ lLog' \in LLogs /\ lLog'.sink = lLog.sink /\ lLog'.max = lLog.max
        /\ lLog'.handle = lLog.handle /\ lLog'.healthy = lLog.healthy
    BY <2>1, Zenon DEF LInv, LTypes, LLogs
  <2>3. UNCHANGED <<lActive, lCopies, lRot, lGhost>> /\ L!Copied' = L!Copied /\ L!Retained' = L!Retained
    BY <1>4, Zenon DEF L!SetLevel, L!Copied, L!Retained
  <2>4. LFiles'
    BY <2>3, GhostMoves, FollowsKeeps, Zenon DEF LInv
  <2>5. LTypes'
    BY <2>2, <2>3, Zenon DEF LInv, LTypes
  <2>6. LRotation'
    BY <2>2, <2>3, Zenon DEF LInv, LRotation
  <2>7. LHealth'
    BY <2>2, <2>3, Zenon DEF LInv, LHealth
  <2>. QED
    BY <2>4, <2>5, <2>6, <2>7, Zenon DEF LInv
<1>. QED
  BY <1>1, <1>2, <1>3, <1>4, Zenon DEF L!Tick

\* A process starts.
LEMMA LoggerStarts ==
    ASSUME LInv, L!InitLogger
    PROVE  LInv'
<1>0. lLog.sink = "none" /\ UNCHANGED <<lActive, lCopies, lRot>> /\ lGhost \in LGhosts /\ lRot \in LRots
  BY LogTypes, Zenon DEF L!InitLogger, LInv, LTypes
<1>1. lRot.pc \in {"idle", "write"} /\ (lRot.pc = "idle" => lRot = L!Idle)
  BY <1>0, Zenon DEF LInv, LRotation
<1>2. lGhost.starts + 1 \in Int /\ lGhost.faults + 1 \in Int /\ 0 \in Nat
  BY <1>0 DEF LGhosts
<1>3. lGhost.low \in Nat /\ lGhost.low \in L!Slots /\ lGhost.next \in Nat
  BY <1>0, SlotNumbers, Zenon DEF LGhosts
<1>4. /\ lLog' \in LLogs /\ lGhost' \in LGhosts /\ lGhost'.written = lGhost.written /\ lGhost'.next = lGhost.next
      /\ lGhost'.low <= lGhost.low /\ lGhost'.last = 0
      /\ lLog'.sink = "file" => lLog'.handle = "open" /\ lGhost'.low <= lLog'.max
  <2>1. CASE L!newFileLogger
    <3>1. PICK max \in lLimits : /\ lLog' = L!FileLogger(max)
                                 /\ lGhost' = [lGhost EXCEPT !.starts = lGhost.starts + 1, !.last = 0,
                                                             !.low = L!Min2(lGhost.low, max)]
      BY <2>1, Zenon DEF L!newFileLogger
    <3>2. max \in L!Slots /\ max \in Nat
      BY SlotNumbers, Zenon
    <3>3. L!Min2(lGhost.low, max) \in {lGhost.low, max}
      BY Zenon DEF L!Min2
    <3>4. L!Min2(lGhost.low, max) <= lGhost.low /\ L!Min2(lGhost.low, max) <= max
      BY <1>3, <3>2 DEF L!Min2
    <3>5. L!Min2(lGhost.low, max) \in L!Slots
      BY <1>3, <3>2, <3>3, Zenon
    <3>6. lLog' \in LLogs /\ lLog'.handle = "open" /\ lLog'.max = max
      BY <3>1, <3>2, Zenon DEF L!FileLogger, LLogs
    <3>7. /\ lGhost' \in LGhosts /\ lGhost'.written = lGhost.written /\ lGhost'.next = lGhost.next
          /\ lGhost'.low = L!Min2(lGhost.low, max) /\ lGhost'.last = 0
      BY <1>0, <1>2, <3>1, <3>5, Zenon DEF LGhosts
    <3>. QED
      BY <3>4, <3>6, <3>7, Zenon
  <2>2. CASE L!createStderrLogger \/ L!syslogLogger
    <3>1. lLog' \in LLogs /\ lLog'.sink # "file"
      BY <2>2, LogTypes, Zenon DEF L!createStderrLogger, L!syslogLogger
    <3>2. lGhost.low <= lGhost.low
      BY <1>3
    <3>3. CASE lGhost' = [lGhost EXCEPT !.starts = lGhost.starts + 1, !.last = 0]
      <4>1. /\ lGhost' \in LGhosts /\ lGhost'.written = lGhost.written /\ lGhost'.next = lGhost.next
            /\ lGhost'.low = lGhost.low /\ lGhost'.last = 0
        BY <1>0, <1>2, <3>3, Zenon DEF LGhosts
      <4>. QED
        BY <3>1, <3>2, <4>1, Zenon
    <3>4. CASE lGhost' = [L!Faulted EXCEPT !.starts = L!Faulted.starts + 1, !.last = 0]
      <4>1. L!Faulted.starts = lGhost.starts
        BY <1>0, Zenon DEF L!Faulted, LGhosts
      <4>2. /\ L!Faulted \in LGhosts /\ L!Faulted.written = lGhost.written /\ L!Faulted.next = lGhost.next
            /\ L!Faulted.low = lGhost.low
        BY <1>0, <1>2, Zenon DEF L!Faulted, LGhosts
      <4>3. /\ lGhost' \in LGhosts /\ lGhost'.written = lGhost.written /\ lGhost'.next = lGhost.next
            /\ lGhost'.low = lGhost.low /\ lGhost'.last = 0
        BY <1>2, <3>4, <4>1, <4>2, Zenon DEF LGhosts
      <4>. QED
        BY <3>1, <3>2, <4>3, Zenon
    <3>. QED
      BY <2>2, <3>3, <3>4, Zenon DEF L!createStderrLogger, L!syslogLogger
  <2>. QED
    BY <2>1, <2>2, Zenon DEF L!InitLogger
<1>5. lGhost'.next >= lGhost.next
  BY <1>3, <1>4
<1>6. LFiles'
  BY <1>0, <1>4, <1>5, FilesStay, Zenon DEF LInv
<1>7. LTypes'
  BY <1>0, <1>4, Zenon DEF LInv, LTypes
<1>8. LRotation'
  BY <1>0, <1>1, <1>4, Zenon DEF LRotation
<1>9. LHealth'
  BY <1>0, <1>1, <1>4, Zenon DEF LHealth, LBefore, LAfter
<1>. QED
  BY <1>6, <1>7, <1>8, <1>9, Zenon DEF LInv

LEMMA LoggerBegins == L!Init => LInv
<1> SUFFICES ASSUME L!Init PROVE LInv
  OBVIOUS
<1>1. 0 \in Nat /\ 1 \in Nat /\ 0 \in Int
  OBVIOUS
<1>2. L!Largest \in L!Slots
  BY SlotNumbers
<1>3. /\ lActive = {} /\ lCopies = [i \in L!Slots |-> {}] /\ lRot = L!Idle /\ lLog = L!OtherLogger("none")
      /\ lGhost = [written |-> {}, next |-> 1, last |-> 0, low |-> L!Largest, kept |-> {}, faults |-> 0, starts |-> 0]
  BY Zenon DEF L!Init
<1>4. lLog \in LLogs /\ lLog.sink = "none"
  BY <1>3, SlotNumbers, Zenon DEF L!OtherLogger, LLogs
<1>5. lGhost \in LGhosts /\ lGhost.written = {}
  BY <1>1, <1>2, <1>3, Zenon DEF LGhosts
<1>6. lRot \in LRots /\ lRot.pc = "idle"
  BY <1>3, Places, Zenon
<1>7. lCopies \in [L!Slots -> SUBSET Nat] /\ \A i \in L!Slots : lCopies[i] = {}
  BY <1>3, Zenon
<1>8. LTypes
  BY <1>3, <1>4, <1>5, <1>6, <1>7, Zenon DEF LTypes
<1>9. LFiles
  BY <1>3, <1>5, <1>7, Zenon DEF LFiles
<1>10. LRotation
  BY <1>3, <1>4, <1>6, Zenon DEF LRotation
<1>11. LHealth
  BY <1>4, <1>6, Zenon DEF LHealth, LBefore, LAfter
<1>. QED
  BY <1>8, <1>9, <1>10, <1>11, Zenon DEF LInv

\* The newest record of a file.
LEMMA NewestRecord ==
    ASSUME NEW S, S \subseteq Nat, S # {}, NEW n \in Nat, \A r \in S : r < n
    PROVE  L!Newest(S) \in S
<1> DEFINE T == {n - r : r \in S}
<1>1. T \subseteq Nat
  OBVIOUS
<1>2. T # {}
  BY Zenon
<1>. HIDE DEF T
<1>3. PICK x \in T : \A y \in T : x <= y
  BY <1>1, <1>2, LeastNatural, Zenon
<1>4. PICK r \in S : x = n - r
  BY <1>3, Zenon DEF T
<1>5. ASSUME NEW q \in S PROVE q <= r
  <2>1. n - q \in T
    BY Zenon DEF T
  <2>2. n - r <= n - q
    BY <1>3, <1>4, <2>1, Zenon
  <2>3. q \in Nat /\ r \in Nat
    BY Zenon
  <2>. QED
    BY <2>2, <2>3
<1>. QED
  BY <1>5, Zenon DEF L!Newest

LEMMA FilesInOrder ==
    ASSUME LInv
    PROVE  LogIsASuffix
<1>1. /\ lGhost.next \in Nat /\ LFiles /\ lActive \subseteq Nat
      /\ \A i \in L!Slots : lCopies[i] \subseteq Nat /\ \A r \in lCopies[i] : r < lGhost.next
  BY Zenon DEF LInv, LTypes, LGhosts, LFiles
<1>2. \A i \in L!Slots : lCopies[i] # {} => L!Newest(lCopies[i]) \in lCopies[i]
  BY <1>1, NewestRecord, Zenon
<1>3. \A i \in L!Slots : lCopies[i] # {} => L!Newest(lCopies[i]) \in Nat
  BY <1>1, <1>2, Zenon
<1>4. ASSUME NEW i \in L!Slots, NEW j \in L!Slots, i < j, lCopies[i] # {}, lCopies[j] # {}
      PROVE  L!Newest(lCopies[j]) <= L!Newest(lCopies[i])
  <2> DEFINE a == L!Newest(lCopies[i])
             b == L!Newest(lCopies[j])
  <2>1. a \in Nat /\ b \in Nat
    BY <1>3, <1>4, Zenon
  <2>2. a = b \/ b < a
    BY <1>1, <1>2, <1>4, Zenon DEF LFiles
  <2>. HIDE DEF a, b
  <2>3. b <= a
    BY <2>1, <2>2
  <2>. QED
    BY <2>3, Zenon DEF a, b
<1>5. L!LogIsASuffix
  BY <1>1, <1>2, <1>4, Zenon DEF L!LogIsASuffix, LFiles
<1>6. L!HealthTruthful
  BY Places, Zenon DEF L!HealthTruthful, LInv, LHealth
<1>. QED
  BY <1>5, <1>6, Zenon DEF LogIsASuffix

\* Whatever operation of a rotation failed and wherever the process was killed, the
\* files are the end of the log, in order, and a healthy logger has its last record
\* on disk.
THEOREM LoggerKeepsSuffix == L!Spec => []LogIsASuffix
<1>1. ASSUME LInv, [L!Next]_(L!vars) PROVE LInv'
  BY <1>1, CopiesGo, CopiesShift, CopiesCompress, ActiveMoves, Rotates, RecordEnds, RecordStarts, LoggerStands,
     LoggerStarts, Zenon DEF L!Next, L!vars
<1>. QED
  BY <1>1, LoggerBegins, FilesInOrder, PTL DEF L!Spec
=============================================================================
