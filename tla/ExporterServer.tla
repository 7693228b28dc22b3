--------------------------- MODULE ExporterServer ---------------------------
(***************************************************************************)
(* The life of the Prometheus HTTP server (metrics/prometheus.go, Start,    *)
(* Stop and the goroutine that watches a run): calls of Start and Stop from *)
(* several goroutines, the server failing by itself, and the daemon's       *)
(* context ending.                                                          *)
(***************************************************************************)
EXTENDS Integers

CONSTANTS Callers, MaxRuns   \* bound: attempts to start

VARIABLES exp,      \* isRunning, starting, the attempt (startDone) and the run
          runs,     \* per attempt: the stop channel, the server and its watcher
          caller,   \* per caller: where it is and the attempt or run it waits for
          ctx       \* the context is done

vars == <<exp, runs, caller, ctx>>

Attempts == 1..MaxRuns
Idle == [pc |-> "idle", on |-> 0]
NoRun == [stop |-> FALSE, serve |-> "none", watch |-> "none", err |-> FALSE]

Init == /\ exp = [running |-> FALSE, starting |-> FALSE, attempt |-> 0, run |-> 0]
        /\ runs = [r \in Attempts |-> NoRun]
        /\ caller = [c \in Callers |-> Idle]
        /\ ctx = FALSE

\* Start is refused while the exporter runs or starts; it forgets the last run.
Start(c) == /\ caller[c] = Idle /\ exp.attempt < MaxRuns
            /\ ~exp.running /\ ~exp.starting
            /\ exp' = [exp EXCEPT !.starting = TRUE, !.attempt = @ + 1, !.run = 0]
            /\ caller' = [caller EXCEPT ![c] = [pc |-> "listen", on |-> exp.attempt + 1]]
            /\ UNCHANGED <<runs, ctx>>

\* The listener is bound and the server and its watcher run, or the bind (or the
\* TLS configuration) fails.
Listen(c) == LET r == caller[c].on IN
    /\ caller[c].pc = "listen"
    /\ \/ /\ runs' = [runs EXCEPT ![r] = [NoRun EXCEPT !.serve = "serving", !.watch = "select"]]
          /\ exp' = [exp EXCEPT !.run = r, !.running = TRUE]
       \/ UNCHANGED <<runs, exp>>
    /\ caller' = [caller EXCEPT ![c].pc = "finish"]
    /\ UNCHANGED ctx

\* Mutant: only a successful Start ends the attempt.
SuccessFinishStartAttempt(c) ==
    /\ caller[c].pc = "finish"
    /\ exp' = [exp EXCEPT !.starting = exp.run = 0]
    /\ caller' = [caller EXCEPT ![c] = Idle]
    /\ UNCHANGED <<runs, ctx>>

\* finishStartAttempt, deferred: startDone is closed whatever the outcome.
finishStartAttempt(c) ==
    /\ caller[c].pc = "finish"
    /\ exp' = [exp EXCEPT !.starting = FALSE]
    /\ caller' = [caller EXCEPT ![c] = Idle]
    /\ UNCHANGED <<runs, ctx>>

\* Stop reads the state: it waits for a Start in progress, returns when there is no
\* run, and otherwise stops the run and waits for its watcher.
StopReads(c) ==
    \/ /\ exp.starting
       /\ caller' = [caller EXCEPT ![c] = [pc |-> "starting", on |-> exp.attempt]]
       /\ UNCHANGED runs
    \/ /\ ~exp.starting /\ exp.run = 0
       /\ caller' = [caller EXCEPT ![c] = Idle]
       /\ UNCHANGED runs
    \/ /\ ~exp.starting /\ exp.run # 0
       /\ runs' = [runs EXCEPT ![exp.run].stop = TRUE]
       /\ caller' = [caller EXCEPT ![c] = [pc |-> "stopping", on |-> exp.run]]

Stop(c) == caller[c] = Idle /\ StopReads(c) /\ UNCHANGED <<exp, ctx>>

StartDone(attempt) == exp.attempt > attempt \/ ~exp.starting

StopAgain(c) == /\ caller[c].pc = "starting" /\ StartDone(caller[c].on)
                /\ StopReads(c) /\ UNCHANGED <<exp, ctx>>

StopReturns(c) == /\ caller[c].pc = "stopping" /\ runs[caller[c].on].watch = "done"
                  /\ caller' = [caller EXCEPT ![c] = Idle]
                  /\ UNCHANGED <<exp, runs, ctx>>

\* The server fails by itself.
ServeFails(r) == /\ runs[r].serve = "serving"
                 /\ runs' = [runs EXCEPT ![r].serve = "failed"]
                 /\ UNCHANGED <<exp, caller, ctx>>

CancelContext == ~ctx /\ ctx' = TRUE /\ UNCHANGED <<exp, runs, caller>>

\* monitorRun: the server has ended, or the context or Stop asks for its end.
\* shutdownRun closes the listeners first, so that the server ends whether the
\* shutdown succeeds, fails, or the forced close fails too.
monitorRun(r) ==
    /\ runs[r].watch = "select"
    /\ \/ /\ runs[r].serve # "serving"
          /\ runs' = [runs EXCEPT ![r].watch = "finish", ![r].err = TRUE]
       \/ /\ ctx \/ runs[r].stop
          /\ \E failed \in BOOLEAN :
                runs' = [runs EXCEPT ![r].watch = "shutdown", ![r].err = failed]
    /\ UNCHANGED <<exp, caller, ctx>>

shutdownRun(r) == /\ runs[r].watch = "shutdown"
                  /\ runs' = [runs EXCEPT ![r].serve = IF @ = "serving" THEN "closed" ELSE @,
                                          ![r].watch = "finish"]
                  /\ UNCHANGED <<exp, caller, ctx>>

\* The run ends: the exporter is no longer running if the run is still its own.
finishRun(r) == /\ runs[r].watch = "finish"
                /\ runs' = [runs EXCEPT ![r].watch = "done"]
                /\ exp' = [exp EXCEPT !.running = @ /\ exp.run # r]
                /\ UNCHANGED <<caller, ctx>>

Next == \/ \E c \in Callers : \/ Start(c) \/ Listen(c) \/ finishStartAttempt(c)
                              \/ Stop(c) \/ StopAgain(c) \/ StopReturns(c)
        \/ \E r \in Attempts : ServeFails(r) \/ monitorRun(r) \/ shutdownRun(r) \/ finishRun(r)
        \/ CancelContext

Spec == Init /\ [][Next]_vars

-----------------------------------------------------------------------------
\* The exporter knows the server that serves: there is at most one, it is the
\* exporter's current run, and IsRunning says so, so that Stop reaches it and no
\* second Start takes the port from it (Start, monitorRun).
ServerIsOwned == \A r \in Attempts : runs[r].serve = "serving" => exp.running /\ exp.run = r

\* Stop never waits in vain: while it waits for a Start, a goroutine is in that
\* Start and will end the attempt whatever its outcome, and while it waits for a
\* run, a watcher of the run is on its way to the end (finishStartAttempt,
\* monitorRun).
StopIsAwaited ==
    \A c \in Callers :
       /\ caller[c].pc = "starting" /\ ~StartDone(caller[c].on) =>
             \E d \in Callers : caller[d].pc \in {"listen", "finish"} /\ caller[d].on = caller[c].on
       /\ caller[c].pc = "stopping" =>
             /\ runs[caller[c].on].stop
             /\ runs[caller[c].on].watch # "none"
=============================================================================
