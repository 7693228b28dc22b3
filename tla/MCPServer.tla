----------------------------- MODULE MCPServer -----------------------------
(***************************************************************************)
(* The life of the MCP server (mcp/server.go, Start, Stop and the transport *)
(* goroutine): calls from several goroutines under the lifecycle gate, the  *)
(* transport failing by itself, and the shutdown of the HTTP server timing  *)
(* out.                                                                     *)
(***************************************************************************)
EXTENDS Integers, FiniteSets

CONSTANTS Callers, MaxStarts   \* bound: attempts to start

VARIABLES srv,      \* transport, transportCancel # nil, stopped, httpServer # nil
          gate,     \* who is in lifecycleGate: nobody or one caller
          once,     \* stopOnce: "new", "running" or "done"
          serving,  \* the transport goroutines that run (the wait group)
          caller,   \* per caller: where it is
          starts,   \* attempts so far
          cancelled \* transport contexts that are done

vars == <<srv, gate, once, serving, caller, starts, cancelled>>

Attempts == 1..MaxStarts

Init == /\ srv \in [transport : {"stdio", "http"}, cancel : {FALSE}, stopped : {FALSE},
                    http : {FALSE}]
        /\ gate = {} /\ once = "new" /\ serving = {} /\ starts = 0 /\ cancelled = {}
        /\ caller = [c \in Callers |-> "idle"]

Goto(c, pc) == caller' = [caller EXCEPT ![c] = pc]

\* Start enters the gate.
StartEnter(c) == /\ caller[c] = "idle" /\ gate = {} /\ starts < MaxStarts
                 /\ gate' = {c} /\ Goto(c, "check")
                 /\ UNCHANGED <<srv, once, serving, starts, cancelled>>

\* A stopped or a started server is not started; otherwise the transport gets its
\* context.
StartCheck(c) ==
    /\ caller[c] = "check"
    /\ IF srv.stopped \/ srv.cancel
       THEN Goto(c, "leave") /\ UNCHANGED <<srv, starts>>
       ELSE /\ srv' = [srv EXCEPT !.cancel = TRUE] /\ starts' = starts + 1
            /\ Goto(c, "transport")
    /\ UNCHANGED <<gate, once, serving, cancelled>>

\* startStdioTransport and startHTTPTransport: the goroutine runs; binding the
\* HTTPS listener may fail, and gives the context back.
StartTransport(c) ==
    /\ caller[c] = "transport"
    /\ \/ /\ serving' = serving \cup {starts}
          /\ srv' = [srv EXCEPT !.http = @ \/ srv.transport = "http"]
          /\ UNCHANGED cancelled
       \/ /\ srv.transport = "http"
          /\ srv' = [srv EXCEPT !.cancel = FALSE]
          /\ cancelled' = cancelled \cup {starts}
          /\ UNCHANGED serving
    /\ Goto(c, "leave")
    /\ UNCHANGED <<gate, once, starts>>

Leave(c) == /\ caller[c] = "leave" /\ gate' = {} /\ Goto(c, "idle")
            /\ UNCHANGED <<srv, once, serving, starts, cancelled>>

\* Stop: one caller runs stop(), the others wait for it.
Stop(c) == /\ caller[c] = "idle"
           /\ IF once = "new" THEN once' = "running" /\ Goto(c, "stop")
                              ELSE UNCHANGED once /\ Goto(c, "once")
           /\ UNCHANGED <<srv, gate, serving, starts, cancelled>>

StopWaited(c) == /\ caller[c] = "once" /\ once = "done" /\ Goto(c, "idle")
                 /\ UNCHANGED <<srv, gate, once, serving, starts, cancelled>>

\* Mutant: stop does not enter the gate.
UngatedStopEnter(c) == /\ caller[c] = "stop"
                       /\ srv' = [srv EXCEPT !.stopped = TRUE]
                       /\ cancelled' = IF srv.cancel THEN cancelled \cup {starts} ELSE cancelled
                       /\ Goto(c, "shutdown")
                       /\ UNCHANGED <<gate, once, serving, starts>>

\* stop() enters the gate, marks the server stopped and cancels the transport.
StopEnter(c) == /\ caller[c] = "stop" /\ gate = {}
                /\ gate' = {c}
                /\ srv' = [srv EXCEPT !.stopped = TRUE]
                /\ cancelled' = IF srv.cancel THEN cancelled \cup {starts} ELSE cancelled
                /\ Goto(c, "shutdown")
                /\ UNCHANGED <<once, serving, starts>>

\* The HTTP server is shut down: its listener is closed, so that it ends, whether or
\* not the shutdown times out on its requests.
StopShutdown(c) == /\ caller[c] = "shutdown"
                   /\ serving' = IF srv.http THEN {} ELSE serving
                   /\ Goto(c, "wait")
                   /\ UNCHANGED <<srv, gate, once, starts, cancelled>>

\* wg.Wait, then the gate is left.
StopReturn(c) == /\ caller[c] = "wait" /\ serving = {}
                 /\ once' = "done" /\ gate' = {} /\ Goto(c, "idle")
                 /\ UNCHANGED <<srv, serving, starts, cancelled>>

\* A transport ends: by itself, or because its context is done (stdio).
TransportEnds(r) == /\ r \in serving
                    /\ serving' = serving \ {r}
                    /\ UNCHANGED <<srv, gate, once, starts, caller, cancelled>>

Next == \/ \E c \in Callers : \/ StartEnter(c) \/ StartCheck(c) \/ StartTransport(c) \/ Leave(c)
                              \/ Stop(c) \/ StopWaited(c) \/ StopEnter(c) \/ StopShutdown(c)
                              \/ StopReturn(c)
        \/ \E r \in Attempts : TransportEnds(r)

Spec == Init /\ [][Next]_vars

-----------------------------------------------------------------------------
\* Once a Stop has returned, to whichever caller, no transport serves and none
\* will; and a Stop that waits for a transport has made it end: the context of a
\* stdio transport is done, the listener of an HTTP transport is closed.
StopIsFinal ==
    /\ once = "done" => serving = {} /\ srv.stopped
                        /\ \A c \in Callers : caller[c] # "transport"
    /\ \A c \in Callers : caller[c] = "wait" =>
          IF srv.http THEN serving = {} ELSE serving \subseteq cancelled
=============================================================================
