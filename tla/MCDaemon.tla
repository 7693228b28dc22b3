------------------------------ MODULE MCDaemon ------------------------------
(* Daemon for TLC: two PSI settings and two polling intervals.               *)
EXTENDS Daemon

MCConfigs == {[psi |-> FALSE, thr |-> 0, poll |-> 1],
              [psi |-> TRUE, thr |-> 0, poll |-> 1],
              [psi |-> TRUE, thr |-> 1, poll |-> 2]}

\* A termination signal ends the process even if the deadline never expires:
\* neither the reload in flight nor the poll goroutine can hold it.
Terminates == <>[](stop.ctx => ~Alive)
=============================================================================
