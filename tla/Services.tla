------------------------------ MODULE Services ------------------------------
(***************************************************************************)
(* The services around the control of limits: the start of the daemon and  *)
(* the two servers.  They share no state with each other.                  *)
(***************************************************************************)
EXTENDS Naturals

CONSTANTS   \* of each component, under the letter of its instance below
    sMaxStarts,
    eCallers, eMaxRuns,
    mCallers, mMaxStarts

\* A bound is a number.
ASSUME ExporterAssumption == eMaxRuns \in Nat

VARIABLES
    sBoot, sDeclared, sHost, sLeases, sStarts,
    eExp, eRuns, eCaller, eCtx,
    mSrv, mGate, mOnce, mServing, mCaller, mStarts, mCancelled

S == INSTANCE Startup WITH MaxStarts <- sMaxStarts, boot <- sBoot, declared <- sDeclared,
    host <- sHost, leases <- sLeases, starts <- sStarts

E == INSTANCE ExporterServer WITH Callers <- eCallers, MaxRuns <- eMaxRuns, exp <- eExp,
    runs <- eRuns, caller <- eCaller, ctx <- eCtx

M == INSTANCE MCPServer WITH Callers <- mCallers, MaxStarts <- mMaxStarts, srv <- mSrv,
    gate <- mGate, once <- mOnce, serving <- mServing, caller <- mCaller,
    starts <- mStarts, cancelled <- mCancelled

-----------------------------------------------------------------------------
\* A running daemon either owns the properties applied on the host or has none
\* applied, publishes why it observes, and enforces where it was declared to and
\* could: neither a crash nor an edited declaration leaves limits that nobody
\* owns, unless the detection no longer finds systemd.  An exit asks for a restart
\* exactly when the refusal may clear without an operator.
StartIsTruthful == S!StartIsTruthful

\* The exporter knows the one server that serves, so that Stop reaches it, and a
\* Stop never waits for a Start or a run that nobody will end (Start, monitorRun,
\* finishStartAttempt).
ServerIsOwned == E!ServerIsOwned /\ E!StopIsAwaited

\* Once a Stop has returned, to whichever caller, no transport serves and none
\* will; and a Stop that waits for a transport has made it end: the context of a
\* stdio transport is done, the listener of an HTTP transport is closed.
StopIsFinal == M!StopIsFinal
=============================================================================
