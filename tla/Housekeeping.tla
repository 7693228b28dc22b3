---------------------------- MODULE Housekeeping ----------------------------
(***************************************************************************)
(* The schedule the daemon keeps and the log it writes: the blackout       *)
(* windows and the logger.  They share no state with each other.           *)
(***************************************************************************)
EXTENDS Integers, Sequences

CONSTANTS   \* of each component, under the letter of its instance below
    bSpecs,
    lMaxSize, lLimits, lMaxRecords, lMaxFaults, lMaxStarts

\* A window names days, each part a day or a range of days, and two hours, and the
\* limits on the copies are at least 1 (validateConfig), one of them the largest.
ASSUME BlackoutAssumption ==
    bSpecs \subseteq Seq([days : Seq(Seq(Int) \ {<<>>}), hours : Int \X Int])
ASSUME LoggerAssumption ==
    lLimits \subseteq Nat \ {0} /\ \E n \in lLimits : \A k \in lLimits : k <= n

VARIABLES
    bSpec, bFrames, bHour,
    lActive, lCopies, lLog, lRot, lDue, lGhost

B == INSTANCE Blackout WITH Specs <- bSpecs, spec <- bSpec, frames <- bFrames, hour <- bHour

L == INSTANCE Logger WITH MaxSize <- lMaxSize, Limits <- lLimits, MaxRecords <- lMaxRecords,
    MaxFaults <- lMaxFaults, MaxStarts <- lMaxStarts, active <- lActive, copies <- lCopies, log <- lLog, rot <- lRot,
    due <- lDue, ghost <- lGhost

-----------------------------------------------------------------------------
\* The daemon is in a blackout exactly in the hours the schedule covers, across
\* midnight and from Saturday to Sunday, and the end it names is the end of a
\* window that is on (blackoutEndAt).
BlackoutAsScheduled == B!BlackoutAsScheduled

\* Whatever operation of a rotation failed and wherever the process was killed, the
\* files are the end of the log, in order, and a logger that calls itself healthy
\* has its last record on disk and can write the next (shiftBackups: "so no record
\* is overwritten"; reportSinkFailure).
LogIsASuffix == L!LogIsASuffix /\ L!HealthTruthful
=============================================================================
