---------------------------- MODULE MCLimitHooks ----------------------------
(* LimitHooks for TLC.                                                     *)
EXTENDS LimitHooks, TLC

CONSTANTS u1, u2, w1, w2, s1, s2

Symmetric == Permutations(Users) \cup Permutations(Workers) \cup Permutations(Stoppers)

\* The occupancy that was read influences nothing but the gauges: runs that are
\* not about the gauges leave both out of the fingerprint.
WithoutGauges ==
    <<limited, pending, handled, issued, backlog, queue, closed, cancelled, at, job, ctx,
      leader, strays, outcome, stop, reading[Cycle] = NoReading>>
=============================================================================
