------------------------------- MODULE Blackout -------------------------------
(***************************************************************************)
(* The BLACKOUT schedule of config/config.go: the parse of its windows and *)
(* the question stageCheckBlackout asks in every cycle.  Time is the hour  *)
(* of the week in the zone of the host; day 0 is Sunday.                   *)
(***************************************************************************)
EXTENDS Integers, Sequences

CONSTANT
    Specs       \* schedules as written: sequences of [days, hours]

VARIABLES
    spec,       \* the schedule as written
    frames,     \* BlackoutTimeframes, or Invalid
    hour        \* the hour of the week

bvars == <<spec, frames, hour>>

Invalid == <<[days |-> {}, start |-> 0, end |-> 0]>>

\* A part of a day list is <<day>> or a range <<first, last>>; Star is "*".
Star == <<>>

parseDaysOk(parts) ==
    \A i \in DOMAIN parts :
       /\ \A j \in DOMAIN parts[i] : parts[i][j] \in 0..6
       /\ parts[i][1] <= parts[i][Len(parts[i])]

parseDays(parts) ==
    IF parts = Star THEN 0..6
    ELSE UNION {parts[i][1]..parts[i][Len(parts[i])] : i \in DOMAIN parts}

parseHoursOk(h) == h[1] \in 0..23 /\ h[2] \in 0..24 /\ h[1] # h[2]

ParseTimeframe(s) ==
    IF \A i \in DOMAIN s : parseDaysOk(s[i].days) /\ parseHoursOk(s[i].hours)
      THEN [i \in DOMAIN s |-> [days |-> parseDays(s[i].days),
                                start |-> s[i].hours[1], end |-> s[i].hours[2]]]
      ELSE Invalid

None == [active |-> FALSE, in |-> 0]

\* The mutant looks for the evening before Sunday on day -1.
UnwrappedEndOf(tf, day, h) ==
    IF tf.start < tf.end
      THEN IF day \in tf.days /\ h >= tf.start /\ h < tf.end
             THEN [active |-> TRUE, in |-> tf.end - h] ELSE None
    ELSE IF day \in tf.days /\ h >= tf.start THEN [active |-> TRUE, in |-> 24 + tf.end - h]
    ELSE IF day - 1 \in tf.days /\ h < tf.end THEN [active |-> TRUE, in |-> tf.end - h]
    ELSE None

\* One window of blackoutEndAt: whether it is on, and in how many hours it ends.
EndOf(tf, day, h) ==
    IF tf.start < tf.end
      THEN IF day \in tf.days /\ h >= tf.start /\ h < tf.end
             THEN [active |-> TRUE, in |-> tf.end - h] ELSE None
    ELSE IF day \in tf.days /\ h >= tf.start THEN [active |-> TRUE, in |-> 24 + tf.end - h]
    ELSE IF (day + 6) % 7 \in tf.days /\ h < tf.end THEN [active |-> TRUE, in |-> tf.end - h]
    ELSE None

\* blackoutEndAt answers with the first window that is on.
blackoutEndAt(now) ==
    LET end(i) == EndOf(frames[i], now \div 24, now % 24)
        on == {i \in DOMAIN frames : end(i).active}
    IN IF on = {} THEN None ELSE end(CHOOSE i \in on : \A j \in on : i <= j)

\* The hours go round, so the first one does not matter: late on Saturday.
Init ==
    /\ spec \in Specs
    /\ frames = ParseTimeframe(spec)
    /\ hour = 6 * 24 + 20

Tick ==
    /\ frames # Invalid
    /\ hour' = (hour + 1) % (7 * 24)
    /\ UNCHANGED <<spec, frames>>

Next == Tick

Spec == Init /\ [][Next]_bvars

-----------------------------------------------------------------------------
\* A window as its author means it: from its first hour on each of its days, for
\* as many hours as separate it from the last, across midnight and the week's end.
DaysOf(parts) == {d \in 0..6 : parts = Star \/ \E i \in DOMAIN parts :
                                 parts[i][1] <= d /\ d <= parts[i][Len(parts[i])]}
Length(h) == IF h[2] > h[1] THEN h[2] - h[1] ELSE 24 - h[1] + h[2]
Elapsed(w, d) == (hour - (24 * d + w.hours[1])) % (7 * 24)
On(w) == {d \in DaysOf(w.days) : Elapsed(w, d) < Length(w.hours)}

\* The daemon is in a blackout exactly in the hours the schedule covers, across
\* midnight and from Saturday to Sunday, and the end it names is the end of a
\* window that is on (blackoutEndAt).
BlackoutAsScheduled ==
  frames # Invalid =>
    LET b == blackoutEndAt(hour) IN
    IF \A i \in DOMAIN spec : On(spec[i]) = {} THEN ~b.active
    ELSE /\ b.active
         /\ \E i \in DOMAIN spec : \E d \in On(spec[i]) :
               b.in = Length(spec[i].hours) - Elapsed(spec[i], d)
=============================================================================
