------------------------------ MODULE TimedEvents ------------------------------
(***************************************************************************)
(* Events of the recent past, as the arrays of times that the limiters     *)
(* fill: a set of pairs, the age of an event and its number among those of *)
(* the same time.                                                          *)
(***************************************************************************)
EXTENDS Naturals, FiniteSets

\* Events of ages up to a bound.
EventsUpTo(age) == (0..age) \X (Nat \ {0})

\* push(now).
WithNow(events) ==
    events \union {<<0, Cardinality({e \in events : e[1] = 0}) + 1>>}

\* filter(time => time > now - span).
Within(events, span) == {e \in events : e[1] < span}

\* The same events one unit of time later.
Older(events) == {<<e[1] + 1, e[2]>> : e \in events}

=============================================================================
