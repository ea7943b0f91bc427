--------------------------- MODULE SourceRateLimiter ---------------------------
(***************************************************************************)
(* The limiter of calendar requests in front of the authentication: a      *)
(* fixed window of requests for each source, in a table with a cap that is *)
(* cleaned at most once in an interval, and only when a request comes.  A  *)
(* time to come is kept as what is left until it, which Tick shortens.     *)
(***************************************************************************)
EXTENDS TimedEvents

CONSTANTS
    Sources,
    NoWindow,
    RequestsPerWindow, WindowMs, MaxSources,
    CleanupInterval      \* min(windowMs, CLEANUP_INTERVAL_MAX_MS)

ASSUME SourceConstantsOk ==
    /\ {RequestsPerWindow, WindowMs, MaxSources, CleanupInterval} \subseteq Nat \ {0}
    /\ CleanupInterval <= WindowMs
    /\ NoWindow \notin [count : Nat, left : Nat]

VARIABLES
    sources,       \* the table: count, and what is left until resetAt
    nextCleanup,   \* what is left until nextCleanupAt
    passed         \* the requests of a source that were allowed lately

sourceVars == <<sources, nextCleanup, passed>>

SourceTypeOK ==
    /\ sources \in [Sources ->
          [count : 1..RequestsPerWindow, left : 0..WindowMs] \union {NoWindow}]
    /\ nextCleanup \in 0..CleanupInterval
    /\ passed \in [Sources -> SUBSET EventsUpTo(WindowMs + CleanupInterval)]

InitSources ==
    /\ sources = [s \in Sources |-> NoWindow]
    /\ nextCleanup = 0
    /\ passed = [s \in Sources |-> {}]

-----------------------------------------------------------------------------
(* consume.                                                                 *)

\* cleanupExpiredSources.
Cleaned ==
    IF nextCleanup = 0
    THEN [s \in Sources |->
            IF sources[s] # NoWindow /\ sources[s].left = 0 THEN NoWindow ELSE sources[s]]
    ELSE sources

Open(s) == Cleaned[s] # NoWindow /\ Cleaned[s].left > 0

Counted == {s \in Sources : Cleaned[s] # NoWindow}

OverLimit(s) == Open(s) /\ Cleaned[s].count >= RequestsPerWindow

TableFull(s) == ~Open(s) /\ Cardinality(Counted \ {s}) >= MaxSources

\* Mutant: every request puts off the next cleanup.
PutOff == nextCleanup' = CleanupInterval

Swept == nextCleanup' = IF nextCleanup = 0 THEN CleanupInterval ELSE nextCleanup

Passes(s) == passed' = [passed EXCEPT ![s] = WithNow(@)]

CountOn(s) ==
    /\ Open(s) /\ ~OverLimit(s)
    /\ sources' = [Cleaned EXCEPT ![s].count = @ + 1]
    /\ Swept /\ Passes(s)

OpenWindow(s) ==
    /\ ~Open(s) /\ ~TableFull(s)
    /\ sources' = [Cleaned EXCEPT ![s] = [count |-> 1, left |-> WindowMs]]
    /\ Swept /\ Passes(s)

RefuseOverLimit(s) ==
    /\ OverLimit(s)
    /\ sources' = Cleaned
    /\ Swept
    /\ UNCHANGED passed

RefuseFull(s) ==
    /\ TableFull(s)
    /\ sources' = [Cleaned EXCEPT ![s] = NoWindow]
    /\ Swept
    /\ UNCHANGED passed

SourceStep == \E s \in Sources :
    CountOn(s) \/ OpenWindow(s) \/ RefuseOverLimit(s) \/ RefuseFull(s)

Sooner(left) == IF left = 0 THEN 0 ELSE left - 1

SourceTick ==
    /\ sources' = [s \in Sources |->
          IF sources[s] = NoWindow THEN NoWindow
          ELSE [count |-> sources[s].count, left |-> Sooner(sources[s].left)]]
    /\ nextCleanup' = Sooner(nextCleanup)
    /\ passed' = [s \in Sources |-> Within(Older(passed[s]), WindowMs + CleanupInterval)]

-----------------------------------------------------------------------------
(* Property.                                                                *)

PassedWithin(s, span) == Cardinality(Within(passed[s], span))

\* In no span of a window's length does a source get more than twice its requests; it is
\* refused for its own sake only when it has had all of them in such a span, and for the
\* table's sake only when so many others had one within a window and a cleanup interval:
\* expired windows, cleaned late, are counted neither for a source nor for long against it.
SourcesDecidedByHistory == \A s \in Sources :
    /\ PassedWithin(s, WindowMs) <= 2 * RequestsPerWindow
    /\ OverLimit(s) => PassedWithin(s, WindowMs) >= RequestsPerWindow
    /\ TableFull(s) =>
          Cardinality({o \in Sources \ {s} :
              PassedWithin(o, WindowMs + CleanupInterval) > 0}) >= MaxSources

=============================================================================
