------------------------- MODULE CommandTrafficLimiter -------------------------
(***************************************************************************)
(* The limiter of !calendar commands in one server process: a table with a *)
(* bucket for each room and actor, which holds the times of the commands   *)
(* accepted lately and the number of those still at work.  Expired times   *)
(* and idle buckets are pruned only when somebody comes by.  A time is     *)
(* kept as an age, which Tick advances; a bucket object is a pair of its   *)
(* key and a number.                                                       *)
(***************************************************************************)
EXTENDS TimedEvents

CONSTANTS
    Keys,            \* pairs of a room and an actor
    Numbers,         \* of bucket objects of one key
    NoBucket,
    Window,          \* WINDOW_MS
    MaxGlobal, MaxPerRoom, MaxPerActor,   \* MAX_IN_FLIGHT_*
    MaxAccepted,     \* MAX_COMMANDS_PER_ACTOR_WINDOW
    MaxEntries       \* MAX_STATE_ENTRIES

ASSUME LimiterConstantsOk ==
    /\ {Window, MaxGlobal, MaxPerRoom, MaxPerActor, MaxAccepted, MaxEntries} \subseteq Nat \ {0}
    /\ Numbers \subseteq Nat /\ NoBucket \notin Numbers

VARIABLES
    buckets,       \* the table: the number of the bucket of a key
    acceptedAt,    \* of a bucket; ages stop at Window
    inFlight,      \* of a bucket
    leases,        \* commands at work, which hold the release function of a bucket
    history        \* the commands accepted of a room and actor in the last Window

limiterVars == <<buckets, acceptedAt, inFlight, leases, history>>

Objects == Keys \X Numbers
Counts == [Objects -> Nat]

LimiterTypeOK ==
    /\ buckets \in [Keys -> Numbers \union {NoBucket}]
    /\ acceptedAt \in [Objects -> SUBSET EventsUpTo(Window)]
    /\ inFlight \in Counts /\ leases \in Counts
    /\ history \in [Keys -> SUBSET EventsUpTo(Window)]

InitLimiter ==
    /\ buckets = [k \in Keys |-> NoBucket]
    /\ acceptedAt = [b \in Objects |-> {}]
    /\ inFlight = [b \in Objects |-> 0]
    /\ leases = inFlight
    /\ history = [k \in Keys |-> {}]

-----------------------------------------------------------------------------
(* The table.                                                               *)

Recent(events) == Within(events, Window)

\* Mutant: whoever has not come lately is forgotten, also when still at work.
ExpiredOnly(b) == Recent(acceptedAt[b]) = {}

\* pruneBucket: nothing accepted lately and nobody at work.
Idle(b) == inFlight[b] = 0 /\ Recent(acceptedAt[b]) = {}

\* pruneExpired.
Pruned == [k \in Keys |->
    IF buckets[k] # NoBucket /\ Idle(<<k, buckets[k]>>) THEN NoBucket ELSE buckets[k]]

RecentOnly == [b \in Objects |-> Recent(acceptedAt[b])]

\* The sum of the counts of these keys, up to the global limit for each.
Total(count, keys) ==
    Cardinality({s \in keys \X (1..MaxGlobal) : s[2] <= count[s[1]]})

\* The decision of tryAcquire, on the pruned table.
Admits(table, key) ==
    LET listed == {k \in Keys : table[k] # NoBucket}
        busy == [k \in listed |-> inFlight[<<k, table[k]>>]]
    IN  /\ Total(busy, listed) < MaxGlobal
        /\ Total(busy, {k \in listed : k[1] = key[1]}) < MaxPerRoom
        /\ IF key \in listed
           THEN /\ busy[key] < MaxPerActor
                /\ Cardinality(Recent(acceptedAt[<<key, table[key]>>])) < MaxAccepted
           ELSE Cardinality(listed) < MaxEntries

\* A new object: any that nothing refers to, so the least one.
New(key, n) ==
    LET free(x) == Pruned[key] # x /\ leases[<<key, x>>] = 0
    IN  free(n) /\ \A x \in Numbers : x < n => ~free(x)

-----------------------------------------------------------------------------
(* Operations.                                                              *)

TryAcquire(key) ==
    /\ Admits(Pruned, key)
    /\ \E n \in Numbers : LET found == Pruned[key] # NoBucket IN
          /\ IF found THEN n = Pruned[key] ELSE New(key, n)
          /\ buckets' = [Pruned EXCEPT ![key] = n]
          /\ acceptedAt' = [RecentOnly EXCEPT ![<<key, n>>] = WithNow(IF found THEN @ ELSE {})]
          /\ inFlight' = [inFlight EXCEPT ![<<key, n>>] = IF found THEN @ + 1 ELSE 1]
          /\ leases' = [leases EXCEPT ![<<key, n>>] = @ + 1]
    /\ history' = [history EXCEPT ![key] = WithNow(@)]

\* tryAcquire returns undefined; the table has been pruned all the same.
Deny ==
    /\ \E key \in Keys : ~Admits(Pruned, key)
    /\ buckets' = Pruned
    /\ acceptedAt' = RecentOnly
    /\ UNCHANGED <<inFlight, leases, history>>

\* The finally block of handleCalendarMessage: a command ends, with or without a reply.
Release(key, n) ==
    /\ leases[<<key, n>>] > 0
    /\ leases' = [leases EXCEPT ![<<key, n>>] = @ - 1]
    /\ inFlight' = [inFlight EXCEPT ![<<key, n>>] = @ - 1]
    /\ acceptedAt' = [acceptedAt EXCEPT ![<<key, n>>] = Recent(@)]
    /\ buckets' = IF /\ buckets[key] = n
                     /\ inFlight'[<<key, n>>] = 0 /\ acceptedAt'[<<key, n>>] = {}
                  THEN [buckets EXCEPT ![key] = NoBucket] ELSE buckets
    /\ UNCHANGED history

LimiterStep ==
    \/ \E key \in Keys : TryAcquire(key)
    \/ Deny
    \/ \E key \in Keys, n \in Numbers : Release(key, n)

\* What has expired is not told apart.
Expiring(events) == Older(Recent(events)) \union (events \ Recent(events))

LimiterTick ==
    /\ acceptedAt' = [b \in Objects |-> Expiring(acceptedAt[b])]
    /\ history' = [k \in Keys |-> Recent(Older(history[k]))]
    /\ UNCHANGED <<buckets, inFlight, leases>>

-----------------------------------------------------------------------------
(* Property.                                                                *)

\* The commands at work of these keys, up to the global limit for each object.
AtWork(keys) == {w \in Objects \X (1..MaxGlobal) : w[1][1] \in keys /\ w[2] <= leases[w[1]]}

\* What the documentation promises, in terms of the commands themselves.
Entitled(key) ==
    LET known == {k \in Keys : history[k] # {} \/ AtWork({k}) # {}}
    IN  /\ Cardinality(AtWork(Keys)) < MaxGlobal
        /\ Cardinality(AtWork({k \in Keys : k[1] = key[1]})) < MaxPerRoom
        /\ Cardinality(AtWork({key})) < MaxPerActor
        /\ Cardinality(history[key]) < MaxAccepted
        /\ key \in known \/ Cardinality(known) < MaxEntries

\* A command is accepted exactly when the commands at work and those accepted in the last
\* window leave room for it: no slot is lost or given twice, no full table stays full, in
\* whatever order commands end, windows pass and buckets are evicted and made anew.
CommandsDecidedByHistory ==
    LET table == Pruned IN \A key \in Keys : Admits(table, key) <=> Entitled(key)

\* The caps are kept: on commands at work in the process, in a room and of an actor, and on
\* those accepted of an actor in any window; no object has more at work than AtWork counts.
CapsAreKept ==
    /\ Cardinality(AtWork(Keys)) <= MaxGlobal
    /\ \A b \in Objects : leases[b] <= MaxGlobal
    /\ \A key \in Keys :
          /\ Cardinality(AtWork({k \in Keys : k[1] = key[1]})) <= MaxPerRoom
          /\ Cardinality(AtWork({key})) <= MaxPerActor
          /\ Cardinality(history[key]) <= MaxAccepted

=============================================================================
