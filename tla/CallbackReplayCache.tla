-------------------------- MODULE CallbackReplayCache --------------------------
(***************************************************************************)
(* The nonces of Radicale's signed callbacks, each of which is consumed    *)
(* once for its lifetime, in a table with a cap that is cleaned at most    *)
(* once in an interval, and only when a callback comes.                    *)
(***************************************************************************)
EXTENDS TimedEvents

CONSTANTS
    Nonces,
    Unused,
    NonceLifetime, MaxNonces, NonceCleanupInterval

ASSUME NonceConstantsOk ==
    /\ {NonceLifetime, MaxNonces, NonceCleanupInterval} \subseteq Nat \ {0}
    /\ Unused \notin Nat

VARIABLES
    nonces,             \* the table: what is left until expiresAt
    nextNonceCleanup,   \* what is left until nextCleanupAt
    consumed            \* the callbacks accepted with a nonce lately

nonceVars == <<nonces, nextNonceCleanup, consumed>>

NonceTypeOK ==
    /\ nonces \in [Nonces -> 0..NonceLifetime \union {Unused}]
    /\ nextNonceCleanup \in 0..NonceCleanupInterval
    /\ consumed \in [Nonces -> SUBSET EventsUpTo(NonceLifetime + NonceCleanupInterval)]

InitNonces ==
    /\ nonces = [n \in Nonces |-> Unused]
    /\ nextNonceCleanup = 0
    /\ consumed = [n \in Nonces |-> {}]

Stored(table) == {n \in Nonces : table[n] # Unused}

\* cleanup.
Kept ==
    IF nextNonceCleanup = 0
    THEN [n \in Nonces |-> IF nonces[n] = 0 THEN Unused ELSE nonces[n]]
    ELSE nonces

\* Mutant: a full table is recognised before it is cleaned.
FreshUncleaned(n) ==
    n \notin Stored(nonces) /\ Cardinality(Stored(nonces)) < MaxNonces

Fresh(n) ==
    n \notin Stored(Kept) /\ Cardinality(Stored(Kept)) < MaxNonces

Visited == nextNonceCleanup' =
    IF nextNonceCleanup = 0 THEN NonceCleanupInterval ELSE nextNonceCleanup

\* consume, for a callback whose time stamp and signature are good.
Consume(n) ==
    /\ Fresh(n)
    /\ nonces' = [Kept EXCEPT ![n] = NonceLifetime]
    /\ consumed' = [consumed EXCEPT ![n] = WithNow(@)]
    /\ Visited

Reject(n) ==
    /\ ~Fresh(n)
    /\ nonces' = Kept
    /\ Visited
    /\ UNCHANGED consumed

NonceStep == \E n \in Nonces : Consume(n) \/ Reject(n)

NonceTick ==
    /\ nonces' = [n \in Nonces |->
          IF nonces[n] \in {Unused, 0} THEN nonces[n] ELSE nonces[n] - 1]
    /\ nextNonceCleanup' = IF nextNonceCleanup = 0 THEN 0 ELSE nextNonceCleanup - 1
    /\ consumed' = [n \in Nonces |->
          Within(Older(consumed[n]), NonceLifetime + NonceCleanupInterval)]

-----------------------------------------------------------------------------
(* Property.                                                                *)

\* Callbacks with the same nonce are accepted at least a lifetime apart; one is refused only
\* because its nonce, or as many nonces as fit, were accepted within a lifetime and a
\* cleanup interval: refused callbacks are enough to have a full cache cleaned.
NoncesDecidedByHistory == \A n \in Nonces :
    /\ \A c, d \in consumed[n] :
          c # d => c[1] >= d[1] + NonceLifetime \/ d[1] >= c[1] + NonceLifetime
    /\ ~Fresh(n) => \/ consumed[n] # {}
                    \/ Cardinality({o \in Nonces : consumed[o] # {}}) >= MaxNonces

=============================================================================
