---------------------------- MODULE MCProcessLimits ----------------------------
EXTENDS ProcessLimits, TLC

CONSTANTS r1, r2, a1, a2, a3

\* One room has more actors than may be at work in it, and both together more than may be
\* at work at all, or are remembered.
TwoRooms == {r1} \X {a1, a2, a3} \union {r2} \X {a1, a2}

LimiterUsed == \E k \in Keys : buckets[k] # NoBucket
SourcesUsed == \E s \in Sources : sources[s] # NoWindow
NoncesUsed == \E n \in Nonces : nonces[n] # Unused

\* The tables do not touch each other: a behaviour uses one of them.
MCNext ==
    \/ ~SourcesUsed /\ ~NoncesUsed /\ LimiterStep /\ UNCHANGED <<sourceVars, nonceVars>>
    \/ ~LimiterUsed /\ ~NoncesUsed /\ SourceStep /\ UNCHANGED <<limiterVars, nonceVars>>
    \/ ~LimiterUsed /\ ~SourcesUsed /\ NonceStep /\ UNCHANGED <<limiterVars, sourceVars>>
    \/ Tick

MCSpec == Init /\ [][MCNext]_vars

LimitsSymmetry == Permutations({a1, a2})

=============================================================================
