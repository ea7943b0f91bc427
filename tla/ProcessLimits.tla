----------------------------- MODULE ProcessLimits -----------------------------
(***************************************************************************)
(* The bounded tables of one gateway process, which share its clock and    *)
(* nothing else, and which a restart empties.                              *)
(***************************************************************************)
EXTENDS CommandTrafficLimiter, SourceRateLimiter, CallbackReplayCache

vars == <<limiterVars, sourceVars, nonceVars>>

TypeOK == LimiterTypeOK /\ SourceTypeOK /\ NonceTypeOK

Init == InitLimiter /\ InitSources /\ InitNonces

Tick == LimiterTick /\ SourceTick /\ NonceTick

Next ==
    \/ LimiterStep /\ UNCHANGED <<sourceVars, nonceVars>>
    \/ SourceStep /\ UNCHANGED <<limiterVars, nonceVars>>
    \/ NonceStep /\ UNCHANGED <<limiterVars, sourceVars>>
    \/ Tick

Spec == Init /\ [][Next]_vars

-----------------------------------------------------------------------------
(* Property.                                                                *)

\* What the process remembers is bounded, entries not yet pruned or cleaned included.
TablesAreBounded ==
    /\ Cardinality({k \in Keys : buckets[k] # NoBucket}) <= MaxEntries
    /\ \A b \in Objects : Cardinality(acceptedAt[b]) <= MaxAccepted
    /\ Cardinality({s \in Sources : sources[s] # NoWindow}) <= MaxSources
    /\ Cardinality({n \in Nonces : nonces[n] # Unused}) <= MaxNonces

=============================================================================
