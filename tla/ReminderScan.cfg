SPECIFICATION FairSpec
CONSTANTS
    Bindings = {1, 2}
    Confs = {1, 2, 3}
    BindingOf <- SmallBindingOf
    OrdinalsOf <- FewOrdinals
    MaxConfigs = 2
    MaxCandidates = 3
    MaxClaims = 2
    MaxCursors = 2
    Volatile = {2}
INVARIANTS NoFiringTwice RoundRobin
PROPERTIES EveryFiringAttempted EveryConfigurationListed
