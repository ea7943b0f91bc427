SPECIFICATION MCSpec
CONSTANTS
    r1 = r1
    r2 = r2
    a1 = a1
    a2 = a2
    a3 = a3
    Keys <- TwoRooms
    Numbers = {1, 2}
    NoBucket = NoBucket
    Window = 2
    MaxGlobal = 3
    MaxPerRoom = 2
    MaxPerActor = 1
    MaxAccepted = 2
    MaxEntries = 4
    Sources = {s1, s2, s3}
    NoWindow = NoWindow
    RequestsPerWindow = 2
    WindowMs = 3
    MaxSources = 2
    CleanupInterval = 2
    Nonces = {n1, n2, n3}
    Unused = Unused
    NonceLifetime = 3
    MaxNonces = 2
    NonceCleanupInterval = 2
SYMMETRY LimitsSymmetry
INVARIANTS CommandsDecidedByHistory SourcesDecidedByHistory NoncesDecidedByHistory
