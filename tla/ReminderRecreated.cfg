SPECIFICATION Spec
CONSTANTS
    None = None
    k1 = k1
    k2 = k2
    c1 = c1
    morning = morning
    evening = evening
    Keys = {k1}
    Confs = {c1}
    ConfOf <- OneConf
    Workers = {w1}
    Tokens = {t1, t2, t3}
    Schedules = {morning, evening}
    Fires <- MorningFires
    RoomTarget = room
    UserTargets = {users}
    Lease = 1
    Budget = 0
    Punctual = FALSE
    MaxRevision = 2
    MaxBirths = 2
SYMMETRY Symmetry
INVARIANTS SentAsConfigured
CHECK_DEADLOCK FALSE
