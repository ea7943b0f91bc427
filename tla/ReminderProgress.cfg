SPECIFICATION FairSpec
CONSTANTS
    None = None
    k1 = k1
    k2 = k2
    c1 = c1
    morning = morning
    evening = evening
    Keys = {k1}
    Confs = {c1}
    ConfOf <- OneConf
    Workers = {w1, w2}
    Tokens = {t1, t2}
    Schedules = {morning}
    Fires <- MorningFires
    RoomTarget = room
    UserTargets = {users}
    Lease = 2
    Budget = 1
    Punctual = TRUE
    MaxRevision = 1
    MaxBirths = 1
PROPERTIES EventuallySettled SettledStaysQuiet
CHECK_DEADLOCK FALSE
