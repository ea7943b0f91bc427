CONSTANTS
    configured = configured
    k0 = k0
    Rooms = {r1}
    Calendars = {k1, k2}
    NoRoom = NoRoom
    NoCalendar = NoCalendar
    OtherKey = OtherKey
    Static = {}
    Limit = 1
    Setups = {w1, w2}
    MaxFaults = 2
    MaxEdits = 1
SPECIFICATION FairSpec
INVARIANTS
    WidgetsShowTheBinding
    CreatedOnce
PROPERTIES
    PendingBecomesReady
CHECK_DEADLOCK FALSE
