CONSTANTS
    configured = configured
    k0 = k0
    Rooms = {r1, r2, r3, configured}
    Calendars = {k0, k1, k2, k3}
    NoRoom = NoRoom
    NoCalendar = NoCalendar
    OtherKey = OtherKey
    Static <- ConfiguredBinding
    Limit = 3
    Setups = {w1, w2}
    MaxFaults = 2
    MaxEdits = 0
SPECIFICATION Spec
SYMMETRY Alike
INVARIANTS
    OneToOne
    ReadyHasCollection
PROPERTIES
    BindingsAreKept
CHECK_DEADLOCK FALSE
