SPECIFICATION Spec
CONSTANTS
    Actors = {alice, bob}
    Clients = {k1}
    NoActor = NoActor
    NoClient = NoClient
    MaxActive = 1
    MaxFaults = 2
INVARIANTS ActiveHasItsMap RevealedWasActive RemovedIsRemoved
PROPERTY RevokedIsTerminal

SYMMETRY Alike
