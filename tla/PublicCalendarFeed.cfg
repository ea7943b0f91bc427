SPECIFICATION FairSpec
CONSTANTS
    Requests = {r1, r2}
    Tokens = {1, 2, 3}
    Foreign = {2}
    None = None
INVARIANTS
    WithdrawnForGood
    NoSilentPublication
PROPERTIES
    LinksOutlivePublish
    OneShareWhenPublished
    EveryRequestEnds
CHECK_DEADLOCK FALSE
