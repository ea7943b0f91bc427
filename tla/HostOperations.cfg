CONSTANTS
    Runs = {b1, b2}
    None = None
    Cleanup = TRUE
    RestoreInputs = TRUE
    Retention = TRUE
SYMMETRY RunSymmetry
SPECIFICATION MCSpec
INVARIANTS ColdCapture ServicesResume NothingLost ReleaseTruth
PROPERTIES EditsSurvive
CHECK_DEADLOCK FALSE
