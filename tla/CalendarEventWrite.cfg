CONSTANTS
    Writers = {w1, w2}
    Edits = {e1, e2}
    Todo = Todo
    None = None
    NoRequest = NoRequest
    MaxForeign = 2
SYMMETRY Symmetry
SPECIFICATION Spec
INVARIANTS AnswersTrue
PROPERTIES NoLostUpdate MixedSurvives
CHECK_DEADLOCK FALSE
