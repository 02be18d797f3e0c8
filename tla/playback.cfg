CONSTANTS
    None = None
    Untimed = TRUE
    Unmarked = FALSE
    Films <- MCFilms
    Depth = 2
    MaxRefused = 2
    GuardLimit = 16
    Headroom = 2
    MaxShown = 13
SPECIFICATION Spec
INVARIANTS
    TypeOK
PROPERTIES
    ImplementsFilm
    CallReturns
\* next_frame is not called again after the end or an error
CHECK_DEADLOCK FALSE
