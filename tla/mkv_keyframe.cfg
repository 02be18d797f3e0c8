CONSTANTS
    None = None
    Untimed = TRUE
    Unmarked = TRUE
    Films <- MCFilms
    Depth = 2
    MaxRefused = 2
    GuardLimit = 16
    Headroom = 2
    MaxShown = 13
SPECIFICATION Spec
PROPERTIES
    FirstIsKey
CHECK_DEADLOCK FALSE
