SPECIFICATION Spec
CONSTANTS
    win = win
    shared = shared
    stream = stream
    friend = friend
    Surfaces = {shared}
    Clients = {stream, friend}
    Rules <- MCRules
    CloseHold = 0
    ShowTo = {}
    Titled = {shared}
    Propped = {}
    Movable = {}
    Reused = {}
    Kinds = {"window"}
    Bind = 1
    Share = 2
    Stale = 3
    Animated = TRUE
PROPERTY
    HoldForOthers
