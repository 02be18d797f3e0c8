SPECIFICATION Spec
CONSTANTS
    win = win
    shared = shared
    stream = stream
    friend = friend
    Surfaces = {shared}
    Clients = {stream, friend}
    Rules <- MCRules
    CloseHold = 0
    ShowTo = {}
    Titled = {shared}
    Propped = {shared}
    Movable = {shared}
    Reused = {}
    Kinds = {"window", "layer"}
    Bind = 1
    Share = 2
    Stale = 3
    Animated = TRUE
INVARIANTS
    PumpArmed
PROPERTIES
    NeverExposed
    ShownAsAllowed
    FlagsRestored
    HeldAfterUnhiding
    HoldEnds
