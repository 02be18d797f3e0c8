SPECIFICATION LiveSpec
CONSTANTS
    win = win
    shared = shared
    stream = stream
    friend = friend
    Surfaces = {shared}
    Clients = {stream}
    Rules <- MCRules
    CloseHold = 0
    ShowTo = {}
    Titled = {shared}
    Propped = {}
    Movable = {shared}
    Reused = {shared}
    Kinds = {"window", "layer"}
    Bind = 2
    Share = 2
    Stale = 2
    Animated = FALSE
PROPERTIES
    ClosingEnds
    PictureRecovers
    FadesCovered
    StartedOnce
