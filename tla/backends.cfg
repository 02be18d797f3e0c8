\* Two videos opened and closed at the same time.
CONSTANTS
    Players = {p1, p2}
    Requests <- MCRequests
    MaxLoads = 2
    None = None
SPECIFICATION Spec
INVARIANTS
    HelperShared
    NothingDangles
    NothingHeld
    BestChosen
PROPERTIES
    OpenEnds
