\* What becomes of the reasons when another decoder opens.
CONSTANTS
    Players = {p1}
    Requests <- MCRequests
    MaxLoads = 2
    None = None
SPECIFICATION Spec
INVARIANTS
    RejectionsShown
