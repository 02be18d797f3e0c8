SPECIFICATION Spec
CONSTANTS
    Peers = {p, q}
    Heeding = {q}
    Monitors = {m1, m2}
    MaxRects = 2
    MaxId = 4
    Us = Us
    Nobody = Nobody
INVARIANT
    RectsOwned
