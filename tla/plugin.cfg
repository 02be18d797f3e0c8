SPECIFICATION LiveSpec
CONSTANTS
    Peers = {p, q}
    Heeding = {p, q}
    Monitors = {m1, m2}
    MaxRects = 2
    MaxId = 4
    Us = Us
    Nobody = Nobody
INVARIANTS
    TypeOK
    NothingLeft
    PeersLetGo
    RectsOwned
PROPERTY
    HookComes
