SPECIFICATION LiveSpec

CONSTANTS
    p1 = p1
    p2 = p2
    s1 = s1
    s2 = s2
    rawA = rawA
    rawB = rawB
    rawBad = rawBad
    Plays = {p1}
    NoPlay = NoPlay
    Fickle = {p1}
    Faulty = {}
    Configs = {s1, s2}
    NoSettings = NoSettings
    Raws = {rawA, rawBad}
    BadRaws = {rawBad}
    Threads = {t1, t2}
    NoThread = NoThread
    ParseOf <- MCParseOf
    DefaultPlay <- MCDefault
    MissingRetry = 2
    EvictAfter = 1
    QueueCap = 1
    MaxEpoch = 2
    MaxId = 2

INVARIANTS
    TypeOK

PROPERTIES
    Unloads
    ParkedEnd
    MissingRecovers
