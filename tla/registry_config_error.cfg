SPECIFICATION Spec

CONSTANTS
    p1 = p1
    p2 = p2
    s1 = s1
    s2 = s2
    rawA = rawA
    rawB = rawB
    rawBad = rawBad
    Plays = {p1}
    NoPlay = NoPlay
    Fickle = {p1}
    Faulty = {p1}
    Configs = {s1, s2}
    NoSettings = NoSettings
    Raws = {rawA, rawB, rawBad}
    BadRaws = {rawBad}
    Threads = {t1, t2}
    NoThread = NoThread
    ParseOf <- MCParseOf
    DefaultPlay <- MCDefault
    MissingRetry = 1
    EvictAfter = 1
    QueueCap = 3
    MaxEpoch = 2
    MaxId = 3

INVARIANTS
    ConfigErrorShown
