CONSTANTS
    Nil = Nil
    BadChar = BadChar
    k1 = k1
    k2 = k2
    p1 = p1
    p2 = p2
    t1 = t1
    t2 = t2
    Base = 3
    Radix = 4
    Version = 1
    Second = 2
    MinClock <- First
    MaxClock = 2
    Keys = {k1}
    Payloads = {p1, p2}
    Readable = {p1, p2}
    Garbage = {}
    MaxTokens = 2
    Threads = {t1, t2}
    Consumer <- SameKey
SPECIFICATION BSpec
INVARIANTS
    DecodeExact
