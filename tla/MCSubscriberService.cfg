\* One request thread, four blocks.
CONSTANTS
    p1 = p1
    p2 = p2
    m1 = m1
    m2 = m2
    Publishers = {p1, p2}
    EvMgrs = {m1, m2}
    NoAddr = NoAddr
    BlockBodies <- MCBodies
    MaxBlk = 4
    Readers = {r1}
    NoReader = NoReader
SPECIFICATION SvcSpec
INVARIANTS
    PastComplete
    PastOrdered
    AddrLatest
PROPERTIES
    PastGrows
