\* A push to a queue that is being copied.
CONSTANTS
    p1 = p1
    p2 = p2
    m1 = m1
    m2 = m2
    Publishers = {p1, p2}
    EvMgrs = {m1, m2}
    NoAddr = NoAddr
    BlockBodies <- MCBodies
    MaxBlk = 5
    Readers = {r1}
    NoReader = NoReader
SPECIFICATION SvcSpec
INVARIANTS
    NoQueueRace
