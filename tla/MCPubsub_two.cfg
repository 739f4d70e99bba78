\* Two subscribers who share the heartbeat thread, three blocks.
CONSTANTS
    p1 = p1
    m1 = m1
    c1 = c1
    c2 = c2
    Publishers = {p1}
    EvMgrs = {m1}
    NoAddr = NoAddr
    BlockBodies <- MCBodies
    MaxBlk = 3
    Readers = {c1, c2}
    NoReader = NoReader
    NoClient = NoClient
SPECIFICATION Spec
SYMMETRY ClientSymmetry
INVARIANTS
    FeedOrdered
