\* A subscription whose first response cannot be sent.
CONSTANTS
    p1 = p1
    m1 = m1
    c1 = c1
    c2 = c2
    Publishers = {p1}
    EvMgrs = {m1}
    NoAddr = NoAddr
    BlockBodies <- MCBodies
    MaxBlk = 4
    Readers = {c1}
    NoReader = NoReader
    NoClient = NoClient
SPECIFICATION Spec
INVARIANTS
    ServedIffListening
