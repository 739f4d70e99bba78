\* One subscriber, four blocks.
CONSTANTS
    p1 = p1
    m1 = m1
    c1 = c1
    c2 = c2
    Publishers = {p1}
    EvMgrs = {m1}
    NoAddr = NoAddr
    BlockBodies <- MCBodies
    MaxBlk = 4
    Readers = {c1}
    NoReader = NoReader
    NoClient = NoClient
SPECIFICATION FairSpec
INVARIANTS
    TypeOK
    NoGap
    WatermarkLag
PROPERTIES
    SvcSpec
    FeedSpec
    BlockEnds
    SubReqResolves
    EventsArrive
