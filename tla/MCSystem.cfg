\* Blocks 2 to 4 pushed over a chain that is reorganised once, with one
\* subscriber.
CONSTANTS
    p1 = p1
    m1 = m1
    m2 = m2
    c1 = c1
    StartBlock = 2
    MaxNum = 4
    MaxReorgs = 1
    Publishers = {p1}
    EvMgrs = {m1, m2}
    NoAddr = NoAddr
    BlockBodies <- MCBodies
    Readers = {c1}
    NoReader = NoReader
    NoClient = NoClient
    Content <- MCContent
SPECIFICATION FairSpec
INVARIANTS
    SameBlocks
    NumbersAgree
    CountedStored
    CountedServed
PROPERTIES
    StopTogether
    BlocksHandled
