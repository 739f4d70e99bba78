\* One subscriber over three blocks.
CONSTANTS
    c1 = c1
    a = a
    b = b
    Clients = {c1}
    NoClient = NoClient
    Logs = {a, b}
    Wants <- MCWants
    BlockBodies <- MCBodies
    MaxBlk = 3
SPECIFICATION FairSpec
INVARIANTS
    TypeOK
    FeedExact
    Reliable
    ServedIffListening
PROPERTIES
    FeedSpec
    ReceiptsArrive
