\* Blocks 2 and 3 with a reorganisation, two requests.
CONSTANTS
    StartBlock = 2
    MaxNum = 3
    MaxReorgs = 1
    a = a
    b = b
    r1 = r1
    r2 = r2
    Requests = {r1, r2}
    Addrs = {a}
    SyncAddr = a
SPECIFICATION ProgFairSpec
INVARIANTS
    ProgTypeOK
    Consecutive
    CounterLag
    ReadyBeforeWork
PROPERTIES
    CatchesUp
    RequestsServed
    ShutsDown
