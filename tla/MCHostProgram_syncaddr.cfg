\* The configured address and another one that the memory may hold.
CONSTANTS
    StartBlock = 2
    MaxNum = 2
    MaxReorgs = 0
    a = a
    b = b
    r1 = r1
    r2 = r2
    Requests = {}
    Addrs = {a, b}
    SyncAddr = a
SPECIFICATION ProgSpec
INVARIANTS
    SyncAddrConfigured
