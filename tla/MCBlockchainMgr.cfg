\* Blocks 2 to 9 over up to seven checkpoint iterations.
CONSTANTS
    r1 = r1
    StartBlock = 2
    MaxBlk = 9
    MaxIter = 7
    Readers = {r1}
SPECIFICATION FairSpec
INVARIANTS
    MgrTypeOK
    LogGap
PROPERTIES
    LeavesFresh
    AppendEnds
