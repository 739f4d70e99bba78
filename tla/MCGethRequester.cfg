\* Two transactions, bodies in up to two pieces.
CONSTANTS
    t1 = t1
    t2 = t2
    Txns = {t1, t2}
    Hash <- MCHash
    HashLen = 2
    Bodies <- MCBodies
    Decode <- MCDecode
    FromBytes <- MCFromBytes
    ParseNumber <- MCParseNumber
    MaxPieces = 2
    Unset = Unset
    NoReply = NoReply
SPECIFICATION FairSpec
INVARIANTS
    AnswerMeans
    SentKnown
PROPERTIES
    WaitEnds
