SPECIFICATION FairSpec
CONSTANTS
    p1 = p1
    p2 = p2
    Params = {p1, p2}
    Default <- MCDefault
INVARIANTS
    TypeOK
    GcpInv
PROPERTIES
    KeepsPromise
    OthersKept
    TaskEnds
