SPECIFICATION FairSpec
CONSTANTS
    dynamic = dynamic
    other = other
    static = static
    Params = {dynamic, other, static}
    Static = {static}
    Unknown = {}
    Tuned = {other}
    Truncated = {}
    BatchSize = 2
    MaxPolls = 3
INVARIANTS
    TypeOK
    RequestLegal
    AwsInv
PROPERTIES
    KeepsPromise
    SentOnce
    TaskEnds
