SPECIFICATION FairSpec
CONSTANTS
    dynamic = dynamic
    static = static
    skipped = skipped
    Params = {dynamic, static, skipped}
    Static = {static}
    Skipped = {skipped}
    Tuned = {static}
    Alike = {"wanted"}
INVARIANTS
    TypeOK
    AzureInv
PROPERTIES
    KeepsPromise
    RestartJustified
    TaskEnds
