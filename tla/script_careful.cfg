SPECIFICATION FairCarefulSpec
CONSTANTS
    p1 = p1
    old = old
    new = new
    bad = bad
    json = json
    none = none
    Runs = {p1}
    Configs <- MCConfigs
    Startable <- MCStartable
    FailingChecks <- MCFailingChecks
    Json = json
    NoFile = none
    InitialFile = old
    RestartCommand = TRUE
    StartMayFail = TRUE
INVARIANTS
    TypeOK
    Recoverable
    RollbackProven
    CarefulInv
PROPERTIES
    BackupDropped
    RunEnds
