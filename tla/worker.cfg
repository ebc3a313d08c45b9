SPECIFICATION FairSpec
CONSTANTS
    g0 = g0
    g1 = g1
    g2 = g2
    g3 = g3
    Goroutines = {g0, g1, g2, g3}
    Job <- MCJob
    Configurations <- MCConfigurations
    MaxConsumers = 3
    MaxTimers = 2
INVARIANTS
    TypeOK
PROPERTIES
    PeriodSettles
    OneShotExits
    TaskFetched
