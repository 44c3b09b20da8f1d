SPECIFICATION Spec
CONSTANTS
    c1 = c1
    b1 = b1
    i1 = i1
    i2 = i2
    w1 = w1
    w2 = w2
    None = None
    Continents <- MCContinents
    Instanced <- MCInstanced
    Instances <- MCInstances
    Home <- MCHome
    LoopWorkers <- MCLoopWorkers
INVARIANTS
    MapExclusive
    PendingCountsRequests
    WorldThreadIsAlone
    RequestsForLiveMaps
    CycleUpdatesEveryMap
PROPERTIES
    CycleEnds
    DeactivateReturns
    ImplementsBarrier
CHECK_DEADLOCK FALSE
