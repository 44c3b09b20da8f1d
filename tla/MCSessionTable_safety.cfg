SPECIFICATION Spec
CONSTANTS
    a1 = a1
    a2 = a2
    a3 = a3
    s1 = s1
    s2 = s2
    s3 = s3
    s4 = s4
    None = None
    Accounts = {a1, a2, a3}
    Admins = {a3}
    Sessions = {s1, s2, s3, s4}
    AccountOf <- MCAccountOf
    Limits = {1}
    Tolerance = 0
    Grace = 1
    MaxTime = 1
SYMMETRY MCSymmetry
INVARIANTS
    TableHoldsTheLiving
    QueueHoldsTheWaiting
    PositionsAreTold
    NobodySkipsTheQueue
    PlacesAreUsed
PROPERTIES
    LoadingIsNotCutOff
    LimitIsKept
    NoOvertaking
CHECK_DEADLOCK FALSE
