SPECIFICATION Spec
CONSTANTS
    Clock = 8
    MinInterval = 3
    MaxDiffs = {2, 9}
    Horizon = 18
INVARIANTS
    NoTimeLost
    AtMostTwice
CHECK_DEADLOCK FALSE
