SPECIFICATION Spec
CONSTANTS
    Clock = 100
    MinInterval = 3
    MaxDiffs = {9}
    Horizon = 12
INVARIANT DiffsAreElapsedTime
CHECK_DEADLOCK FALSE
