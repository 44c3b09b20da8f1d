SPECIFICATION FairSpec
CONSTANTS
    c1 = c1
    c2 = c2
    w1 = w1
    None = None
    Chars <- MCChars
    Workers <- MCWorkers
    MaxVersion <- MCMaxVersion
    MaxFaults = 1
    MaxRestarts = 0
PROPERTIES
    CreatedIsTold
CHECK_DEADLOCK FALSE
