SPECIFICATION FairSpec
CONSTANTS
    c1 = c1
    c2 = c2
    w1 = w1
    None = None
    Chars <- MCChars
    Workers <- MCWorkers
    MaxVersion <- MCMaxVersion
    MaxFaults = 2
    MaxRestarts = 1
INVARIANTS
    TypeOK
    TransactionsAreWhole
    SavesKeepTheirOrder
    LoadsSeeSaves
PROPERTIES
    LoginsAreAnswered
CHECK_DEADLOCK FALSE
