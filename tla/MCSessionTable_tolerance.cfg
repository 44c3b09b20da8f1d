SPECIFICATION Spec
CONSTANTS
    a1 = a1
    a2 = a2
    a3 = a3
    s1 = s1
    s2 = s2
    s3 = s3
    s4 = s4
    None = None
    Accounts = {a1, a2}
    Admins = {}
    Sessions = {s1, s2, s3}
    AccountOf <- MCAccountOfThree
    Limits = {0, 1}
    Tolerance = 1
    Grace = 2
    MaxTime = 3
INVARIANT ToleranceExpires
CHECK_DEADLOCK FALSE
