CONSTANTS
    t1 = t1
    t2 = t2
    k1 = k1
    k2 = k2
    Txns = {t1}
    Keys = {k1, k2}
    MaxVersion = 0
    Writes <- MCWrites
    MaxFaults = 1
    DriverBound = 0
SPECIFICATION FairSpec
CHECK_DEADLOCK FALSE
PROPERTIES AllOrNothing
