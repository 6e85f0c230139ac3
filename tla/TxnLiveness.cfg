CONSTANTS
    t1 = t1
    t2 = t2
    k1 = k1
    k2 = k2
    Txns = {t1}
    Keys = {k1, k2}
    MaxVersion = 0
    Writes <- MCWrites
    MaxFaults = 2
    MaxRedrives = 1
    Configs <- LivenessConfigs
SPECIFICATION FairSpec
CHECK_DEADLOCK FALSE
INVARIANTS TypeOK
PROPERTIES ReservationsEnd
