CONSTANTS
    t1 = t1
    t2 = t2
    k1 = k1
    k2 = k2
    Txns = {t1, t2}
    Keys = {k1, k2}
    MaxVersion = 1
    Writes <- MCWrites
    MaxFaults = 1
    MaxRedrives = 1
    Configs <- SafetyConfigs
SPECIFICATION Spec
CHECK_DEADLOCK FALSE
SYMMETRY Swap
INVARIANTS Atomic CommitCoversReservations ReportIsTruth ReservedKeyFrozen
PROPERTIES DecisionStable GuardedWriteSeesRead
