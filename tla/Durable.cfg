SPECIFICATION FairSpec
CONSTANTS
  sa = sa
  sb = sb
  t1 = t1
  t2 = t2
  k1 = k1
  k2 = k2
  Sessions <- TwoSessions
  Requests <- ThreeRequests
  Keys <- TwoKeys
  KeyOf <- KeyOfThree
  Conditional <- Creates
  Tablets <- OneTablet
  TabletOf <- SameTablet
  SessionCap = 2
  MaxOps = 2
  Configs <- SoundConfigs
  MaxFaults = 1
  MaxCrashes = 2
  MaxCheckpoints = 2
INVARIANTS TypeOK PredictionHolds ReadsAreDurable RestartRebuildsTablets
PROPERTY KeepsPromise EveryRequestIsAnswered
