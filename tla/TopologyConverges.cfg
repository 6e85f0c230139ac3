SPECIFICATION FairSpec
CONSTANTS
  Nodes = {n1, n2}
  Tablets = {1, 2, 3, 4}
  Points = {0, 1, 2}
  Kinds = {"ordered"}
  MaxVersion = 40
  GenesisKeys = {2}
  MaxPlans = 1
  MaxRetained = 2
  MaxCrashes = 1
PROPERTY EveryCutoverReachesEveryNode
CHECK_DEADLOCK FALSE
