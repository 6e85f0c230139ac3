SPECIFICATION Spec
CONSTANTS
  Nodes = {n1, n2}
  Tablets = {1, 2, 3, 4, 5}
  Points = {0, 1, 2}
  Kinds = {"ordered"}
  MaxVersion = 40
  GenesisKeys = {}
  MaxPlans = 2
  MaxRetained = 1
  MaxCrashes = 1
CONSTRAINT FirstSplitAtOne
SYMMETRY Symmetry
ACTION_CONSTRAINT LocalStepsFirst
INVARIANTS
  CoverageExact
  SameTabletSameRange
CHECK_DEADLOCK FALSE
