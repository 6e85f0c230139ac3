SPECIFICATION Spec
CONSTANTS
  W = 4
  MaxKey = 6
  MaxGenesis = 9
INVARIANTS
  TilingExact
  OverlapsIsIntersection
  MergeUndoesSplit
  CoverageCheckExact
  ScanCoversQuery
CHECK_DEADLOCK FALSE
