SPECIFICATION Spec
CONSTANTS
  Nodes = {n1, n2}
  MaxTablet = 4
  MaxVersion = 3
  MaxPlan = 2
SYMMETRY Symmetry
CONSTRAINT Explored
INVARIANTS
  OneLivePlanPerTablet
  PlacementFrozenUnderPlan
  PlanOrder
  AllocatorsAhead
PROPERTY PlacementMovesForward
CHECK_DEADLOCK FALSE
