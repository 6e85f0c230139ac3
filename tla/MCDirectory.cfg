SPECIFICATION Spec
CONSTANTS
  Tablets = {t1, t2, t3}
  Points = {p1, p2}
  Kinds = {"hash", "ordered"}
  MaxVersion = 12
SYMMETRY Symmetry
INVARIANTS
  SingleAuthority
  RedirectsForward
  StaleRouteResolves
PROPERTY LifecycleForward
CHECK_DEADLOCK FALSE
