SPECIFICATION Spec
CONSTANTS
  p1 = p1
  p2 = p2
  Products = {p1, p2}
  Orders = {o1, o2}
  Keys = {k1, k2}
  Menu <- TwoMenus
  Clients = {c1, c2}
  Handlers = {h1, h2}
  Openings = {1}
  MaxIntake <- OneAndTwo
  MaxFailures = 1
SYMMETRY MonolithSymmetry
INVARIANTS OrdersExplainStock KeyNamesItsOrder NotForgotten
PROPERTY FollowsLife
CHECK_DEADLOCK FALSE
