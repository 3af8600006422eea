SPECIFICATION Spec
CONSTANTS
  None = None
  Phones = {p1, p2, p3}
  Gateways = {g1, g2}
  Strict = TRUE
  MaxTurns = 2
SYMMETRY Symmetry
INVARIANTS
  DispatchInv
  TakeoverSurvivesOldClose
CHECK_DEADLOCK FALSE
