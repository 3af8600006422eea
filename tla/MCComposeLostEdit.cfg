SPECIFICATION Spec
CONSTANTS
  None = None
  Torn = Torn
  Damaged = Damaged
  Runs = {p1, p2}
  Rollbacks = {}
  Unlocked = {}
  Root = {}
  WithEtc = TRUE
  OtherTools = FALSE
  MaxVersion = 1
INVARIANTS
  NoLostEdit
CHECK_DEADLOCK FALSE
