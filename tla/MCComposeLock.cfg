SPECIFICATION FairSpec
CONSTANTS
  None = None
  Torn = Torn
  Damaged = Damaged
  Runs = {p1, p2, p3}
  Rollbacks = {p3}
  Unlocked = {}
  Root = {p1}
  WithEtc = TRUE
  OtherTools = TRUE
  MaxVersion = 1
INVARIANTS
  LockInv
  ComposeIsAtomic
PROPERTIES
  StaleLockTaken
CHECK_DEADLOCK FALSE
