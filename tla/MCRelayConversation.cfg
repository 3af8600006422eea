SPECIFICATION Spec
CONSTANTS
  None = None
  Conversations = {c1, c2}
  Tunnels = {w1, w2}
  AuthToken = FALSE
  Strict = TRUE
  MaxRegisters = 2
INVARIANTS
  RelayedInConversation
CHECK_DEADLOCK FALSE
