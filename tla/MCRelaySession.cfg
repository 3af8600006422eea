SPECIFICATION FairSpec
CONSTANTS
  None = None
  Conversations = {c1}
  Tunnels = {w1, w2}
  AuthToken = TRUE
  Strict = TRUE
  MaxRegisters = 3
INVARIANTS
  TunnelInv
  NeverWithoutRetry
  KeysDieWithTunnel
  DestroyedIsQuiet
PROPERTIES
  SilentTunnelDropped
CHECK_DEADLOCK FALSE
