SPECIFICATION FairBridgeSpec
CONSTANTS
  NoRun = NoRun
  NoText = NoText
  ErrorText = ErrorText
  None = None
  Sockets = {s1, s2}
  Setups <- MCSetups
  FrameKinds = {"accepted", "error", "agentEnd"}
  MaxTurns = 3
  MaxEntries = 256
INVARIANTS
  
  StopIsQuiet
PROPERTIES
  BridgeImplementsTurnQueue
  SilentGatewayDropped
CHECK_DEADLOCK FALSE
