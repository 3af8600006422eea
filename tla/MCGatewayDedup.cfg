SPECIFICATION OnceSpec
CONSTANTS
  NoRun = NoRun
  NoText = NoText
  ErrorText = ErrorText
  None = None
  MaxEntries = 256
  Sockets = {s1, s2}
  Setups <- MCSetups
  FrameKinds = {"accepted", "chatFinal", "agentEnd"}
  MaxTurns = 2
INVARIANTS
  OneReplyPerRun
