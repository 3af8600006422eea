SPECIFICATION FairSpec
CONSTANTS
  NoRun = NoRun
  NoText = NoText
  ErrorText = ErrorText
  None = None
  MaxEntries = 256
  Sockets = {s1, s2}
  Setups <- MCSetups
  FrameKinds = {"accepted", "error", "chatFinal", "agentEnd"}
  MaxTurns = 3
INVARIANTS
  TypeOK
  OneSocket
  NeverStrandedOffline
  
  DestroyedIsQuiet
  OneTurnAtATime
  NoTurnLeftWaiting
  SentInOrder
  AckedOnce
  ShownOncePerSend
PROPERTIES
  ImplementsTurnQueue
  QueueDrains
  ChallengeTimesOut
