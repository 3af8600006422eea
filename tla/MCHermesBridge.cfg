SPECIFICATION FairSpec
CONSTANTS
  Setups <- MCSetups
  Probes = {i1, i2}
  MaxTurns = 3
INVARIANTS
  TranscriptIsConversation
PROPERTIES
  ImplementsTurnQueue
  QueueDrains
  OutageNoticed
CHECK_DEADLOCK FALSE
