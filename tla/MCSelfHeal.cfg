SPECIFICATION FairSpec
CONSTANTS
  Setups <- MCSetups
  Heals = {h1, h2}
  Bad = Bad
  MaxWatch = 2
  MaxChanges = 1
  MaxFaults = 2
INVARIANTS
  OneHealAtATime
  StaleGatewayIsHealed
PROPERTIES
  ConfigurationConverges
  GatewayRevived
CHECK_DEADLOCK FALSE
