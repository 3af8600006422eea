SPECIFICATION Spec
CONSTANTS
  Rooms = {"r1", "r2"}
  DefaultRooms = {"r1"}
  Names = {"main", "ios"}
  Default = "main"
  Boxes = {b1}
  Phones <- MCPhones
  Pairs <- MCPairs
  None = None
  Torn = Torn
  Absent = Absent
  MaxCrashes = 1
INVARIANTS
  
  PhonesStayKnown
CHECK_DEADLOCK FALSE
