SPECIFICATION TransportSpec
CONSTANTS
  MaxMessages = 3
  MaxFragments = 3
  MaxPings = 2
  MaxCommands = 4
  Capacity = 3
  MaxTimeOuts = 2
PROPERTIES IsChannel CommandsAreWhole AllReceived
CHECK_DEADLOCK FALSE
