SPECIFICATION Spec
CONSTANTS
  MaxSent = 2
  MaxPids = 2
  MaxCommands = 0
  MaxCrashes = 0
PROPERTIES EveryMessageDelivered
CHECK_DEADLOCK FALSE
