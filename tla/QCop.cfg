SPECIFICATION Spec
CONSTANTS
  MaxSent = 2
  MaxPids = 2
  MaxCommands = 1
  MaxCrashes = 1
INVARIANTS OneProcess InOrderOnce AsksAboutRunning
PROPERTIES ImplementsMailbox NotOverlooked
CHECK_DEADLOCK FALSE
