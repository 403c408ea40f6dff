SPECIFICATION Spec
CONSTANTS
  Apps = {a, b}
  Plugins = {a}
  NoApp = NoApp
  MaxForks = 3
  MaxFails = 1
  MaxSuspends = 1
INVARIANTS TypeOK OneProcess ReadyIsListening OneQuickLauncher
PROPERTIES ZombiesEnd SuspendEnds
CHECK_DEADLOCK FALSE
