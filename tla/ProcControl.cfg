SPECIFICATION Spec
CONSTANTS
  Nobody = Nobody
  Objs = {o1, o2}
  MaxForks = 2
  MaxFails = 1
  Modes <- AllModes
INVARIANTS ExitNotLost StoppedIsDead
PROPERTIES HandlerSparesOthers ImplementsLife ExitNoticed ZombiesReaped
CHECK_DEADLOCK FALSE
