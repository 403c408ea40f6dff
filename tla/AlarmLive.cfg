SPECIFICATION Spec
CONSTANTS
  MaxTime = 3
  Keys = {k1, k2}
  None = None
  AnyTime = AnyTime
  MaxSecs = 1
  MaxAdds = 2
  MaxBacks = 1
  MaxCrashes = 2
  CrashPoints <- SafePoints
  SaveMayFail = FALSE
PROPERTIES ImplementsBook AlarmsGoOff
