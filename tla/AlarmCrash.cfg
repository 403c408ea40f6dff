SPECIFICATION Spec
CONSTANTS
  MaxTime = 3
  Keys = {k1, k2}
  None = None
  AnyTime = AnyTime
  MaxSecs = 1
  MaxAdds = 2
  MaxBacks = 0
  MaxCrashes = 1
  CrashPoints <- AnyPoint
  SaveMayFail = FALSE
INVARIANT CrashIsAtomic
