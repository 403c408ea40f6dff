SPECIFICATION Spec
CONSTANTS
  MaxTime = 3
  Keys = {k1, k2}
  None = None
  AnyTime = AnyTime
  MaxSecs = 1
  MaxAdds = 3
  MaxBacks = 1
  MaxCrashes = 1
  CrashPoints <- AnyPoint
  SaveMayFail = TRUE
INVARIANTS NearestIsEarliest OneAlarmPerParameters AlarmIsTimed
  TimerHasAlarm WakeUpCoversAlarm 
PROPERTY DeletesWhatIsNamed
SYMMETRY Symmetry
