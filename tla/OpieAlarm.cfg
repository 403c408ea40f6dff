SPECIFICATION Spec
CONSTANTS
  MaxTime = 1
  MaxKids = 3
  MaxFails = 1
  Lead = 0
  Resuspend = 1
INVARIANTS AsleepWhenSafe WaitingIsKillable SleepIsArmed ResuspendAfterAlarm
PROPERTIES SuspendEnds ResumeEndsChildren
