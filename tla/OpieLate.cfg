SPECIFICATION Spec
CONSTANTS
  MaxTime = 0
  MaxKids = 3
  MaxFails = 0
  Lead = 0
  Resuspend = 0
INVARIANTS ResumeCanKill
