SPECIFICATION Spec
CONSTANTS
  Apps = {a1, a2}
  Uids = {u1, u2}
  Vals = {v1}
  None = None
  MaxChanges = 2
  MaxClears = 0
  MaxFailures = 0
  MaxCrashes = 0
PROPERTY SaveKeepsOthers

