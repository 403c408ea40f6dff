SPECIFICATION Spec
CONSTANTS
  Apps = {a1, a2}
  Uids = {u1}
  Vals = {v1, v2}
  None = None
  MaxChanges = 2
  MaxClears = 1
  MaxFailures = 1
  MaxCrashes = 1
INVARIANTS CacheAgrees  UnchangedIsSaved
SYMMETRY Symmetry
