SPECIFICATION Spec
CONSTANTS
  Apps = {app, sync}
  Sync = sync
  Peers = {p1, p2}
  Uids = {u1, u2}
  MaxChanges = 2
  MaxSyncs = 2
  MaxClears = 1
  MaxFailures = 1
INVARIANTS ChangesAreTold NextIsNew OnlyNeeded
PROPERTY SyncedIsRight
SYMMETRY Symmetry
CHECK_DEADLOCK FALSE
