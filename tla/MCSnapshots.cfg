SPECIFICATION FairSnapshotsSpec
CONSTANTS
  Client = {c1}
  Name = {default, work, home}
  Default = default
  MaxSession = 1
  ConcurrentAdmin = FALSE
  CreateWhileDelete = FALSE
  Saver = {auto}
INVARIANTS SnapshotsTypeOK CurrentIsKnown SessionsInKnownWorkspaces FileIsWhole
PROPERTY SessionsGetSaved
