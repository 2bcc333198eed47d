SPECIFICATION Spec
CONSTANTS
  Backend = "heed"
  Self = 1
  Others = {}
  Candidates = {}
  MaxTerm = 2
  MaxIndex = 4
  MaxCrashes = 1
  MaxRollback = 0
  Kinds = {"cmd"}
  SnapshotInterval = TRUE
  SnapshotRpc = FALSE
  SnapshotMsg = FALSE
  BootstrapFromSnapshot = FALSE
INVARIANT Restartable
