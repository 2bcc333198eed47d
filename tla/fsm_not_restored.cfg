SPECIFICATION Spec
CONSTANTS
  Backend = "rocksdb"
  Self = 1
  Others = {}
  Candidates = {}
  MaxTerm = 2
  MaxIndex = 5
  MaxCrashes = 1
  MaxRollback = 0
  Kinds = {"cmd"}
  SnapshotInterval = TRUE
  SnapshotRpc = FALSE
  SnapshotMsg = FALSE
  BootstrapFromSnapshot = FALSE
INVARIANT FsmFollowsChosen
