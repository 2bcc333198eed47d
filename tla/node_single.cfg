SPECIFICATION FairSpec
CONSTANTS
  Backend = "rocksdb"
  Self = 1
  Others = {}
  Candidates = {}
  MaxTerm = 3
  MaxIndex = 4
  MaxCrashes = 2
  MaxRollback = 0
  Kinds = {"cmd", "conf", "leave", "refused"}
  SnapshotInterval = TRUE
  SnapshotRpc = TRUE
  SnapshotMsg = FALSE
  BootstrapFromSnapshot = FALSE
INVARIANTS TypeOK Restartable
PROPERTY CommittedIsApplied
