SPECIFICATION Spec
CONSTANTS
  Backend = "rocksdb"
  Self = 1
  Others = {2, 3}
  Candidates = {2}
  MaxTerm = 2
  MaxIndex = 3
  MaxCrashes = 1
  MaxRollback = 0
  Kinds = {"cmd"}
  SnapshotInterval = FALSE
  SnapshotRpc = FALSE
  SnapshotMsg = FALSE
  BootstrapFromSnapshot = FALSE
INVARIANTS AckedDurable FsmFollowsChosen Restartable OneVotePerTerm
PROPERTY HardStateMonotone
