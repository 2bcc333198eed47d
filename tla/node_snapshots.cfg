SPECIFICATION Spec
CONSTANTS
  Backend = "heed"
  Self = 1
  Others = {2, 3}
  Candidates = {}
  MaxTerm = 2
  MaxIndex = 3
  MaxCrashes = 0
  MaxRollback = 1
  Kinds = {"cmd", "conf"}
  SnapshotInterval = TRUE
  SnapshotRpc = FALSE
  SnapshotMsg = TRUE
  BootstrapFromSnapshot = FALSE
INVARIANTS FsmFollowsChosen SnapshotMatchesLabel
PROPERTY HardStateMonotone
