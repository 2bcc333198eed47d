SPECIFICATION Spec
CONSTANTS
  Backend = "heed"
  Self = 1
  Others = {2, 3, 4, 5}
  Candidates = {}
  MaxTerm = 3
  MaxIndex = 4
  MaxCrashes = 0
  MaxRollback = 2
  Kinds = {"cmd"}
  SnapshotInterval = FALSE
  SnapshotRpc = FALSE
  SnapshotMsg = FALSE
  BootstrapFromSnapshot = FALSE
INVARIANT FsmFollowsChosen
CONSTRAINT OnlyFollows
