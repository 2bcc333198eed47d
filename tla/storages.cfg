\* Backend is not read here: Storages instantiates StorageCalls for both.
SPECIFICATION Spec
CONSTANTS
  Backend = "heed"
  Base = 3
  KeyLength = 2
  MaxIndex = 3
  MaxTerm = 2
  MaxConf = 1
  MaxCalls = 4
  MaxCrashes = 1
  ArchiveThreshold = 0
CHECK_DEADLOCK FALSE
INVARIANTS
  ReadsAgree
  MemAgrees
PROPERTIES
  HeedImplements
  RocksImplements
  CompactionArchivesFirst
