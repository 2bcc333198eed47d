SPECIFICATION Spec
CONSTANTS
  Addrs = {a1, a2, a3, a4}
  First = a1
  NoAddr = none
  Serial = TRUE
  MaxChanges = 4
  MaxRemovals = 0
  MaxElections = 1
  MaxRetries = 0
CHECK_DEADLOCK FALSE
INVARIANTS
  UniqueIds
