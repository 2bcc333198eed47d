SPECIFICATION Spec
CONSTANTS
  Addrs = {a1, a2, a3}
  First = a1
  NoAddr = none
  Serial = TRUE
  MaxChanges = 3
  MaxRemovals = 1
  MaxElections = 1
  MaxRetries = 1
CHECK_DEADLOCK FALSE
INVARIANTS
  TypeOK
  VotersAtTheirAddress
  JoinedIsCommitted
PROPERTIES
  JoinEnds
