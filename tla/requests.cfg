SPECIFICATION FairSpec
CONSTANTS
  Node = {1, 2}
  Proposals = {"p", "q"}
  ConfChanges = {"c"}
  MaxElections = 1
  MaxRestarts = 1
  MaxTimeouts = 1
INVARIANTS AckedProposals AckedChanges
PROPERTY EveryCallReturns
CHECK_DEADLOCK FALSE
