SPECIFICATION Spec
CONSTANTS
  Node = {1, 2, 3}
  Proposals = {"p", "q"}
  ConfChanges = {}
  MaxElections = 2
  MaxRestarts = 0
  MaxTimeouts = 0
INVARIANT AckedProposals
CHECK_DEADLOCK FALSE
