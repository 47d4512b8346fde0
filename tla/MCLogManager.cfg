CONSTANTS
  Entries = {e1, e2}
  Raft = FALSE
  MaxLSN = 3
SPECIFICATION FairSpec
PROPERTIES
  ImplementsLog
  PruningHappens
