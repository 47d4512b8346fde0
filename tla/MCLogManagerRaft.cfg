CONSTANTS
  Entries = {e1}
  Raft = TRUE
  MaxLSN = 3
SPECIFICATION FairSpec
INVARIANTS
  CommittedIsDurable
  NoGap
  AppliedIsAppended
  LogInv
PROPERTY PruningHappens
