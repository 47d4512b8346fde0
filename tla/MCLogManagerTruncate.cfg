CONSTANTS
  Entries = {e1}
  Raft = TRUE
  MaxLSN = 2
SPECIFICATION Spec
INVARIANT TruncationIsDurable
