CONSTANTS
  Txns = {t1, t2}
  Refs = {r1}
  Values = {v0, v1}
  InitValue = v0
  NoValue = NoValue
  NoTxn = NoTxn
  MaxLSN = 2
  MaxBare = 1
SPECIFICATION FairSpec
PROPERTIES
  BeginReturns
  CommitReturnsUnlessClosed
  LogIsApplied
INVARIANT CommitInv
