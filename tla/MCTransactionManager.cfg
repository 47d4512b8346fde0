CONSTANTS
  Txns = {t1, t2}
  Refs = {r1, r2}
  Values = {v0, v1}
  InitValue = v0
  NoValue = NoValue
  NoTxn = NoTxn
  MaxLSN = 3
  MaxBare = 0
SPECIFICATION Spec
SYMMETRY Symmetry
INVARIANTS
  SnapshotIsolation
  NoLostUpdate
  HistoryIsCurrent
  WalkComplete
  LocksReady
  RepositoryIsReplay
