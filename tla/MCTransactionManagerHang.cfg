CONSTANTS
  Txns = {t1}
  Refs = {r1}
  Values = {v0, v1}
  InitValue = v0
  NoValue = NoValue
  NoTxn = NoTxn
  MaxLSN = 2
  MaxBare = 1
SPECIFICATION FairSpec
PROPERTY AdmittedReturns
