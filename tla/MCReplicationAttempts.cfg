CONSTANTS
  Storages = {a, b}
  Writes = {w1}
  Workers = {k1, k2}
  Created = Created
  NoStorage = NoStorage
  MaxAttempt = 2
  MaxFaults = 2
  Resizes = {1, 2}
SPECIFICATION FairSpec
INVARIANTS
  LocksMatch
  GenerationUnlessRaced
PROPERTY Converges
CHECK_DEADLOCK FALSE
