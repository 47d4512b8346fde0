CONSTANTS
  Storages = {a, b}
  Writes = {w1, w2}
  Workers = {k1}
  Created = Created
  NoStorage = NoStorage
  MaxAttempt = 2
  MaxFaults = 2
  Resizes = {1, 2}
SPECIFICATION Spec
INVARIANT LatestKeptByWrites
CHECK_DEADLOCK FALSE
