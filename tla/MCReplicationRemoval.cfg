CONSTANTS
  Storages = {a, b, c}
  Writes = {w1}
  Workers = {k1}
  Created = Created
  NoStorage = NoStorage
  MaxAttempt = 2
  MaxFaults = 4
  Resizes = {1, 2}
SPECIFICATION Spec
INVARIANT LatestKept
CONSTRAINT BeforeLoss
SYMMETRY Symmetry
CHECK_DEADLOCK FALSE
