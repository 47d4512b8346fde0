CONSTANTS
  Storages = {a, b}
  Writes = {w1, w2}
  Workers = {k1, k2}
  Created = Created
  NoStorage = NoStorage
  MaxAttempt = 2
  MaxFaults = 0
  Resizes = {1, 2}
SPECIFICATION Spec
INVARIANT GenerationGuarantee
CHECK_DEADLOCK FALSE
