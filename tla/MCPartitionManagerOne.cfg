CONSTANTS
  Partitions = {p1, p2}
  Clients = {c1, c2}
  Instances = {i1, i2, i3}
  NoPartition = NoPartition
  NoInstance = NoInstance
  maxInactivePartitions = 1
SPECIFICATION Spec
INVARIANT OneRunning
