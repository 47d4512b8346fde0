CONSTANTS
  Partitions = {p1}
  Clients = {c1, c2}
  Instances = {i1, i2, i3}
  NoPartition = NoPartition
  NoInstance = NoInstance
  maxInactivePartitions = 1
SPECIFICATION FairSpec
PROPERTIES
  StartReturns
  CloseReturns
