SPECIFICATION Spec
CONSTANTS
  Keys = {k1}
  System = System
  Capacity = 3
  IndexCapacity = 2
  Savers = {s1, s2}
  Readers = {}
  None = None
  MaxTime = 2
  MaxSaves = 3
PROPERTY DeletesMetricsOlder
