SPECIFICATION Spec
CONSTANTS
  Items = {"a"}
  Times <- MCTimes
  Requested <- MCRequested
  DefaultCapacity = 4
  LinearLimit = 3
  Readers = {r1, r2}
  MaxWrites = 5
  MaxReads = 2
SYMMETRY ReaderSymmetry
INVARIANTS
  RangeReadExact
PROPERTIES
  EvictionKeepsTheYoung
  ImplementsBoundedLog
CHECK_DEADLOCK FALSE
