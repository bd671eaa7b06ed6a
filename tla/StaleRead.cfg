SPECIFICATION Spec
CONSTANTS
  Keys = {k1, k2}
  Readers = {r1, r2}
  L1Size = 1
  L2Size = 2
  L1TTL = 1
  TTL <- MCTTL
  HotHits = 1
  Nothing = Nothing
  MaxTime = 3
  MaxSets = 3
SYMMETRY Symmetry
PROPERTY ReadsLatest
