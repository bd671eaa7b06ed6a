SPECIFICATION MCSpec
CONSTANTS
  Keys = {k1, k2}
  Readers = {r1, r2}
  L1Size = 1
  L2Size = 1
  L1TTL = 1
  TTL <- MCTTL
  HotHits = 1
  Nothing = Nothing
  MaxTime = 3
  MaxSets = 3
  Devices = {sda}
  Collectors = {c1, c2}
  TicksPerMilli = 1
  MaxAge = 1
  Word = 16
  NoEntry = NoEntry
  Growing = {"readBytes", "ioTime"}
  MaxGrowth = 2
  MaxResets = 1
  Unread = Unread
  Refused = Refused
SYMMETRY Symmetry
CHECK_DEADLOCK FALSE
INVARIANTS
  NothingResurrected
  RatesAreHonest
  OverlapBounded
  ReadingsAreRight
PROPERTY FreshReads
