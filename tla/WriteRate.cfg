SPECIFICATION Spec
CONSTANTS
  Devices = {sda}
  Collectors = {c1}
  TicksPerMilli = 1
  MaxAge = 1
  Word = 16
  NoEntry = NoEntry
  Growing = {"writeBytes"}
  MaxTime = 3
  MaxGrowth = 2
  MaxResets = 1
INVARIANTS
  WritesConserved
CHECK_DEADLOCK FALSE
