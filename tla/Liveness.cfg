SPECIFICATION MCSpec
CONSTANTS
  Exporters = {e1}
  Paths = {"a"}
  Formats = {"json", "prometheus"}
  Destinations = {"file", "http", "s3", "ftp"}
  PartsAsked = {{"system", "processes"}}
  Since = {}
  Until = {}
  BatchSize = 2
  Capacity = 3
  BusyTimes = {1}
  MaxTime = 2
  MaxStreamTime = 4
  Failed = Failed
  Nothing = Nothing
  AnyUser = AnyUser
  MaxRowsShown = 3
  MaxPercent = 1
  Callers = {p1, p2}
  Ops = {"start", "collect", "batch", "cancel"}
  MaxStarts = 2
  Free = Free
CHECK_DEADLOCK FALSE
INVARIANTS
  DisplaysAreRight
PROPERTIES
  StreamEnds
  EveryCallReturns
  CancelEndsLoop
