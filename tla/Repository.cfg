SPECIFICATION MCSpec
CONSTANTS
  Keys = {k1, k2}
  System = System
  Capacity = 3
  IndexCapacity = 2
  Savers = {s1, s2}
  Readers = {r1}
  None = None
  MaxTime = 2
  MaxSaves = 4
  NoCounters = NoCounters
  MaxSamples = 3
  MaxUsage = 2
  Exporters = {e1, e2}
  Paths = {"a"}
  Formats = {"json", "prometheus"}
  Destinations = {"file", "http", "s3", "ftp"}
  PartsAsked = {{"system", "processes"}}
  Since = {2}
  Until = {2}
  BatchSize = 2
  BusyTimes = {1}
  MaxStreamTime = 4
SYMMETRY Symmetry
INVARIANTS
  OneHistory
  IndexIsTidy
  LatestLinearizable
  AnswersAreRight
  ExportedIsWhole
  FilesAreWhole
  StreamSkipsOnlyEvicted
PROPERTY DeletesAllOlder
