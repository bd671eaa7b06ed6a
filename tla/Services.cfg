SPECIFICATION MCSpec
CONSTANTS
  Limits <- RequestLimits
  DefaultLimit = 4
  MaxProcesses = 3
  Name <- Names
  User <- Users
  Filters <- RequestFilters
  AnyUser = "any"
  Interval = 1
  Duration = 2
  MaxTime = 4
  MaxServers = 2
  Constructor = {"returns", "panics"}
CHECK_DEADLOCK FALSE
INVARIANTS
  ReportedWasHanded
  SuccessIsTrue
  AfterShutdownNothingListens
PROPERTIES
  NothingAfterReturn
  Returns
  CancelEndsRoutines
