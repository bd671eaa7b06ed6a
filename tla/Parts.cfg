SPECIFICATION MCSpec
CONSTANTS
  Callers = {p1, p2}
  MaxCounted = 3
  Off = Off
  Absent = Absent
  Pids = {p1, p2}
  Names = {m1, m2}
  Devices = {d1, d2}
  ProcessLimit = 1
  MaxBytes = 2
  MaxExported = 3
  Channels = {c1, c2}
  Senders = {s1}
  RetryAttempts = 2
  MaxChanges = 1
  RepoNames = {n1}
  Types = {"linux", "memory"}
  OS = "linux"
  MaxRepos = 2
  Processes = {1, 2, 3}
  Matching = {1, 2}
  Rank <- MCRank
  Heights = {3, 7, 9, 10}
  FirstVisible = 2
  HelpLines = 5
  MaxFetches = 1
  MaxIndex = 3
SYMMETRY Symmetry
CHECK_DEADLOCK FALSE
INVARIANTS
  Accounted
  HealthWasTrue
  ScrapesAreHonest
  SendsAreTrue
  SelectionStays
  ListIsCurrent
PROPERTIES
  RegistriesKeepTheirWord
