SPECIFICATION Spec
CONSTANTS
  Rules = {r1}
  Targets = {t1}
  Bodies <- MCBodies
  Absent = Absent
  Evaluators = {e1, e2}
  RateLimitWindow = 2
  MaxHistorySize = 2
  MaxTime = 4
  MaxValue = 2
  MaxHistory = 3
SYMMETRY Symmetry
INVARIANTS
  NothingOverdue
  HistoryInOrder
  AlertAnswersAreRight
PROPERTIES
  NotificationsSpaced
  AlertLifecycle
