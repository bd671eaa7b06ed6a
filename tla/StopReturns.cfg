SPECIFICATION FairSpec
CONSTANTS
  Callers = {p1, p2}
  Ops = {"start", "stop"}
  MaxStarts = 2
  Free = Free
PROPERTY StopReturns
CHECK_DEADLOCK FALSE
