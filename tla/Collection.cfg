SPECIFICATION Spec
CONSTANTS
  Callers = {p1, p2, p3}
  Ops = {"start", "stop", "shutdown", "update", "collect", "batch", "cancel"}
  MaxStarts = 3
  Free = Free
SYMMETRY CallerSymmetry
INVARIANTS
  AtMostOneLoop
  NoDoubleClose
CHECK_DEADLOCK FALSE
