SPECIFICATION Spec
CONSTANTS
  Callers = {c1}
  Ops = {o1}
  Sources = {s1, s2}
  MaxFence = 1
  MaxCrashes = 0
INVARIANTS ClosedResultIsVerified
CHECK_DEADLOCK FALSE
