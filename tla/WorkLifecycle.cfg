SPECIFICATION Spec
CONSTANTS
  Works = {w1}
  Sessions = {s1, s2}
  AttemptIds = {a1, a2}
  NoWork = NoWork
  NoSession = NoSession
  TTLs = {1, 2}
  Budgets = {2}
  Dispositions = {"released", "unknown"}
  MaxTime = 1
  MaxLag = 1
  MaxGeneration = 2
SYMMETRY Symmetry
INVARIANTS
  RowsAgree
  ReuseNeedsAcknowledgement
  ClosedIsProved
PROPERTIES
  StaleIntentNeverCloses
  ImplementsWorktreeLease
CHECK_DEADLOCK FALSE
