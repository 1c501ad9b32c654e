SPECIFICATION Spec
CONSTANTS
  Ops = {o1, o2, o3}
  Entries = {e1, e2}
  Procs = {p1, p2}
  MaxUpsets = 1
INVARIANTS CommitIsPlanned ReconciledIsPublished LatestCommitIsReconcilable
PROPERTIES PublishedIsKept
SYMMETRY Symmetry
CHECK_DEADLOCK FALSE
