SPECIFICATION Spec
CONSTANTS
  Ops = {o1, o2, o3}
  Entries = {e1, e2}
  Procs = {p1, p2}
  MaxUpsets = 1
INVARIANT PublicationIsExclusive
SYMMETRY Symmetry
CHECK_DEADLOCK FALSE
