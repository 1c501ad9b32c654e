SPECIFICATION FairSpec
CONSTANTS
  Ops = {o1, o2}
  Packages = {p1, p2}
  Clients = {c1}
  MaxCommits = 2
  MaxInterrupts = 1
INVARIANTS
  NothingIsLost
PROPERTIES
  IdentityIsFresh
  RestoreResumes
