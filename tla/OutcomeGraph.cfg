SPECIFICATION Spec
CONSTANTS
  Works = {a, b, c}
  MaxGeneration = 2
  MaxExceptions = 1
  MaxEdits = 3
  MaxClaims = 2
  MaxCommands = 1
  MaxLate = 1
SYMMETRY WorkSymmetry
INVARIANTS
  Acyclic
PROPERTIES
  ClaimsRestOnStandingProof
CHECK_DEADLOCK FALSE
