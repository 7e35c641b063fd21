\* A directory of somebody else.
SPECIFICATION Spec
CONSTANTS
  p1 = p1
  p2 = p2
  Procs <- MCProcs
SYMMETRY Symmetry
INVARIANTS
  ForeignUntouched
