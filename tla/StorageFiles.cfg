\* Overlapping runs, an operator, kills and power losses at every point of a store.
SPECIFICATION StorageSpec
CONSTANTS
  p1 = p1
  p2 = p2
  v1 = v1
  v2 = v2
  Procs <- MCProcs
  Values <- MCValues
  None = None
  Torn = Torn
SYMMETRY Symmetry
INVARIANTS
  IInv
  OwnDirPrivate
PROPERTIES
  RefinesRegister
