\* The advice to delete the storage directory.
SPECIFICATION Spec
CONSTANTS
  p1 = p1
  p2 = p2
  d1 = d1
  d2 = d2
  nobody = nobody
  Procs <- MCProcs
  Devices <- MCDevices
  MaxNode = 2
  MayRefuse = FALSE
  Free = nobody
SYMMETRY Symmetry
PROPERTIES
  DeletionSafe
