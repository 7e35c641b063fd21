\* Files lost and reads failing at any time: what a run still never does.
SPECIFICATION DamagedSpec
CONSTANTS
  p1 = p1
  p2 = p2
  d1 = d1
  d2 = d2
  here = here
  there = there
  nobody = nobody
  Procs <- MCProcs
  Devices <- MCDevices
  Labels <- MCLabels
  MaxIdentities = 2
  Free = nobody
SYMMETRY Symmetry
PROPERTIES
  MintOnlyIfSeenEmpty
  KeyNeverOverwritten
  SeenRecordsKeepFabric
