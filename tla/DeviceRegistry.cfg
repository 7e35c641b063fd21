\* Overlapping and killed commissions, syncs and decommissions.
SPECIFICATION Spec
CONSTANTS
  p1 = p1
  p2 = p2
  d1 = d1
  d2 = d2
  nobody = nobody
  Procs <- MCProcs
  Devices <- MCDevices
  MaxNode = 2
  MayRefuse = TRUE
  Free = nobody
SYMMETRY Symmetry
INVARIANTS
  TypeOK
  ReportedIdsDistinct
  ReportedKept
  CounterAhead
  RecordsAssigned
  RunsNeverWait
PROPERTIES
  RefinesLedger
