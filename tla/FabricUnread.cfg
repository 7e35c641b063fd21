\* A devices.json that cannot be read beside storage that lost or cannot read the rest.
SPECIFICATION DamagedSpec
CONSTANTS
  p1 = p1
  p2 = p2
  d1 = d1
  d2 = d2
  here = here
  there = there
  nobody = nobody
  Procs <- MCProcs
  Devices <- MCDevices
  Labels <- MCLabels
  MaxIdentities = 2
  Free = nobody
PROPERTY RecordedNeverAbandoned
