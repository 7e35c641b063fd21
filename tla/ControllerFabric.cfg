\* Overlapping runs killed anywhere: invariants, and the abstract identity.
SPECIFICATION Spec
CONSTANTS
  p1 = p1
  p2 = p2
  d1 = d1
  d2 = d2
  here = here
  there = there
  nobody = nobody
  Procs <- MCProcs
  Devices <- MCDevices
  Labels <- MCLabels
  MaxIdentities = 3
  Free = nobody
SYMMETRY Symmetry
INVARIANTS
  PairMatches
  NoOrphan
  CtxCoherent
  NeverRefused
  StatusNeverAlarms
PROPERTIES
  IdentityNeverReplaced
  RefinesOneFabric
