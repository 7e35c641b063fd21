\* One device, every order of delays, losses and refusals.
SPECIFICATION FairSpec
CONSTANTS
  unset = unset
  Attempts = 3
  ConnectTimeout = 3
  RetryDelay = 1
  Top = 700
  Tolerance = 2
  EpochShift = 500
  Window = 100
  ExchangeTime = 1
  Skews <- MCReports
  Shifts <- MCShifts
  Unset = unset
INVARIANTS
  TypeOK
  SuccessIsComplete
  SuccessBoundsLag
  IgnoredOnlyIfRight
  FoldNeverHurts
PROPERTIES
  SyncEnds
  VerifiedExactly
  LabelCosmetic
  StepsRunOut
