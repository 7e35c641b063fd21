\* VerifiedMeansOnTime against the code.
SPECIFICATION Spec
CONSTANTS
  unset = unset
  Attempts = 3
  ConnectTimeout = 3
  RetryDelay = 1
  Top = 700
  Tolerance = 2
  EpochShift = 500
  Window = 100
  ExchangeTime = 1
  Skews <- MCSkews
  Shifts <- MCShifts
  Unset = unset
INVARIANTS
  VerifiedMeansOnTime
