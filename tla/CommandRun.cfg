\* Two runs of any command over up to three devices.
SPECIFICATION Spec
CONSTANTS
  none = none
  None = none
  Servers = 2
  MaxOffset = 2
  Timeout = 4
  Delays <- MCDelays
  Lateness <- MCLateness
  MaxNode = 3
  Lacking <- MCLacking
  Configs <- MCConfigs
  LabelMax = 32
  Codes <- MCCodes
  Windows <- MCWindows
  Skews <- MCSkews
  MaxRuns = 2
INVARIANTS
  ExitTruth
  StatusHonest
  CodeReachesDevice
PROPERTIES
  SetFromTrustedClock
  RefinesLedger
  RefusalsTouchNothing
CHECK_DEADLOCK FALSE
