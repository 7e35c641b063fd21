\* Every small zone with and without bookkeeping transitions, every typed time.
SPECIFICATION ManualSpec
CONSTANTS
  none = none
  Before = 1
  Horizon = 5
  YearLength = 4
  January = 0
  July = 2
  HalfDay = 2
  HourLength = 1
  Delay = 1
  Zones <- AllZones
  Marks <- AllMarks
  Froms <- AllFroms
  Limits <- AllLimits
  Situations <- AllSituations
  None = none
INVARIANTS
  TypeOK
  LocalTimeRight
  Contiguous
  NoEntryWasted
  SteadyDayShown
CHECK_DEADLOCK FALSE
