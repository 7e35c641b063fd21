\* A wall-clock time set across a change of the offset.
SPECIFICATION ManualSpec
CONSTANTS
  none = none
  Before = 1
  Horizon = 4
  YearLength = 4
  January = 0
  July = 2
  HalfDay = 2
  HourLength = 1
  Delay = 0
  Zones <- AllZones
  Marks <- AllMarks
  Froms <- AllFroms
  Limits <- AllLimits
  Situations <- AllSituations
  None = none
INVARIANTS
  TypedIsShown
CHECK_DEADLOCK FALSE
