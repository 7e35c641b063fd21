----------------------------- MODULE MCManualTime ------------------------------
(* Every small zone, with the host's time; zones with summer time, with every *)
(* time that can be typed on a day of four hours.                             *)
EXTENDS ManualTime

CONSTANT none

\* Every zone of seven instants with three offsets: seasons, rule changes and
\* changes of the standard offset among them.
AllZones == [Instants -> {-1, 0, 1}]

\* No bookkeeping transition, or one at every instant.
AllMarks == {{}, 1..Horizon}

AllFroms == -1..3
AllLimits == 0..3

\* One hour too many in both forms, and one minute.
TypedTimes ==
  [hour : 0..4, minute : {0}, meridiem : {"none"}]
    \cup [hour : 0..3, minute : {0}, meridiem : {"am", "pm"}]
    \cup [hour : {1}, minute : {1}, meridiem : {"am", "none"}]

AllSituations ==
  [zone : AllZones, marks : AllMarks, from : AllFroms, limit : AllLimits, typed : {none}]
    \cup [zone : [Instants -> {0, 1}], marks : {{}}, from : AllFroms, limit : {1, 3},
          typed : TypedTimes]
================================================================================
