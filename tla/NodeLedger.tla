------------------------------ MODULE NodeLedger -------------------------------
(***************************************************************************)
(* What the program promises about node ids and records, with every file,  *)
(* lock, run and exchange abstracted away: a device only ever joins under  *)
(* the id the counter shows, records come and go one at a time, and the    *)
(* counter passes an id only when a device answers to it and a record      *)
(* leads to that device.  DeviceRegistry (runs that overlap) and           *)
(* CommandRun (whole commands) both implement it.                          *)
(***************************************************************************)
EXTENDS Naturals

VARIABLES next,      \* the node id that the next commissioning gives out
          used,      \* node ids that some device answers to
          records    \* node ids on record

vars == <<next, used, records>>

\* Whatever earlier runs have left: records of ids that are given out.
Init ==
  /\ next \in Nat \ {0}
  /\ records \in SUBSET (1..(next - 1))
  /\ used = records

\* A device takes the id that the counter shows.
Join ==
  /\ used' = used \cup {next}
  /\ UNCHANGED <<next, records>>

\* The last device that answers to an id is gone.
Leave(n) ==
  /\ used' = used \ {n}
  /\ UNCHANGED <<next, records>>

\* One record is written, and every other one kept.
Record(n) ==
  /\ records' = records \cup {n}
  /\ UNCHANGED <<next, used>>

Drop(n) ==
  /\ records' = records \ {n}
  /\ UNCHANGED <<next, used>>

\* An id is used up.
Advance ==
  /\ next \in used \cap records
  /\ next' = next + 1
  /\ UNCHANGED <<used, records>>

Next ==
  \/ Join \/ Advance
  \/ \E n \in 1..next : Record(n)
  \/ \E n \in records : Drop(n)
  \/ \E n \in used : Leave(n)

Spec == Init /\ [][Next]_vars
================================================================================
