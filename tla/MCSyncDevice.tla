----------------------------- MODULE MCSyncDevice ------------------------------
(* The code's three attempts, with times in the code's order.                *)
EXTENDS SyncDevice

CONSTANT unset

\* A lost clock, a right one, one slightly and one far off.
MCSkews == {unset, 0, 3, -40}

\* The same, a right one that is reported in the Unix epoch, one as far behind, and
\* one that counts up to u64::MAX while a sync lasts.
MCReports == MCSkews \cup {EpochShift, -EpochShift, 2 * Top + 1 - MaxAge}

\* No --time, or a wall clock far from now.
MCShifts == {0, 100}
================================================================================
