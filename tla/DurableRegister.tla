---------------------------- MODULE DurableRegister ----------------------------
(***************************************************************************)
(* What a state file promises (src/src/state.rs, "written atomically so a  *)
(* power loss mid-write never corrupts it"): it holds one whole value; a   *)
(* write replaces it at once; a power loss brings back a whole value that  *)
(* was there before, if the last write had not reached the disk.           *)
(***************************************************************************)
CONSTANTS Values,  \* what the program stores
          None     \* no file yet

VARIABLES value,   \* what a reader finds
          safe     \* what survives a power loss

vars == <<value, safe>>

Init == value = None /\ safe = None

Write == value' \in Values /\ UNCHANGED safe

Remove == value' = None /\ UNCHANGED safe

Persist == safe' = value /\ UNCHANGED value

PowerLoss == value' = safe /\ UNCHANGED safe

Next == Write \/ Remove \/ Persist \/ PowerLoss

Spec == Init /\ [][Next]_vars
================================================================================
