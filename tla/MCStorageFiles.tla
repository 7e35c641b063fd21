---------------------------- MODULE MCStorageFiles -----------------------------
(* Two overlapping runs and two different contents.                          *)
EXTENDS StorageFiles, TLC

CONSTANTS p1, p2, v1, v2

MCProcs == {p1, p2}
MCValues == {v1, v2}

\* Runs and contents are interchangeable.
Symmetry == Permutations(MCProcs) \cup Permutations(MCValues)
================================================================================
