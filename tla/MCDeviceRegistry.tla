--------------------------- MODULE MCDeviceRegistry ----------------------------
(* Two overlapping invocations, two devices, two node ids.                   *)
EXTENDS DeviceRegistry, TLC

CONSTANTS p1, p2, d1, d2, nobody

MCProcs == {p1, p2}
MCDevices == {d1, d2}

\* Invocations and devices are interchangeable.
Symmetry == Permutations(MCProcs) \cup Permutations(MCDevices)
================================================================================
