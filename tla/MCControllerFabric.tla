-------------------------- MODULE MCControllerFabric ---------------------------
(* Two overlapping invocations, two devices, two labels, three mintings.     *)
EXTENDS ControllerFabric, TLC

CONSTANTS p1, p2, d1, d2, here, there, nobody

MCProcs == {p1, p2}
MCDevices == {d1, d2}
MCLabels == {here, there}

\* Invocations, devices and labels are interchangeable.
Symmetry ==
  Permutations(MCProcs) \cup Permutations(MCDevices) \cup Permutations(MCLabels)
================================================================================
