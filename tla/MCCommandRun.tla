----------------------------- MODULE MCCommandRun ------------------------------
(* Three node ids, the second of a device without the cluster; a host that is *)
(* right, just within reach, and out of reach; times in half seconds.         *)
EXTENDS CommandRun

CONSTANT none

MCSkews == {0, 4, -5}
MCLacking == {2}
MCDelays == {0, 2, 4}
MCLateness == {0, 5}

\* The file that is there and right, named or not; none, named or not; one that
\* cannot be read, and one for each check of validate.
Good == [explicit |-> TRUE, found |-> "yes", parses |-> TRUE, absolute |-> TRUE,
         zone |-> TRUE, label |-> 32]
MCConfigs ==
  {Good,
   [Good EXCEPT !.found = "no"],
   [Good EXCEPT !.found = "no", !.explicit = FALSE],
   [Good EXCEPT !.found = "unreadable", !.explicit = FALSE],
   [Good EXCEPT !.parses = FALSE],
   [Good EXCEPT !.absolute = FALSE],
   [Good EXCEPT !.zone = FALSE],
   [Good EXCEPT !.label = 0],
   [Good EXCEPT !.label = 33]}

\* The test device of the repository, one whose chunks have their upper bits set,
\* and one that prints the trivial passcode.
Device == [passcode |-> 20202021, short |-> 15]
Other == [passcode |-> 99999998, short |-> 5]
MCWindows == {Device, Other}

MCCodes ==
  {Printed(Device, FALSE), Printed(Other, TRUE),
   Printed([Device EXCEPT !.passcode = 12345678], FALSE),
   [Printed(Device, FALSE) EXCEPT !.check = FALSE],
   [Printed(Device, FALSE) EXCEPT !.length = 12],
   [Printed(Device, FALSE) EXCEPT !.form = "qr"],
   [Printed(Device, FALSE) EXCEPT !.digits2to6 = 65536],
   [Printed(Device, FALSE) EXCEPT !.digits7to10 = 9999]}
================================================================================
