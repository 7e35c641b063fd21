------------------------------- MODULE OneFabric -------------------------------
(***************************************************************************)
(* What the controller promises about its identity, with every file, lock  *)
(* and process abstracted away ("One fabric, ever", README.md): one        *)
(* identity is minted, it is never replaced, and the only fabric a device  *)
(* ever holds on our behalf is that one.                                   *)
(***************************************************************************)
EXTENDS Naturals

CONSTANTS Devices,        \* the Matter devices in reach
          MaxIdentities   \* bound on the identities that may be minted

VARIABLES owner,          \* the controller's identity, NoId before the first
          members         \* members[d]: our fabrics in d's fabric table

vars == <<owner, members>>

NoId == 0
Identities == 1..MaxIdentities

Init ==
  /\ owner = NoId
  /\ members = [d \in Devices |-> {}]

\* The identity comes into being, once.
Mint ==
  /\ owner = NoId
  /\ owner' \in Identities
  /\ UNCHANGED members

\* A device becomes a member of the one fabric.
Join(d) ==
  /\ owner # NoId
  /\ members' = [members EXCEPT ![d] = @ \cup {owner}]
  /\ UNCHANGED owner

\* A device drops the fabric.
Leave(d) ==
  /\ members' = [members EXCEPT ![d] = @ \ {owner}]
  /\ UNCHANGED owner

Next == Mint \/ \E d \in Devices : Join(d) \/ Leave(d)

Spec == Init /\ [][Next]_vars
================================================================================
