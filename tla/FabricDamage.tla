----------------------------- MODULE FabricDamage ------------------------------
(***************************************************************************)
(* ControllerFabric over storage that is damaged from outside: files that  *)
(* disappear (an operator, a power loss, a failing disk), and identity.json *)
(* and devices.json that are there and cannot be read or parsed (a run as  *)
(* root leaves both with mode 0600).  The refusals of ensure_fabric        *)
(* (src/src/controller/mod.rs) are for the first; the second goes through  *)
(* load_or_default (src/src/state.rs), which reads any such file as empty. *)
(* Nothing of the repository loses a file, so the three losses are         *)
(* external.                                                               *)
(***************************************************************************)
EXTENDS ControllerFabric

LoseFabric ==
  /\ fabric # NoId
  /\ fabric' = NoId
  /\ UNCHANGED <<lock, label, identity, registry, held, minted, pc, memory>>

LoseIdentity ==
  /\ identity # NoId
  /\ identity' = NoId
  /\ UNCHANGED <<lock, fabric, label, registry, held, minted, pc, memory>>

\* devices.json lost, or set back by a power loss to a state with fewer records.
LoseRecords ==
  /\ registry' \in SUBSET registry \ {registry}
  /\ UNCHANGED <<lock, fabric, label, identity, held, minted, pc, memory>>

\* The registry snapshot of ensure_fabric, of a devices.json that holds records
\* and cannot be read or parsed: load_or_default takes it for empty.
RegistryReadFails(p) ==
  /\ registry # {}
  /\ Step(p, "locked", "loaded")
  /\ loaded' = [loaded EXCEPT ![p] = fabric]
  /\ seen' = [seen EXCEPT ![p] = "unread"]
  /\ UNCHANGED <<lock, disk, held, minted, ident, want, dev>>

\* update_device over such a file: the new devices.json holds the device of this
\* run and no other.
RecordOverUnread(p) ==
  /\ registry # {}
  /\ Step(p, "joined", "recorded")
  /\ registry' = dev[p]
  /\ UNCHANGED <<lock, fabric, label, identity, held, minted, memory>>

\* remove_device over such a file: the new devices.json is empty.
RemoveOverUnread(p) ==
  /\ registry # {}
  /\ pc[p] = "left"
  /\ registry' = {}
  /\ Ends(p)
  /\ UNCHANGED <<fabric, label, identity, held, minted>>

\* read_to_string of an identity.json that is there fails.  Every error counts
\* as absence: with an empty registry the fabric is discarded, otherwise bail.
IdentityReadFails(p) ==
  /\ loaded[p] # NoId
  /\ identity # NoId
  /\ \/ /\ Vacant(p)
        /\ pc[p] = "loaded"
        /\ loaded' = [loaded EXCEPT ![p] = NoId]
        /\ fabric' = NoId
        /\ UNCHANGED <<lock, label, identity, registry, held, minted, pc, seen, ident, want, dev>>
     \/ /\ ~Vacant(p)
        /\ Step(p, "loaded", "refused")
        /\ UNCHANGED <<lock, disk, held, minted, memory>>

\* identity.json is read and does not parse: bail, whatever the registry holds.
IdentityParseFails(p) ==
  /\ loaded[p] # NoId
  /\ identity # NoId
  /\ Step(p, "loaded", "refused")
  /\ UNCHANGED <<lock, disk, held, minted, memory>>

\* `status` finds both halves, and cannot read or parse identity.json.
StatusReadFails(p) ==
  /\ Step(p, "sawBoth", "Unreadable")
  /\ UNCHANGED <<lock, disk, held, minted, memory>>

DamagedNext ==
  \/ Next
  \/ \E p \in Procs :
       \/ RegistryReadFails(p) \/ RecordOverUnread(p) \/ RemoveOverUnread(p)
       \/ IdentityReadFails(p) \/ IdentityParseFails(p) \/ StatusReadFails(p)
  \/ LoseFabric \/ LoseIdentity \/ LoseRecords

\* Reads fail and files disappear, at any time.
DamagedSpec == Init /\ [][DamagedNext]_vars

--------------------------------------------------------------------------------
(* Properties.                                                              *)

\* The run under the lock took a devices.json with records for an empty one.
ReadAsEmpty == \E p \in Procs : lock = p /\ seen[p] = "unread"

\* Whatever was lost and whichever reads fail, no run generates an identity while
\* a blob or identity.json is there, and over recorded devices only a run that
\* read their devices.json as empty (the two bails before bootstrap_fabric).
MintOnlyIfSeenEmpty ==
  [][minted' # minted =>
       fabric = NoId /\ identity = NoId /\ (registry = {} \/ ReadAsEmpty)]_vars

\* A run never puts another identity in the place of the RCAC key on disk, in
\* damaged storage either, nor when it reads devices.json as empty ("overwriting
\* the RCAC key would permanently orphan every device commissioned to it",
\* ensure_fabric): identity.json's existence is asked, not its content.
KeyNeverOverwritten == [][identity # NoId => identity' \in {identity, NoId}]_vars

\* While a device is recorded no run that saw the record replaces or removes the
\* fabric blob, even when it cannot read identity.json ("refusing to touch the
\* fabric", ensure_fabric): the blob is lost, or cleared by a run that read
\* devices.json as empty.
SeenRecordsKeepFabric ==
  [][fabric # NoId /\ registry # {} /\ fabric' # fabric =>
       LoseFabric \/ ReadAsEmpty]_vars

(* What the repository's texts say, and load_or_default does not give.       *)

\* "The controller identity is minted once, only over provably empty storage [...];
\* state a device depends on is never overwritten" (README): while a device is
\* recorded no run generates an identity, and the fabric blob changes by being lost.
RecordedNeverAbandoned ==
  [][registry # {} =>
       /\ minted' = minted
       /\ fabric # NoId /\ fabric' # fabric => LoseFabric]_vars
================================================================================
