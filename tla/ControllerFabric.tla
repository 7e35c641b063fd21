--------------------------- MODULE ControllerFabric ----------------------------
(***************************************************************************)
(* The persistent controller identity (src/src/controller/mod.rs): the     *)
(* storage lock, ensure_fabric, the first-run bootstrap, label             *)
(* reconciliation, and the reads of `status`, run by overlapping one-shot  *)
(* processes that may be killed between any two disk writes.               *)
(*                                                                         *)
(* Disk: the fabric blob matter/k_XXXX, identity.json and devices.json,    *)
(* each replaced atomically (see AtomicFile).  An identity is a number;    *)
(* the blob and identity.json belong together when they carry the same     *)
(* one.  The operation run under the lock is kept to the writes that the   *)
(* guardrails of ensure_fabric depend on: a device joining or leaving the  *)
(* fabric, its record, and the rewrite of identity.json.                   *)
(***************************************************************************)
EXTENDS Naturals

CONSTANTS Procs,          \* invocations of the program that may overlap
          Devices,        \* the Matter devices in reach
          Labels,         \* fabric labels an operator may configure
          MaxIdentities,  \* bound: identities minted in a behaviour
          Free            \* the storage lock when nobody holds it

ASSUME FabricAssumption ==
  /\ MaxIdentities \in Nat
  /\ Free \notin Procs    \* the lock's owner is a process or nobody
  /\ Labels # {}

VARIABLES
  lock,       \* holder of the flock on <storagePath>/.lock
  fabric,     \* identity of the fabric in the KV blob, NoId when no blob
  label,      \* label stored in the blob
  identity,   \* identity in identity.json, NoId when no file
  registry,   \* devices recorded in devices.json
  held,       \* held[d]: our fabrics in d's own fabric table
  minted,     \* how many identities were generated so far
  pc,         \* pc[p]: where process p is
  loaded,     \* loaded[p]: fabric in p's Matter state, NoId when none
  seen,       \* seen[p]: what p's load of devices.json made of it
  ident,      \* ident[p]: the Identity in p's Ctx
  want,       \* want[p]: p's configured fabric label
  dev         \* dev[p]: the device p works on, as a set of at most one

disk   == <<fabric, label, identity, registry>>
memory == <<loaded, seen, ident, want, dev>>
vars   == <<lock, disk, held, minted, pc, memory>>

NoId == 0
IdOrNone == 0..MaxIdentities

\* A loaded devices.json: no record, some, or a file that could not be read.
Views == {"empty", "recorded", "unread"}

\* The stages of a run that holds the storage lock.
Setup   == {"locked", "loaded", "persisted"}
Running == {"running", "joined", "recorded", "left"}
Locked  == Setup \cup Running \cup {"refused"}

\* The stages of `status`, which takes no lock.
Probing == {"sawNoIdentity", "sawIdentity", "sawBoth"}
Reports == {"NotCreated", "NoIdentityFile", "NoFabricBlob", "Created", "Unreadable"}

Stages == {"idle", "starting"} \cup Locked \cup Probing \cup Reports

TypeOK ==
  /\ lock \in Procs \cup {Free}
  /\ fabric \in IdOrNone
  /\ label \in Labels
  /\ identity \in IdOrNone
  /\ registry \in SUBSET Devices
  /\ held \in [Devices -> SUBSET IdOrNone]
  /\ minted \in IdOrNone
  /\ pc \in [Procs -> Stages]
  /\ loaded \in [Procs -> IdOrNone]
  /\ seen \in [Procs -> Views]
  /\ ident \in [Procs -> IdOrNone]
  /\ want \in [Procs -> Labels]
  /\ dev \in [Procs -> SUBSET Devices]

Init ==
  /\ lock = Free
  /\ fabric = NoId
  /\ label \in Labels
  /\ identity = NoId
  /\ registry = {}
  /\ held = [d \in Devices |-> {}]
  /\ minted = 0
  /\ pc = [p \in Procs |-> "idle"]
  /\ loaded = [p \in Procs |-> NoId]
  /\ seen = [p \in Procs |-> "empty"]
  /\ ident = [p \in Procs |-> NoId]
  /\ want = [p \in Procs |-> label]
  /\ dev = [p \in Procs |-> {}]

\* load_or_default of a devices.json that can be read.
ViewOf(records) == IF records = {} THEN "empty" ELSE "recorded"

\* registry.nodes.is_empty() in ensure_fabric: a file it could not read or parse
\* is no different from one without a record.
Vacant(p) == seen[p] # "recorded"

Step(p, from, to) ==
  /\ pc[p] = from
  /\ pc' = [pc EXCEPT ![p] = to]

\* The process is gone: its memory is lost and the kernel releases its flock.
Ends(p) ==
  /\ pc' = [pc EXCEPT ![p] = "idle"]
  /\ lock' = IF pc[p] \in Locked THEN Free ELSE lock
  /\ loaded' = [loaded EXCEPT ![p] = NoId]
  /\ seen' = [seen EXCEPT ![p] = "empty"]
  /\ ident' = [ident EXCEPT ![p] = NoId]
  /\ dev' = [dev EXCEPT ![p] = {}]
  /\ UNCHANGED want

--------------------------------------------------------------------------------
(* Starting a run: the command line, then the storage lock.                 *)

\* `commission`: no target, any registry.
StartCommission(p) ==
  /\ Step(p, "idle", "starting")
  /\ dev' = [dev EXCEPT ![p] = {}]
  /\ \E l \in Labels : want' = [want EXCEPT ![p] = l]
  /\ UNCHANGED <<lock, disk, held, minted, loaded, seen, ident>>

\* `decommission`, `sync`, `inspect`: targets come from the registry, which is
\* read here, before the lock is taken.
StartTargeted(p) ==
  /\ Step(p, "idle", "starting")
  /\ \E d \in registry : dev' = [dev EXCEPT ![p] = {d}]
  /\ \E l \in Labels : want' = [want EXCEPT ![p] = l]
  /\ UNCHANGED <<lock, disk, held, minted, loaded, seen, ident>>

\* A lock_storage that never looks at what flock returned.
LockStorage_Unchecked(p) ==
  /\ Step(p, "starting", "locked")
  /\ lock' = p
  /\ UNCHANGED <<disk, held, minted, memory>>

\* lock_storage: flock(LOCK_EX | LOCK_NB), held until the process ends.
LockStorage(p) ==
  /\ lock = Free
  /\ Step(p, "starting", "locked")
  /\ lock' = p
  /\ UNCHANGED <<disk, held, minted, memory>>

\* lock_storage when another instance holds the lock: the run fails at once.
LockBusy(p) ==
  /\ lock # Free
  /\ pc[p] = "starting"
  /\ Ends(p)
  /\ UNCHANGED <<disk, held, minted>>

\* load_persist, then the registry snapshot at the top of ensure_fabric, of files
\* that can be read (load_or_default over one that cannot is in FabricDamage).
LoadState(p) ==
  /\ Step(p, "locked", "loaded")
  /\ loaded' = [loaded EXCEPT ![p] = fabric]
  /\ seen' = [seen EXCEPT ![p] = ViewOf(registry)]
  /\ UNCHANGED <<lock, disk, held, minted, ident, want, dev>>

--------------------------------------------------------------------------------
(* ensure_fabric and bootstrap_fabric.                                      *)

\* The persisted fabric and its identity are both there.  reconcile_label
\* rewrites the blob only when the configured label differs.
UseIdentity(p) ==
  /\ loaded[p] # NoId
  /\ identity # NoId
  /\ Step(p, "loaded", "running")
  /\ ident' = [ident EXCEPT ![p] = identity]
  /\ IF label = want[p]
       THEN UNCHANGED <<fabric, label>>
       ELSE fabric' = loaded[p] /\ label' = want[p]
  /\ UNCHANGED <<lock, identity, registry, held, minted, loaded, seen, want, dev>>

\* A discard that skips the registry check.
DiscardFabric_AnyRegistry(p) ==
  /\ loaded[p] # NoId
  /\ identity = NoId
  /\ pc[p] = "loaded"
  /\ loaded' = [loaded EXCEPT ![p] = NoId]
  /\ fabric' = NoId
  /\ UNCHANGED <<lock, label, identity, registry, held, minted, pc, seen, ident, want, dev>>

\* A blob without identity.json and nobody in the registry: an interrupted
\* first run, dropped from the Matter state and from the KV store.
DiscardFabric(p) ==
  /\ loaded[p] # NoId
  /\ identity = NoId
  /\ Vacant(p)
  /\ pc[p] = "loaded"
  /\ loaded' = [loaded EXCEPT ![p] = NoId]
  /\ fabric' = NoId
  /\ UNCHANGED <<lock, label, identity, registry, held, minted, pc, seen, ident, want, dev>>

\* A blob without identity.json although devices are recorded: bail.
RefuseUnreadable(p) ==
  /\ loaded[p] # NoId
  /\ identity = NoId
  /\ ~Vacant(p)
  /\ Step(p, "loaded", "refused")
  /\ UNCHANGED <<lock, disk, held, minted, memory>>

\* No fabric, but an identity.json or recorded devices: bail.
RefuseRemains(p) ==
  /\ loaded[p] = NoId
  /\ identity # NoId \/ ~Vacant(p)
  /\ Step(p, "loaded", "refused")
  /\ UNCHANGED <<lock, disk, held, minted, memory>>

\* A bootstrap that does not look for the remains of an older identity.
BootstrapFabric_OverRemains(p) ==
  /\ loaded[p] = NoId
  /\ minted < MaxIdentities
  /\ Step(p, "loaded", "persisted")
  /\ minted' = minted + 1
  /\ ident' = [ident EXCEPT ![p] = minted + 1]
  /\ loaded' = [loaded EXCEPT ![p] = minted + 1]
  /\ fabric' = minted + 1
  /\ label' = want[p]
  /\ UNCHANGED <<lock, identity, registry, held, seen, want, dev>>

\* A bootstrap that writes identity.json before the fabric blob: the blob is
\* what StoreIdentity would then have to add.
BootstrapFabric_IdentityFirst(p) ==
  /\ loaded[p] = NoId
  /\ identity = NoId
  /\ Vacant(p)
  /\ minted < MaxIdentities
  /\ Step(p, "loaded", "persisted")
  /\ minted' = minted + 1
  /\ ident' = [ident EXCEPT ![p] = minted + 1]
  /\ loaded' = [loaded EXCEPT ![p] = minted + 1]
  /\ identity' = minted + 1
  /\ UNCHANGED <<lock, fabric, label, registry, held, seen, want, dev>>

\* Virgin storage: generate the identity and the fabric, install the fabric
\* with the configured label and persist its blob (persist_fabric).
BootstrapFabric(p) ==
  /\ loaded[p] = NoId
  /\ identity = NoId
  /\ Vacant(p)
  /\ minted < MaxIdentities
  /\ Step(p, "loaded", "persisted")
  /\ minted' = minted + 1
  /\ ident' = [ident EXCEPT ![p] = minted + 1]
  /\ loaded' = [loaded EXCEPT ![p] = minted + 1]
  /\ fabric' = minted + 1
  /\ label' = want[p]
  /\ UNCHANGED <<lock, identity, registry, held, seen, want, dev>>

\* The last write of bootstrap_fabric: identity.json, after the blob.
StoreIdentity(p) ==
  /\ Step(p, "persisted", "running")
  /\ identity' = ident[p]
  /\ UNCHANGED <<lock, fabric, label, registry, held, minted, memory>>

--------------------------------------------------------------------------------
(* The operation, with the fabric and the identity in hand.                 *)

\* commission: the device accepts a NOC signed with identity.json's key only
\* if that key is the root of the fabric it is offered.
Join(p, d) ==
  /\ dev[p] = {}
  /\ ident[p] = loaded[p]
  /\ loaded[p] \notin held[d]
  /\ Step(p, "running", "joined")
  /\ held' = [held EXCEPT ![d] = @ \cup {loaded[p]}]
  /\ dev' = [dev EXCEPT ![p] = {d}]
  /\ UNCHANGED <<lock, disk, minted, loaded, seen, ident, want>>

\* commission: state::update_device.
RecordDevice(p) ==
  /\ Step(p, "joined", "recorded")
  /\ registry' = registry \cup dev[p]
  /\ UNCHANGED <<lock, fabric, label, identity, held, minted, memory>>

\* commission: identity.json rewritten with the next node id, then exit.
BumpIdentity(p) ==
  /\ pc[p] = "recorded"
  /\ identity' = ident[p]
  /\ Ends(p)
  /\ UNCHANGED <<fabric, label, registry, held, minted>>

\* decommission: the device drops the fabric it is reached over.
Leave(p, d) ==
  /\ dev[p] = {d}
  /\ loaded[p] \in held[d]
  /\ Step(p, "running", "left")
  /\ held' = [held EXCEPT ![d] = @ \ {loaded[p]}]
  /\ UNCHANGED <<lock, disk, minted, memory>>

\* decommission: state::remove_device, then exit.
RemoveRecord(p) ==
  /\ pc[p] = "left"
  /\ registry' = registry \ dev[p]
  /\ Ends(p)
  /\ UNCHANGED <<fabric, label, identity, held, minted>>

\* The process ends: killed, a failed write or exchange returned with `?`, a
\* timeout, or simply done.
Stop(p) ==
  /\ pc[p] # "idle"
  /\ Ends(p)
  /\ UNCHANGED <<disk, held, minted>>

--------------------------------------------------------------------------------
(* `status`: identity_status reads the disk without the lock, in this       *)
(* order: identity.json exists, a k_* blob exists, identity.json parses.    *)

ProbeIdentity(p) ==
  /\ Step(p, "idle", IF identity = NoId THEN "sawNoIdentity" ELSE "sawIdentity")
  /\ UNCHANGED <<lock, disk, held, minted, memory>>

ProbeFabric(p) ==
  /\ \/ Step(p, "sawNoIdentity", IF fabric = NoId THEN "NotCreated" ELSE "NoIdentityFile")
     \/ Step(p, "sawIdentity", IF fabric = NoId THEN "NoFabricBlob" ELSE "sawBoth")
  /\ UNCHANGED <<lock, disk, held, minted, memory>>

ReadIdentity(p) ==
  /\ Step(p, "sawBoth", IF identity = NoId THEN "Unreadable" ELSE "Created")
  /\ UNCHANGED <<lock, disk, held, minted, memory>>

--------------------------------------------------------------------------------
(* Specifications.                                                          *)

Next ==
  \E p \in Procs :
    \/ StartCommission(p) \/ StartTargeted(p)
    \/ LockStorage(p) \/ LockBusy(p) \/ LoadState(p)
    \/ UseIdentity(p) \/ DiscardFabric(p)
    \/ RefuseUnreadable(p) \/ RefuseRemains(p)
    \/ BootstrapFabric(p) \/ StoreIdentity(p)
    \/ RecordDevice(p) \/ BumpIdentity(p) \/ RemoveRecord(p)
    \/ Stop(p)
    \/ ProbeIdentity(p) \/ ProbeFabric(p) \/ ReadIdentity(p)
    \/ \E d \in Devices : Join(p, d) \/ Leave(p, d)

\* Processes overlap and die anywhere; the disk keeps what was written.
Spec == Init /\ [][Next]_vars

--------------------------------------------------------------------------------
(* Properties.                                                              *)

\* "The controller identity is minted once": whatever runs overlap and wherever
\* they are killed, identity.json is never replaced by another identity
\* (ensure_fabric under lock_storage, README "One fabric, ever").
IdentityNeverReplaced == [][identity # NoId => identity' = identity]_vars

\* identity.json is written last, so its RCAC key is always the root of the
\* fabric in the blob (the write order at the end of bootstrap_fabric).
PairMatches == identity # NoId => fabric = identity

\* "State a device depends on is never overwritten": every fabric a device
\* holds for us is the one whose blob and key are on disk.
NoOrphan ==
  \A d \in Devices : \A f \in held[d] : f = identity /\ f = fabric

\* While an operation runs, the fabric it speaks with, the key it signs with
\* and both files are one identity (the Ctx built by `run`): nobody else
\* changes the disk under it.
CtxCoherent ==
  \A p \in Procs : pc[p] \in Running =>
    ident[p] = loaded[p] /\ ident[p] = identity /\ ident[p] = fabric

\* A kill between any two writes never leaves storage that ensure_fabric
\* refuses: the next run either resumes or discards and starts over.
NeverRefused == \A p \in Procs : pc[p] # "refused"

\* `status` reads the files one by one and without the lock, beside a run that
\* is bootstrapping; it never reports an identity whose fabric is missing, nor
\* an identity.json that vanished (identity_status).
StatusNeverAlarms == \A p \in Procs : pc[p] \notin {"NoFabricBlob", "Unreadable"}

\* The inductive invariant: what is on disk, and what each run remembers of it
\* at each stage.
LockExclusive == \A p \in Procs : pc[p] \in Locked => lock = p

HeldByOwner == \A d \in Devices : held[d] \subseteq {identity} \ {NoId}

RecordsNeedIdentity == registry # {} => identity # NoId

StageMemory ==
  \A p \in Procs :
    /\ pc[p] = "loaded" => loaded[p] = fabric /\ seen[p] = ViewOf(registry)
    /\ pc[p] = "persisted" =>
         ident[p] # NoId /\ loaded[p] = ident[p] /\ fabric = ident[p] /\ identity = NoId
    /\ pc[p] \in Running =>
         identity # NoId /\ loaded[p] = identity /\ ident[p] = identity
    /\ pc[p] \in {"sawIdentity", "sawBoth"} => identity # NoId

\* Every stage of every run agrees with the disk it left behind: what a run
\* under the lock has in memory, and which files can be there beside it.
IInv ==
  /\ TypeOK /\ LockExclusive /\ PairMatches /\ HeldByOwner
  /\ RecordsNeedIdentity /\ StageMemory /\ NeverRefused /\ StatusNeverAlarms

\* The identity on disk and the devices' fabric tables behave as OneFabric.
OneFabricOf == INSTANCE OneFabric WITH owner <- identity, members <- held

\* Overlapping, killed runs implement the abstract identity: minted once, and
\* the only fabric that devices ever join or leave.
RefinesOneFabric == OneFabricOf!Spec
================================================================================
