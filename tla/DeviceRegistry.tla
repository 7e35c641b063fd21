---------------------------- MODULE DeviceRegistry -----------------------------
(***************************************************************************)
(* The device registry and the node ids: commission, sync and decommission *)
(* (src/src/controller/ops.rs, with target selection in src/src/main.rs)   *)
(* over devices.json (src/src/state.rs), next_device_node_id in            *)
(* identity.json, and the devices' own fabric tables.  Runs overlap, are   *)
(* killed between any two steps, and lose requests and answers.            *)
(*                                                                         *)
(* The registry is the set of recorded node ids.  Updating it reads the    *)
(* whole file and writes it back, in two steps.  A lost answer is the      *)
(* device's step followed by Fails or Stop of the run that waited for it.  *)
(* `inspect` resolves targets and takes the lock like `sync`, and writes   *)
(* nothing.                                                                *)
(***************************************************************************)
EXTENDS Naturals

CONSTANTS Procs,     \* invocations of the program that may overlap
          Devices,   \* the Matter devices in reach
          MaxNode,   \* bound: node ids handed out in a behaviour
          MayRefuse, \* whether a device may answer RemoveFabric with an error
          Free       \* the storage lock when nobody holds it

ASSUME RegistryAssumption ==
  /\ MaxNode \in Nat \ {0}
  /\ MayRefuse \in BOOLEAN
  /\ Free \notin Procs

VARIABLES
  lock,       \* holder of the flock on <storagePath>/.lock
  nextId,     \* next_device_node_id in identity.json
  registry,   \* node ids recorded in devices.json
  member,     \* member[d]: d's node id in our fabric, NoNode when not a member
  pending,    \* devices whose commissioning fail-safe is still armed
  pc,         \* pc[p]: where run p is
  op,         \* op[p]: its command
  targets,    \* targets[p]: node ids still to be worked on
  node,       \* node[p]: the node id at work
  copy,       \* copy[p]: the registry p has just read
  peer,       \* peer[p]: the device p talks to, as a set of at most one
  assigned,   \* history: node ids some device completed commissioning with
  reported,   \* history: <<device, node id>> of the commissionings reported done
  dropped     \* history: node ids whose record a decommission removed

disk    == <<nextId, registry>>
fleet   == <<member, pending>>
memory  == <<op, targets, node, copy, peer>>
history == <<assigned, reported, dropped>>
vars    == <<lock, disk, fleet, pc, memory, history>>

NoNode == 0
Nodes == 1..MaxNode

Locked == {"locked", "ready", "paired", "completed", "adding", "recorded", "stored",
           "attempting", "contacting", "resulting", "found", "removed", "dropping"}
Stages == {"idle", "starting", "unlocked", "saidSafe", "saidRemaining"} \cup Locked
Ops == {"commission", "sync", "decommission"}

TypeOK ==
  /\ lock \in Procs \cup {Free}
  /\ nextId \in 1..MaxNode + 1
  /\ registry \in SUBSET Nodes
  /\ member \in [Devices -> Nodes \cup {NoNode}]
  /\ pending \in SUBSET Devices
  /\ pc \in [Procs -> Stages]
  /\ op \in [Procs -> Ops]
  /\ targets \in [Procs -> SUBSET Nodes]
  /\ node \in [Procs -> 0..MaxNode + 1]
  /\ copy \in [Procs -> SUBSET Nodes]
  /\ peer \in [Procs -> SUBSET Devices]
  /\ assigned \in SUBSET Nodes
  /\ reported \in SUBSET (Devices \X Nodes)
  /\ dropped \in SUBSET Nodes

Init ==
  /\ lock = Free
  /\ nextId = 1
  /\ registry = {}
  /\ member = [d \in Devices |-> NoNode]
  /\ pending = {}
  /\ pc = [p \in Procs |-> "idle"]
  /\ op = [p \in Procs |-> "commission"]
  /\ targets = [p \in Procs |-> {}]
  /\ node = [p \in Procs |-> NoNode]
  /\ copy = [p \in Procs |-> {}]
  /\ peer = [p \in Procs |-> {}]
  /\ assigned = {}
  /\ reported = {}
  /\ dropped = {}

Step(p, from, to) ==
  /\ pc[p] = from
  /\ pc' = [pc EXCEPT ![p] = to]

\* The process is gone: its memory is lost and the kernel releases its flock.
Ends(p) ==
  /\ pc' = [pc EXCEPT ![p] = "idle"]
  /\ lock' = IF pc[p] \in Locked THEN Free ELSE lock
  /\ op' = [op EXCEPT ![p] = "commission"]
  /\ targets' = [targets EXCEPT ![p] = {}]
  /\ node' = [node EXCEPT ![p] = NoNode]
  /\ copy' = [copy EXCEPT ![p] = {}]
  /\ peer' = [peer EXCEPT ![p] = {}]

\* The first half of update_device and remove_device: read the whole registry.
ReadRegistry(p, from, to) ==
  /\ Step(p, from, to)
  /\ copy' = [copy EXCEPT ![p] = registry]

\* update_device: entry().or_default(), so a missing record is created.
UpdateDevice(p, from, to) ==
  /\ Step(p, from, to)
  /\ registry' = copy[p] \cup {node[p]}
  /\ copy' = [copy EXCEPT ![p] = {}]

\* remove_device: the record of the node at work goes.
RemoveDevice(p, from, to) ==
  /\ Step(p, from, to)
  /\ registry' = copy[p] \ {node[p]}
  /\ copy' = [copy EXCEPT ![p] = {}]

--------------------------------------------------------------------------------
(* Starting a run.                                                          *)

StartCommission(p) ==
  /\ Step(p, "idle", "starting")
  /\ UNCHANGED <<lock, disk, fleet, memory, history>>

\* Target::resolve, before the lock is taken: every recorded node or the one
\* named with --node; an unknown node or an empty registry is an error.
StartTargeted(p) ==
  /\ Step(p, "idle", "starting")
  /\ \E o \in {"sync", "decommission"} : op' = [op EXCEPT ![p] = o]
  /\ \E T \in {registry} \cup {{n} : n \in registry} :
       T # {} /\ targets' = [targets EXCEPT ![p] = T]
  /\ UNCHANGED <<lock, disk, fleet, node, copy, peer, history>>

\* A lock_storage that never looks at what flock returned.
LockStorage_Unchecked(p) ==
  /\ Step(p, "starting", "locked")
  /\ lock' = p
  /\ UNCHANGED <<disk, fleet, memory, history>>

LockStorage(p) ==
  /\ lock = Free
  /\ Step(p, "starting", "locked")
  /\ lock' = p
  /\ UNCHANGED <<disk, fleet, memory, history>>

\* A flock without LOCK_NB: nothing happens while somebody holds the lock.
LockBusy_Waits(p) ==
  /\ FALSE
  /\ pc[p] = "starting"
  /\ Ends(p)
  /\ UNCHANGED <<disk, fleet, history>>

\* Another instance holds the lock: the run fails at once.
LockBusy(p) ==
  /\ lock # Free
  /\ pc[p] = "starting"
  /\ Ends(p)
  /\ UNCHANGED <<disk, fleet, history>>

\* ensure_fabric reads identity.json under the lock; commission takes its node
\* id from it.
LoadIdentity(p) ==
  /\ Step(p, "locked", "ready")
  /\ node' = [node EXCEPT ![p] = IF op[p] = "commission" THEN nextId ELSE NoNode]
  /\ UNCHANGED <<lock, disk, fleet, op, targets, copy, peer, history>>

--------------------------------------------------------------------------------
(* commission (CommissionOp).                                               *)

\* PASE phase: the device takes a NOC for this node id under its fail-safe.  A
\* device that is a member already refuses it (fabric conflict).
Pase(p, d) ==
  /\ op[p] = "commission"
  /\ node[p] \in Nodes
  /\ member[d] = NoNode
  /\ Step(p, "ready", "paired")
  /\ member' = [member EXCEPT ![d] = node[p]]
  /\ pending' = pending \cup {d}
  /\ peer' = [peer EXCEPT ![p] = {d}]
  /\ UNCHANGED <<lock, disk, op, targets, node, copy, history>>

\* CommissioningComplete over CASE: the device disarms its fail-safe.
CompleteViaCase(p) ==
  /\ Step(p, "paired", "completed")
  /\ \A d \in peer[p] : member[d] = node[p]
  /\ pending' = pending \ peer[p]
  /\ assigned' = assigned \cup {node[p]}
  /\ UNCHANGED <<lock, disk, member, memory, reported, dropped>>

\* A commission that records the device as soon as PASE is through.
RecordDevice_BeforeComplete(p) ==
  /\ \/ ReadRegistry(p, "completed", "adding")
     \/ ReadRegistry(p, "paired", "adding")
  /\ UNCHANGED <<lock, disk, fleet, op, targets, node, peer, history>>

\* The device's names are read, best effort, then update_device starts.
RecordDevice(p) ==
  /\ ReadRegistry(p, "completed", "adding")
  /\ UNCHANGED <<lock, disk, fleet, op, targets, node, peer, history>>

WriteDevice(p) ==
  /\ UpdateDevice(p, "adding", "recorded")
  /\ UNCHANGED <<lock, nextId, fleet, op, targets, node, peer, history>>

\* identity.json rewritten without the increment.
StoreIdentity_NotBumped(p) ==
  /\ Step(p, "recorded", "stored")
  /\ nextId' = node[p]
  /\ UNCHANGED <<lock, registry, fleet, memory, history>>

\* identity.json with next_device_node_id + 1, from the copy loaded at start.
StoreIdentity(p) ==
  /\ Step(p, "recorded", "stored")
  /\ nextId' = node[p] + 1
  /\ UNCHANGED <<lock, registry, fleet, memory, history>>

\* The commissioning summary is printed; the run is over.
ReportCommissioned(p) ==
  /\ pc[p] = "stored"
  /\ reported' = reported \cup (peer[p] \X {node[p]})
  /\ Ends(p)
  /\ UNCHANGED <<disk, fleet, assigned, dropped>>

\* browse_commissionable or a with_timeout phase gives up.
CommissionFails(p) ==
  /\ op[p] = "commission"
  /\ pc[p] \in {"ready", "paired"}
  /\ Ends(p)
  /\ UNCHANGED <<disk, fleet, history>>

--------------------------------------------------------------------------------
(* sync (SyncOp): an attempt and a result are written for every target.     *)

\* An attempt recorded before the loop has moved on to its node.
BeginAttempt_StaleNode(p) ==
  /\ op[p] = "sync"
  /\ targets[p] # {}
  /\ ReadRegistry(p, "ready", "attempting")
  /\ UNCHANGED <<lock, disk, fleet, op, targets, node, peer, history>>

BeginAttempt(p) ==
  /\ op[p] = "sync"
  /\ \E n \in targets[p] : node' = [node EXCEPT ![p] = n]
  /\ ReadRegistry(p, "ready", "attempting")
  /\ UNCHANGED <<lock, disk, fleet, op, targets, peer, history>>

WriteAttempt(p) ==
  /\ UpdateDevice(p, "attempting", "contacting")
  /\ UNCHANGED <<lock, nextId, fleet, op, targets, node, peer, history>>

\* sync_one returns, one way or the other (see SyncDevice).
EndSyncOne(p) ==
  /\ ReadRegistry(p, "contacting", "resulting")
  /\ UNCHANGED <<lock, disk, fleet, op, targets, node, peer, history>>

WriteResult(p) ==
  /\ UpdateDevice(p, "resulting", "ready")
  /\ targets' = [targets EXCEPT ![p] = @ \ {node[p]}]
  /\ UNCHANGED <<lock, nextId, fleet, op, node, peer, history>>

FinishSync(p) ==
  /\ op[p] = "sync"
  /\ targets[p] = {}
  /\ pc[p] = "ready"
  /\ Ends(p)
  /\ UNCHANGED <<disk, fleet, history>>

--------------------------------------------------------------------------------
(* decommission (DecommissionOp).                                           *)

\* read_our_fabric_entry over CASE: whoever answers under that node id.
FindEntry(p, d) ==
  /\ op[p] = "decommission"
  /\ member[d] \in targets[p]
  /\ Step(p, "ready", "found")
  /\ node' = [node EXCEPT ![p] = member[d]]
  /\ peer' = [peer EXCEPT ![p] = {d}]
  /\ UNCHANGED <<lock, disk, fleet, op, targets, copy, history>>

\* Unreachable, or no entry of ours: this target failed, on to the next.
FindFails(p) ==
  /\ op[p] = "decommission"
  /\ pc[p] = "ready"
  /\ \E n \in targets[p] : targets' = [targets EXCEPT ![p] = @ \ {n}]
  /\ UNCHANGED <<lock, disk, fleet, pc, op, node, copy, peer, history>>

\* The device executes RemoveFabric.
Removed(p) ==
  /\ member' = [d \in Devices |-> IF d \in peer[p] THEN NoNode ELSE member[d]]
  /\ pending' = pending \ peer[p]

\* An answer arrives.  Its status is logged and not looked at, so a refusal
\* counts as well.
RemoveFabric(p) ==
  /\ Step(p, "found", "removed")
  /\ Removed(p) \/ (MayRefuse /\ UNCHANGED fleet)
  /\ UNCHANGED <<lock, disk, memory, history>>

\* No answer: the target failed, whatever the device did.
RemoveFails(p) ==
  /\ Step(p, "found", "ready")
  /\ Removed(p) \/ UNCHANGED fleet
  /\ targets' = [targets EXCEPT ![p] = @ \ {node[p]}]
  /\ UNCHANGED <<lock, disk, op, node, copy, peer, history>>

DropRecord(p) ==
  /\ ReadRegistry(p, "removed", "dropping")
  /\ UNCHANGED <<lock, disk, fleet, op, targets, node, peer, history>>

WriteDrop(p) ==
  /\ RemoveDevice(p, "dropping", "ready")
  /\ targets' = [targets EXCEPT ![p] = @ \ {node[p]}]
  /\ dropped' = dropped \cup {node[p]}
  /\ UNCHANGED <<lock, nextId, fleet, op, node, peer, assigned, reported>>

\* `run` returns: the lock goes with its guard.
FinishDecommission(p) ==
  /\ op[p] = "decommission"
  /\ targets[p] = {}
  /\ Step(p, "ready", "unlocked")
  /\ lock' = Free
  /\ UNCHANGED <<disk, fleet, memory, history>>

\* The report reads the registry once more, without the lock.
ReadRemaining(p) ==
  /\ Step(p, "unlocked", IF registry = {} THEN "saidSafe" ELSE "saidRemaining")
  /\ UNCHANGED <<lock, disk, fleet, memory, history>>

EndDecommission(p) ==
  /\ pc[p] \in {"saidSafe", "saidRemaining"}
  /\ Ends(p)
  /\ UNCHANGED <<disk, fleet, history>>

--------------------------------------------------------------------------------
(* Kills, and the devices.                                                  *)

\* The process is killed, or a failed write of a state file ends it.
Stop(p) ==
  /\ pc[p] # "idle"
  /\ Ends(p)
  /\ UNCHANGED <<disk, fleet, history>>

\* A device that hears nothing more reverts the half-done commissioning.
ExpireFailSafe(d) ==
  /\ d \in pending
  /\ member' = [member EXCEPT ![d] = NoNode]
  /\ pending' = pending \ {d}
  /\ UNCHANGED <<lock, disk, pc, memory, history>>

\* What a run does once it was started, unless it is killed.
Work(p) ==
  \/ LockStorage(p) \/ LockBusy(p) \/ LoadIdentity(p)
  \/ CompleteViaCase(p) \/ RecordDevice(p) \/ WriteDevice(p)
  \/ StoreIdentity(p) \/ ReportCommissioned(p) \/ CommissionFails(p)
  \/ BeginAttempt(p) \/ WriteAttempt(p) \/ EndSyncOne(p)
  \/ WriteResult(p) \/ FinishSync(p)
  \/ FindFails(p) \/ RemoveFabric(p) \/ RemoveFails(p)
  \/ DropRecord(p) \/ WriteDrop(p) \/ FinishDecommission(p)
  \/ ReadRemaining(p) \/ EndDecommission(p)
  \/ \E d \in Devices : Pase(p, d) \/ FindEntry(p, d)

Next ==
  \/ \E p \in Procs : StartCommission(p) \/ StartTargeted(p) \/ Work(p) \/ Stop(p)
  \/ \E d \in Devices : ExpireFailSafe(d)

Spec == Init /\ [][Next]_vars

--------------------------------------------------------------------------------
(* Properties.                                                              *)

\* Two commissionings that were reported done never share a node id, although a
\* killed run may have handed the id out before (next_device_node_id is stored
\* last, ops.rs).
ReportedIdsDistinct == \A a, b \in reported : a[2] = b[2] => a = b

\* A reported device keeps its record until a decommission drops it: no
\* overlapping run writes back a registry read before (update_device and
\* remove_device under the storage lock).
ReportedKept == \A r \in reported : r[2] \in registry \cup dropped

\* The counter is ahead of every reported id and never behind one that a device
\* or the registry holds.
CounterAhead ==
  /\ \A n \in registry \cup assigned : n <= nextId
  /\ \A r \in reported : r[2] < nextId

\* identity.json is rewritten from the copy loaded at the start of the run, and
\* still never moves the counter back.
CounterNeverBack == [][nextId' >= nextId]_vars

\* Nothing is recorded for a device that did not complete commissioning, not
\* even by a sync whose target is gone.
RecordsAssigned == registry \subseteq assigned

\* The files and the devices' fabric tables behave as NodeLedger.
InUse == {member[d] : d \in Devices} \ {NoNode}

LedgerOf == INSTANCE NodeLedger WITH next <- nextId, used <- InUse, records <- registry

\* Overlapping and killed runs implement the ledger of node ids: a write of
\* devices.json changes one record and loses none, although it rewrites the file
\* from a copy, and an id is used up only with its device and its record in place
\* (update_device, remove_device, the order of the writes in CommissionOp).
RefinesLedger == LedgerOf!Spec

\* No run ever waits for another one, or for a device: whatever the others do and
\* wherever they were killed, a run that was started can go on by itself, if only
\* to fail (LOCK_NB in lock_storage; the browse, commissioning and connect
\* timeouts).
RunsNeverWait == \A p \in Procs : pc[p] # "idle" => ENABLED Work(p)

\* "No devices remain commissioned ... deleting it is now safe" (output.rs:461):
\* when this is said, no device is a member of our fabric.
DeletionSafe ==
  [][\A p \in Procs : pc[p] = "unlocked" /\ pc'[p] = "saidSafe" =>
       \A d \in Devices \ pending : member[d] = NoNode]_vars
================================================================================
