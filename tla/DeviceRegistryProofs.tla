------------------------- MODULE DeviceRegistryProofs --------------------------
(***************************************************************************)
(* What holds of node ids and records for any number of overlapping runs   *)
(* and devices, wherever the runs are killed: the safety properties of     *)
(* DeviceRegistry, from one inductive invariant; that the runs implement   *)
(* NodeLedger; and that every run runs out and never waits.                *)
(***************************************************************************)
EXTENDS DeviceRegistry, TLAPS

Commissioning == {"paired", "completed", "adding", "recorded", "stored"}

\* The owner of the lock is the run that has passed lock_storage.
LockExclusive == \A p \in Procs : pc[p] \in Locked <=> lock = p

\* A run is only ever sent to nodes that were assigned.
TargetsAssigned == \A p \in Procs : targets[p] \subseteq assigned

\* What a run has in memory, against the files, at each of its stages.
Stage(p) ==
  /\ pc[p] = "ready" /\ op[p] = "commission" => node[p] = nextId
  /\ pc[p] \in {"paired", "completed", "adding", "recorded"} => node[p] = nextId
  /\ pc[p] \in Commissioning =>
       node[p] \in Nodes /\ op[p] = "commission" /\ \E d \in Devices : peer[p] = {d}
  /\ pc[p] \in {"completed", "adding", "recorded", "stored"} => node[p] \in assigned
  /\ pc[p] \in {"attempting", "contacting", "resulting"} =>
       node[p] \in assigned /\ op[p] = "sync"
  /\ pc[p] \in {"found", "removed", "dropping"} =>
       node[p] \in assigned /\ op[p] = "decommission"
  /\ pc[p] \in {"adding", "attempting", "resulting", "dropping"} => copy[p] = registry
  /\ pc[p] \in {"recorded", "stored"} => node[p] \in registry
  /\ pc[p] = "stored" => nextId = node[p] + 1 /\ \A r \in reported : r[2] < node[p]

Working == {"attempting", "contacting", "resulting", "found", "removed", "dropping"}

\* The device a run talks to, and the target it works on: once a commissioning is
\* complete the device stays a member under that id until its record is in place.
InHand(p) ==
  /\ pc[p] \in Commissioning \cup {"found", "removed", "dropping"} =>
       \E d \in Devices : peer[p] = {d}
  /\ pc[p] \in {"completed", "adding", "recorded", "stored"} =>
       \A d \in peer[p] : member[d] = node[p] /\ d \notin pending
  /\ pc[p] \in Working => node[p] \in targets[p]

Ids == CounterAhead /\ ReportedIdsDistinct /\ ReportedKept /\ RecordsAssigned

IInv ==
  /\ TypeOK
  /\ LockExclusive
  /\ TargetsAssigned
  /\ Ids
  /\ \A p \in Procs : Stage(p) /\ InHand(p)

--------------------------------------------------------------------------------

\* Nobody has recorded, reported or locked anything at first.
LEMMA Starts == Init => IInv
<1> SUFFICES ASSUME Init PROVE IInv
  OBVIOUS
<1> USE RegistryAssumption
<1>1. TypeOK
  BY DEF Init, TypeOK, Nodes, NoNode, Ops, Stages
<1>2. LockExclusive /\ TargetsAssigned
  BY DEF Init, LockExclusive, TargetsAssigned, Locked
<1>3. Ids
  BY DEF Init, Ids, CounterAhead, ReportedIdsDistinct, ReportedKept, RecordsAssigned
<1>4. \A p \in Procs : Stage(p) /\ InHand(p)
  BY DEF Init, Stage, InHand, Commissioning, Working
<1> QED
  BY <1>1, <1>2, <1>3, <1>4 DEF IInv

\* The lock keeps all but one run out of the stages that touch the files.
LEMMA Alone ==
  ASSUME IInv, NEW p \in Procs, NEW q \in Procs, pc[p] \in Locked, pc[q] \in Locked
  PROVE  p = q
BY DEF IInv, LockExclusive

\* The end of a process leaves its memory typed.
LEMMA EndTyped ==
  ASSUME TypeOK, NEW p \in Procs, Ends(p)
  PROVE  /\ lock' \in Procs \cup {Free}
         /\ pc' \in [Procs -> Stages] /\ op' \in [Procs -> Ops]
         /\ targets' \in [Procs -> SUBSET Nodes] /\ node' \in [Procs -> 0..MaxNode + 1]
         /\ copy' \in [Procs -> SUBSET Nodes] /\ peer' \in [Procs -> SUBSET Devices]
BY RegistryAssumption DEF TypeOK, Ends, Stages, Ops, Nodes, NoNode

\* No step leaves the ranges: a node id is recorded or stored only within the bound.
LEMMA TypeKept == IInv /\ [Next]_vars => TypeOK'
<1> SUFFICES ASSUME IInv, [Next]_vars PROVE TypeOK'
  OBVIOUS
<1>0. /\ TypeOK /\ MaxNode \in Nat \ {0}
      /\ \A p \in Procs : Stage(p) /\ targets[p] \subseteq Nodes
      /\ assigned \subseteq Nodes /\ registry \subseteq Nodes
  BY RegistryAssumption DEF IInv, TypeOK
<1>1. ASSUME NEW p \in Procs, Ends(p), UNCHANGED <<disk, fleet, assigned, dropped>>,
             reported' \in SUBSET (Devices \X Nodes)
      PROVE  TypeOK'
  BY <1>0, <1>1, EndTyped DEF TypeOK, disk, fleet
<1>2. ASSUME NEW p \in Procs,
             LockBusy(p) \/ CommissionFails(p) \/ FinishSync(p) \/ EndDecommission(p) \/ Stop(p)
      PROVE  TypeOK'
  BY <1>0, <1>1, <1>2
     DEF LockBusy, CommissionFails, FinishSync, EndDecommission, Stop, TypeOK, history
<1>3. ASSUME NEW p \in Procs, ReportCommissioned(p) PROVE TypeOK'
  <2>1. node[p] \in Nodes /\ peer[p] \subseteq Devices
    BY <1>0, <1>3 DEF ReportCommissioned, Stage, Commissioning, TypeOK
  <2>2. reported' \in SUBSET (Devices \X Nodes)
    BY <1>0, <1>3, <2>1 DEF ReportCommissioned, TypeOK
  <2> QED
    BY <1>1, <1>3, <2>2 DEF ReportCommissioned
<1> USE DEF TypeOK, Stages, Locked, Ops
<1>4. ASSUME NEW p \in Procs, StartCommission(p) \/ LockStorage(p) \/ ReadRemaining(p)
                                \/ FinishDecommission(p)
      PROVE  TypeOK'
  BY <1>0, <1>4 DEF StartCommission, LockStorage, ReadRemaining, FinishDecommission, Step,
     disk, fleet, memory, history
<1>5. ASSUME NEW p \in Procs, StartTargeted(p) PROVE TypeOK'
  <2>1. targets' \in [Procs -> SUBSET Nodes]
    BY <1>0, <1>5 DEF StartTargeted
  <2> QED
    BY <1>0, <1>5, <2>1 DEF StartTargeted, Step, disk, fleet, history
<1>6. ASSUME NEW p \in Procs, LoadIdentity(p) PROVE TypeOK'
  <2>1. nextId \in 0..MaxNode + 1 /\ NoNode \in 0..MaxNode + 1
    BY <1>0 DEF NoNode
  <2> QED
    BY <1>0, <1>6, <2>1 DEF LoadIdentity, Step, disk, fleet, history
<1>7. ASSUME NEW p \in Procs, NEW d \in Devices, Pase(p, d) PROVE TypeOK'
  BY <1>0, <1>7 DEF Pase, Step, disk, history
<1>8. ASSUME NEW p \in Procs, NEW d \in Devices, FindEntry(p, d) PROVE TypeOK'
  <2>1. member[d] \in 0..MaxNode + 1
    BY <1>0, <1>8 DEF FindEntry, Nodes
  <2> QED
    BY <1>0, <1>8, <2>1 DEF FindEntry, Step, disk, fleet, history
<1>9. ASSUME NEW p \in Procs, CompleteViaCase(p) PROVE TypeOK'
  <2>1. node[p] \in Nodes
    BY <1>0, <1>9 DEF CompleteViaCase, Step, Stage, Commissioning
  <2> QED
    BY <1>0, <1>9, <2>1 DEF CompleteViaCase, Step, disk, memory
<1>10. ASSUME NEW p \in Procs, RecordDevice(p) \/ EndSyncOne(p) \/ DropRecord(p) PROVE TypeOK'
  BY <1>0, <1>10 DEF RecordDevice, EndSyncOne, DropRecord, ReadRegistry, Step, disk, fleet,
     history
<1>11. ASSUME NEW p \in Procs, BeginAttempt(p) PROVE TypeOK'
  <2>1. PICK n \in targets[p] : node' = [node EXCEPT ![p] = n]
    BY <1>11 DEF BeginAttempt
  <2>2. n \in 0..MaxNode + 1
    BY <1>0, <2>1 DEF Nodes
  <2> QED
    BY <1>0, <1>11, <2>1, <2>2 DEF BeginAttempt, ReadRegistry, Step, disk, fleet, history
<1>12. ASSUME NEW p \in Procs, WriteDevice(p) \/ WriteAttempt(p) \/ WriteResult(p)
       PROVE  TypeOK'
  <2>1. node[p] \in Nodes
    BY <1>0, <1>12 DEF WriteDevice, WriteAttempt, WriteResult, UpdateDevice, Step, Stage,
       Commissioning
  <2>2. registry' \in SUBSET Nodes /\ copy' \in [Procs -> SUBSET Nodes]
    BY <1>0, <1>12, <2>1 DEF WriteDevice, WriteAttempt, WriteResult, UpdateDevice
  <2>3. targets' \in [Procs -> SUBSET Nodes]
    BY <1>0, <1>12 DEF WriteDevice, WriteAttempt, WriteResult
  <2> QED
    BY <1>0, <1>12, <2>2, <2>3 DEF WriteDevice, WriteAttempt, WriteResult, UpdateDevice, Step,
       fleet, history
<1>13. ASSUME NEW p \in Procs, WriteDrop(p) PROVE TypeOK'
  <2>1. targets' \in [Procs -> SUBSET Nodes] /\ registry' \in SUBSET Nodes
    BY <1>0, <1>13 DEF WriteDrop, RemoveDevice
  <2>2. dropped' \in SUBSET Nodes
    BY <1>0, <1>13 DEF WriteDrop, RemoveDevice, Step, Stage
  <2> QED
    BY <1>0, <1>13, <2>1, <2>2 DEF WriteDrop, RemoveDevice, Step, fleet
<1>14. ASSUME NEW p \in Procs, StoreIdentity(p) PROVE TypeOK'
  <2>1. node[p] \in Nodes
    BY <1>0, <1>14 DEF StoreIdentity, Step, Stage, Commissioning
  <2>2. nextId' \in 1..MaxNode + 1
    BY <1>0, <1>14, <2>1 DEF StoreIdentity, Nodes
  <2> QED
    BY <1>0, <1>14, <2>2 DEF StoreIdentity, Step, fleet, memory, history
<1>15. ASSUME NEW p \in Procs, FindFails(p) PROVE TypeOK'
  BY <1>0, <1>15 DEF FindFails, disk, fleet, history
<1>16. ASSUME NEW p \in Procs, RemoveFabric(p) PROVE TypeOK'
  BY <1>0, <1>16 DEF RemoveFabric, Removed, Step, disk, fleet, memory, history
<1>17. ASSUME NEW p \in Procs, RemoveFails(p) PROVE TypeOK'
  BY <1>0, <1>17 DEF RemoveFails, Removed, Step, disk, fleet, history
<1>18. ASSUME NEW d \in Devices, ExpireFailSafe(d) PROVE TypeOK'
  BY <1>0, <1>18 DEF ExpireFailSafe, disk, memory, history
<1>19. ASSUME UNCHANGED vars PROVE TypeOK'
  BY <1>0, <1>19 DEF vars, disk, fleet, memory, history
<1> QED
  BY <1>2, <1>3, <1>4, <1>5, <1>6, <1>7, <1>8, <1>9, <1>10, <1>11, <1>12, <1>13, <1>14,
     <1>15, <1>16, <1>17, <1>18, <1>19 DEF Next, Work

--------------------------------------------------------------------------------
(* A run touches its own memory, and the files only under the lock.         *)

\* A step of run p.
Moves(p) == StartCommission(p) \/ StartTargeted(p) \/ Work(p) \/ Stop(p)

\* Nothing a run does reaches the memory of another one.
LEMMA OthersKeep ==
  ASSUME TypeOK, NEW p \in Procs, Moves(p), NEW q \in Procs, q # p
  PROVE  /\ pc'[q] = pc[q] /\ op'[q] = op[q] /\ targets'[q] = targets[q]
         /\ node'[q] = node[q] /\ copy'[q] = copy[q] /\ peer'[q] = peer[q]
<1> USE DEF TypeOK, memory
<1>1. CASE Ends(p)
  BY <1>1 DEF Ends
<1>2. CASE StartCommission(p) \/ StartTargeted(p) \/ LockStorage(p) \/ LoadIdentity(p)
  BY <1>2 DEF StartCommission, StartTargeted, LockStorage, LoadIdentity, Step
<1>3. CASE CompleteViaCase(p) \/ RecordDevice(p) \/ WriteDevice(p) \/ StoreIdentity(p)
  BY <1>3 DEF CompleteViaCase, RecordDevice, WriteDevice, StoreIdentity, ReadRegistry,
     UpdateDevice, Step
<1>4. CASE BeginAttempt(p) \/ WriteAttempt(p) \/ EndSyncOne(p) \/ WriteResult(p)
  BY <1>4 DEF BeginAttempt, WriteAttempt, EndSyncOne, WriteResult, ReadRegistry, UpdateDevice,
     Step
<1>5. CASE FindFails(p) \/ RemoveFabric(p) \/ RemoveFails(p) \/ DropRecord(p) \/ WriteDrop(p)
  BY <1>5 DEF FindFails, RemoveFabric, RemoveFails, DropRecord, WriteDrop, ReadRegistry,
     RemoveDevice, Step
<1>6. CASE FinishDecommission(p) \/ ReadRemaining(p)
  BY <1>6 DEF FinishDecommission, ReadRemaining, Step
<1>7. CASE \E d \in Devices : Pase(p, d) \/ FindEntry(p, d)
  BY <1>7 DEF Pase, FindEntry, Step
<1> QED
  BY <1>1, <1>2, <1>3, <1>4, <1>5, <1>6, <1>7
     DEF Moves, Work, Stop, LockBusy, ReportCommissioned, CommissionFails, FinishSync,
     EndDecommission

\* Whoever writes a file or reports a device holds the lock.
LEMMA FilesUnderLock ==
  ASSUME NEW p \in Procs, Moves(p), pc[p] \notin Locked
  PROVE  UNCHANGED <<nextId, registry, reported>>
BY DEF Moves, Work, Locked, Step, disk, history, StartCommission, StartTargeted, LockStorage,
   LockBusy, LoadIdentity, CompleteViaCase, RecordDevice, WriteDevice, StoreIdentity,
   ReportCommissioned, CommissionFails, BeginAttempt, WriteAttempt, EndSyncOne, WriteResult,
   FinishSync, FindFails, RemoveFabric, RemoveFails, DropRecord, WriteDrop,
   FinishDecommission, ReadRemaining, EndDecommission, Stop, Pase, FindEntry, ReadRegistry,
   UpdateDevice, RemoveDevice

\* What a device completed commissioning with stays on the list.
LEMMA AssignedGrows == [Next]_vars => assigned \subseteq assigned'
BY DEF Next, Work, history, vars, StartCommission, StartTargeted, LockStorage,
   LockBusy, LoadIdentity, CompleteViaCase, RecordDevice, WriteDevice, StoreIdentity,
   ReportCommissioned, CommissionFails, BeginAttempt, WriteAttempt, EndSyncOne, WriteResult,
   FinishSync, FindFails, RemoveFabric, RemoveFails, DropRecord, WriteDrop,
   FinishDecommission, ReadRemaining, EndDecommission, Stop, Pase, FindEntry, ExpireFailSafe

\* Another run's view survives: it holds the lock, or nothing in it is about files.
LEMMA OthersStage ==
  ASSUME IInv, NEW p \in Procs, Moves(p), assigned \subseteq assigned',
         NEW q \in Procs, q # p
  PROVE  Stage(q)'
<1>1. TypeOK /\ Stage(q)
  BY DEF IInv
<1>2. /\ pc'[q] = pc[q] /\ op'[q] = op[q]
      /\ node'[q] = node[q] /\ copy'[q] = copy[q] /\ peer'[q] = peer[q]
  BY <1>1, OthersKeep
<1>3. pc[q] \in Locked => UNCHANGED <<nextId, registry, reported>>
  BY Alone, FilesUnderLock
<1>4. CASE pc[q] \notin Locked
  BY <1>2, <1>4 DEF Stage, Locked, Commissioning
<1>5. CASE UNCHANGED <<nextId, registry, reported>>
  BY <1>1, <1>2, <1>5 DEF Stage
<1> QED
  BY <1>3, <1>4, <1>5

--------------------------------------------------------------------------------
(* The parts of the invariant.                                              *)

\* A run gives up its own lock only, and takes it only when it is free.
LEMMA ExclusiveKept == IInv /\ [Next]_vars => LockExclusive'
<1> DEFINE Onward(p) ==
      /\ lock' = lock
      /\ \E to \in Stages :
           pc' = [pc EXCEPT ![p] = to] /\ (to \in Locked <=> pc[p] \in Locked)
<1> SUFFICES ASSUME IInv, [Next]_vars PROVE LockExclusive'
  OBVIOUS
<1>0. /\ pc \in [Procs -> Stages] /\ Free \notin Procs
      /\ \A p \in Procs : pc[p] \in Locked <=> lock = p
  BY RegistryAssumption DEF IInv, TypeOK, LockExclusive
<1>1. ASSUME NEW p \in Procs, Ends(p) PROVE LockExclusive'
  <2>1. pc' = [pc EXCEPT ![p] = "idle"] /\ lock' = IF pc[p] \in Locked THEN Free ELSE lock
    BY <1>1 DEF Ends
  <2>2. pc'[p] \notin Locked /\ lock' # p
    BY <1>0, <2>1 DEF Locked
  <2>3. ASSUME NEW q \in Procs, q # p PROVE pc'[q] \in Locked <=> lock' = q
    BY <1>0, <2>1, <2>3
  <2> QED
    BY <2>2, <2>3 DEF LockExclusive
<1>2. ASSUME NEW p \in Procs, LockStorage(p) PROVE LockExclusive'
  BY <1>0, <1>2 DEF LockStorage, Step, LockExclusive, Locked
<1>3. ASSUME NEW p \in Procs, FinishDecommission(p) PROVE LockExclusive'
  BY <1>0, <1>3 DEF FinishDecommission, Step, LockExclusive, Locked
<1>4. ASSUME NEW p \in Procs, lock' = lock, pc'[p] \in Locked <=> pc[p] \in Locked,
             \A q \in Procs : q # p => pc'[q] = pc[q]
      PROVE  LockExclusive'
  BY <1>0, <1>4 DEF LockExclusive
<1>5. ASSUME NEW p \in Procs, StartCommission(p) \/ StartTargeted(p) \/ LoadIdentity(p)
                                \/ CompleteViaCase(p) \/ RecordDevice(p) \/ WriteDevice(p)
                                \/ StoreIdentity(p) \/ ReadRemaining(p)
      PROVE  LockExclusive'
  <2>1. Onward(p)
    BY <1>5 DEF StartCommission, StartTargeted, LoadIdentity, CompleteViaCase, RecordDevice,
       WriteDevice, StoreIdentity, ReadRemaining, ReadRegistry, UpdateDevice, Step, Stages,
       Locked
  <2> QED
    BY <1>0, <1>4, <2>1
<1>6. ASSUME NEW p \in Procs, BeginAttempt(p) \/ WriteAttempt(p) \/ EndSyncOne(p)
                                \/ WriteResult(p) \/ RemoveFabric(p) \/ RemoveFails(p)
                                \/ DropRecord(p) \/ WriteDrop(p)
      PROVE  LockExclusive'
  <2>1. Onward(p)
    BY <1>6 DEF BeginAttempt, WriteAttempt, EndSyncOne, WriteResult, RemoveFabric, RemoveFails,
       DropRecord, WriteDrop, ReadRegistry, UpdateDevice, RemoveDevice, Step, Stages, Locked
  <2> QED
    BY <1>0, <1>4, <2>1
<1>7. ASSUME NEW p \in Procs, \E d \in Devices : Pase(p, d) \/ FindEntry(p, d)
      PROVE  LockExclusive'
  <2>1. Onward(p)
    BY <1>7 DEF Pase, FindEntry, Step, Stages, Locked
  <2> QED
    BY <1>0, <1>4, <2>1
<1>8. CASE UNCHANGED <<lock, pc>>
  BY <1>0, <1>8 DEF LockExclusive
<1> QED
  BY <1>1, <1>2, <1>3, <1>5, <1>6, <1>7, <1>8
     DEF Next, Work, vars, LockBusy, ReportCommissioned, CommissionFails, FinishSync,
     EndDecommission, Stop, FindFails, ExpireFailSafe

\* Targets are chosen among the records, which are of assigned nodes, and only worked off.
LEMMA TargetsKept == IInv /\ [Next]_vars => TargetsAssigned'
<1> SUFFICES ASSUME IInv, [Next]_vars PROVE TargetsAssigned'
  OBVIOUS
<1>0. /\ TypeOK /\ registry \subseteq assigned /\ assigned \subseteq assigned'
      /\ \A q \in Procs : targets[q] \subseteq assigned
  BY AssignedGrows DEF IInv, Ids, RecordsAssigned, TargetsAssigned
<1>1. ASSUME NEW p \in Procs, Moves(p) PROVE TargetsAssigned'
  <2>1. targets'[p] \subseteq targets[p] \cup registry
    BY <1>0, <1>1 DEF TypeOK, Moves, Work, memory, Ends, StartCommission, StartTargeted,
       LockStorage, LockBusy, LoadIdentity, CompleteViaCase, RecordDevice, WriteDevice,
       StoreIdentity, ReportCommissioned, CommissionFails, BeginAttempt, WriteAttempt,
       EndSyncOne, WriteResult, FinishSync, FindFails, RemoveFabric, RemoveFails, DropRecord,
       WriteDrop, FinishDecommission, ReadRemaining, EndDecommission, Stop, Pase, FindEntry
  <2>2. \A q \in Procs \ {p} : targets'[q] = targets[q]
    BY <1>0, <1>1, OthersKeep
  <2> QED
    BY <1>0, <2>1, <2>2 DEF TargetsAssigned
<1>2. CASE UNCHANGED targets
  BY <1>0, <1>2 DEF TargetsAssigned
<1> QED
  BY <1>1, <1>2 DEF Next, Moves, ExpireFailSafe, vars, memory

\* Ids are given out one after the other by whoever holds the lock, and a record goes
\* only when it is dropped.
LEMMA IdsKept == IInv /\ [Next]_vars => Ids'
<1> SUFFICES ASSUME IInv, [Next]_vars PROVE Ids'
  OBVIOUS
<1>0. /\ TypeOK /\ Ids /\ MaxNode \in Nat /\ nextId \in Nat
      /\ \A n \in Nodes : n \in Nat
      /\ registry \subseteq Nodes /\ assigned \subseteq Nodes
      /\ \A r \in reported : r \in Devices \X Nodes /\ r[2] \in Nodes
  BY RegistryAssumption DEF IInv, TypeOK, Nodes
<1>a. \A p \in Procs : Stage(p)
  BY DEF IInv
<1> USE DEF Ids, CounterAhead, ReportedIdsDistinct, ReportedKept, RecordsAssigned
<1>1. CASE UNCHANGED <<nextId, registry, assigned, reported, dropped>>
  BY <1>0, <1>1
<1>2. ASSUME NEW p \in Procs, CompleteViaCase(p) PROVE Ids'
  <2>1. node[p] = nextId /\ assigned' = assigned \cup {node[p]}
    BY <1>2, <1>a DEF CompleteViaCase, Step, Stage
  <2>2. UNCHANGED <<nextId, registry, reported, dropped>>
    BY <1>2 DEF CompleteViaCase, disk
  <2> QED
    BY <1>0, <2>1, <2>2
<1>3. ASSUME NEW p \in Procs, WriteDevice(p) \/ WriteAttempt(p) \/ WriteResult(p)
      PROVE  Ids'
  <2>1. node[p] \in assigned /\ copy[p] = registry
    BY <1>3, <1>a DEF WriteDevice, WriteAttempt, WriteResult, UpdateDevice, Step, Stage
  <2>2. registry' = registry \cup {node[p]}
    BY <1>3, <2>1 DEF WriteDevice, WriteAttempt, WriteResult, UpdateDevice
  <2>3. UNCHANGED <<nextId, assigned, reported, dropped>>
    BY <1>3 DEF WriteDevice, WriteAttempt, WriteResult, history
  <2> QED
    BY <1>0, <2>1, <2>2, <2>3
<1>4. ASSUME NEW p \in Procs, StoreIdentity(p) PROVE Ids'
  <2>1. node[p] = nextId /\ nextId' = nextId + 1
    BY <1>4, <1>a DEF StoreIdentity, Step, Stage
  <2>2. UNCHANGED <<registry, assigned, reported, dropped>>
    BY <1>4 DEF StoreIdentity, history
  <2>3. \A n \in Nodes : (n <= nextId => n <= nextId + 1) /\ (n < nextId => n < nextId + 1)
    BY <1>0
  <2> QED
    BY <1>0, <2>1, <2>2, <2>3
<1>5. ASSUME NEW p \in Procs, ReportCommissioned(p) PROVE Ids'
  <2>1. PICK d \in Devices : peer[p] = {d}
    BY <1>5, <1>a DEF ReportCommissioned, Stage, Commissioning
  <2>2. /\ node[p] \in registry /\ nextId = node[p] + 1
        /\ \A r \in reported : r[2] < node[p]
    BY <1>5, <1>a DEF ReportCommissioned, Stage
  <2>3. /\ reported' = reported \cup {<<d, node[p]>>}
        /\ UNCHANGED <<nextId, registry, assigned, dropped>>
    BY <1>5, <2>1 DEF ReportCommissioned, disk
  <2>4. node[p] < nextId
    BY <1>0, <2>2
  <2>5. ReportedIdsDistinct'
    BY <1>0, <2>2, <2>3
  <2> QED
    BY <1>0, <2>2, <2>3, <2>4, <2>5
<1>6. ASSUME NEW p \in Procs, WriteDrop(p) PROVE Ids'
  <2>1. copy[p] = registry
    BY <1>6, <1>a DEF WriteDrop, RemoveDevice, Step, Stage
  <2>2. registry' = registry \ {node[p]} /\ dropped' = dropped \cup {node[p]}
    BY <1>6, <2>1 DEF WriteDrop, RemoveDevice
  <2>3. UNCHANGED <<nextId, assigned, reported>>
    BY <1>6 DEF WriteDrop
  <2> QED
    BY <1>0, <2>2, <2>3
<1> QED
  BY <1>1, <1>2, <1>3, <1>4, <1>5, <1>6
     DEF Next, Work, vars, disk, history, StartCommission, StartTargeted, LockStorage,
     LockBusy, LoadIdentity, RecordDevice, CommissionFails, BeginAttempt, EndSyncOne,
     FinishSync, FindFails, RemoveFabric, RemoveFails, DropRecord, FinishDecommission,
     ReadRemaining, EndDecommission, Stop, Pase, FindEntry, ExpireFailSafe

\* A step leaves the run that takes it with a view that is still true.
LEMMA OwnStage ==
  ASSUME IInv, NEW p \in Procs, Moves(p), TargetsAssigned', assigned \subseteq assigned'
  PROVE  Stage(p)'
<1>0. /\ TypeOK /\ Stage(p) /\ Ids /\ targets[p] \subseteq assigned
  BY DEF IInv, TargetsAssigned
<1> USE DEF Commissioning
<1>1. CASE Ends(p)
  BY <1>0, <1>1 DEF Ends, Stage, TypeOK
<1>2. CASE StartCommission(p) \/ StartTargeted(p) \/ LockStorage(p) \/ FinishDecommission(p)
             \/ ReadRemaining(p)
  BY <1>0, <1>2 DEF StartCommission, StartTargeted, LockStorage, FinishDecommission,
     ReadRemaining, Step, Stage, TypeOK
<1>3. CASE LoadIdentity(p)
  BY <1>0, <1>3 DEF LoadIdentity, Step, Stage, TypeOK, disk
<1>4. CASE \E d \in Devices : Pase(p, d)
  BY <1>0, <1>4 DEF Pase, Step, Stage, TypeOK, disk
<1>5. CASE \E d \in Devices : FindEntry(p, d)
  BY <1>0, <1>5 DEF FindEntry, Step, Stage, TypeOK, history
<1>6. CASE CompleteViaCase(p)
  BY <1>0, <1>6 DEF CompleteViaCase, Step, Stage, TypeOK, disk, memory
<1>7. CASE RecordDevice(p) \/ EndSyncOne(p) \/ DropRecord(p)
  BY <1>0, <1>7 DEF RecordDevice, EndSyncOne, DropRecord, ReadRegistry, Step, Stage, TypeOK,
     disk, history
<1>8. CASE BeginAttempt(p)
  BY <1>0, <1>8 DEF BeginAttempt, ReadRegistry, Step, Stage, TypeOK, disk, history
<1>9. CASE WriteDevice(p) \/ WriteAttempt(p) \/ WriteResult(p)
  BY <1>0, <1>9 DEF WriteDevice, WriteAttempt, WriteResult, UpdateDevice, Step, Stage, TypeOK,
     history
<1>10. CASE StoreIdentity(p)
  BY <1>0, <1>10 DEF StoreIdentity, Step, Stage, TypeOK, memory, history, Ids, CounterAhead
<1>11. CASE FindFails(p) \/ RemoveFabric(p) \/ RemoveFails(p) \/ WriteDrop(p)
  BY <1>0, <1>11 DEF FindFails, RemoveFabric, RemoveFails, WriteDrop, RemoveDevice, Step,
     Stage, TypeOK, disk, memory, history
<1> QED
  BY <1>1, <1>2, <1>3, <1>4, <1>5, <1>6, <1>7, <1>8, <1>9, <1>10, <1>11
     DEF Moves, Work, Stop, LockBusy, ReportCommissioned, CommissionFails, FinishSync,
     EndDecommission

\* Every run's view stays true, whoever moves.
LEMMA StagesKept == IInv /\ [Next]_vars => \A q \in Procs : Stage(q)'
<1> SUFFICES ASSUME IInv, [Next]_vars, NEW q \in Procs PROVE Stage(q)'
  OBVIOUS
<1>1. TargetsAssigned' /\ assigned \subseteq assigned'
  BY TargetsKept, AssignedGrows
<1>2. ASSUME NEW p \in Procs, Moves(p) PROVE Stage(q)'
  BY <1>1, <1>2, OwnStage, OthersStage
<1>3. CASE UNCHANGED <<disk, pc, memory, history>>
  BY <1>3 DEF IInv, Stage, disk, memory, history
<1> QED
  BY <1>2, <1>3 DEF Next, Moves, ExpireFailSafe, vars

\* A device joins or leaves only at the hands of the run that holds the lock.
LEMMA FleetUnderLock ==
  ASSUME NEW p \in Procs, Moves(p), pc[p] \notin Locked
  PROVE  UNCHANGED <<member, pending>>
BY DEF Moves, Work, Locked, Step, fleet, StartCommission, StartTargeted, LockStorage,
   LockBusy, LoadIdentity, CompleteViaCase, RecordDevice, WriteDevice, StoreIdentity,
   ReportCommissioned, CommissionFails, BeginAttempt, WriteAttempt, EndSyncOne, WriteResult,
   FinishSync, FindFails, RemoveFabric, RemoveFails, DropRecord, WriteDrop,
   FinishDecommission, ReadRemaining, EndDecommission, Stop, Pase, FindEntry, ReadRegistry,
   UpdateDevice, RemoveDevice

\* What a run has in hand is not touched by another one.
LEMMA OthersInHand ==
  ASSUME IInv, NEW p \in Procs, Moves(p), NEW q \in Procs, q # p
  PROVE  InHand(q)'
<1>1. TypeOK /\ InHand(q)
  BY DEF IInv
<1>2. /\ pc'[q] = pc[q] /\ targets'[q] = targets[q]
      /\ node'[q] = node[q] /\ peer'[q] = peer[q]
  BY <1>1, OthersKeep
<1>3. pc[q] \in Locked => UNCHANGED <<member, pending>>
  BY Alone, FleetUnderLock
<1>4. CASE pc[q] \notin Locked
  BY <1>2, <1>4 DEF InHand, Locked, Commissioning, Working
<1>5. CASE UNCHANGED <<member, pending>>
  BY <1>1, <1>2, <1>5 DEF InHand
<1> QED
  BY <1>3, <1>4, <1>5

\* A step keeps the device and the target that the run has in hand.
LEMMA OwnInHand ==
  ASSUME IInv, NEW p \in Procs, Moves(p)
  PROVE  InHand(p)'
<1>0. TypeOK /\ Stage(p) /\ InHand(p)
  BY DEF IInv
<1> USE DEF Commissioning, Working, InHand, TypeOK, fleet, memory
<1>1. CASE Ends(p)
  BY <1>0, <1>1 DEF Ends
<1>2. CASE StartCommission(p) \/ StartTargeted(p) \/ LockStorage(p) \/ LoadIdentity(p)
             \/ FinishDecommission(p) \/ ReadRemaining(p)
  BY <1>0, <1>2 DEF StartCommission, StartTargeted, LockStorage, LoadIdentity,
     FinishDecommission, ReadRemaining, Step
<1>3. CASE \E d \in Devices : Pase(p, d) \/ FindEntry(p, d)
  BY <1>0, <1>3 DEF Pase, FindEntry, Step
<1>4. CASE CompleteViaCase(p)
  BY <1>0, <1>4 DEF CompleteViaCase, Step
<1>5. CASE RecordDevice(p) \/ EndSyncOne(p) \/ DropRecord(p) \/ BeginAttempt(p)
  BY <1>0, <1>5 DEF RecordDevice, EndSyncOne, DropRecord, BeginAttempt, ReadRegistry, Step
<1>6. CASE WriteDevice(p) \/ WriteAttempt(p) \/ WriteResult(p) \/ StoreIdentity(p)
  BY <1>0, <1>6 DEF WriteDevice, WriteAttempt, WriteResult, StoreIdentity, UpdateDevice, Step
<1>7. CASE FindFails(p) \/ RemoveFabric(p) \/ RemoveFails(p) \/ WriteDrop(p)
  BY <1>0, <1>7 DEF FindFails, RemoveFabric, RemoveFails, WriteDrop, RemoveDevice, Step
<1> QED
  BY <1>1, <1>2, <1>3, <1>4, <1>5, <1>6, <1>7
     DEF Moves, Work, Stop, LockBusy, ReportCommissioned, CommissionFails, FinishSync,
     EndDecommission

\* A fail-safe that expires takes no device from a run that has completed with it.
LEMMA ExpiryInHand ==
  ASSUME IInv, NEW d \in Devices, ExpireFailSafe(d), NEW q \in Procs
  PROVE  InHand(q)'
<1>1. TypeOK /\ InHand(q)
  BY DEF IInv
<1> QED
  BY <1>1 DEF ExpireFailSafe, InHand, TypeOK, memory

LEMMA InHandKept == IInv /\ [Next]_vars => \A q \in Procs : InHand(q)'
<1> SUFFICES ASSUME IInv, [Next]_vars, NEW q \in Procs PROVE InHand(q)'
  OBVIOUS
<1>1. ASSUME NEW p \in Procs, Moves(p) PROVE InHand(q)'
  BY <1>1, OwnInHand, OthersInHand
<1>2. CASE UNCHANGED vars
  BY <1>2 DEF IInv, InHand, vars, fleet, memory
<1> QED
  BY <1>1, <1>2, ExpiryInHand DEF Next, Moves

\* The invariant is inductive.
LEMMA Inductive == IInv /\ [Next]_vars => IInv'
BY TypeKept, ExclusiveKept, TargetsKept, IdsKept, StagesKept, InHandKept DEF IInv

LEMMA Invariant == Spec => []IInv
<1>1. Init => IInv
  BY Starts
<1>2. IInv /\ [Next]_vars => IInv'
  BY Inductive
<1> QED
  BY <1>1, <1>2, PTL DEF Spec

--------------------------------------------------------------------------------
(* The theorems.                                                            *)

\* All variables stay in their ranges; no id past the counter is recorded or given out.
THEOREM TypeCorrect == Spec => []TypeOK
<1>1. IInv => TypeOK
  BY DEF IInv
<1> QED
  BY <1>1, Invariant, PTL

\* No two commissionings reported done share a node id, for any number of overlapping
\* and killed runs: the id loaded at the start is still the counter when it is stored,
\* because the lock is held from one to the other.
THEOREM NodeIdsUnique == Spec => []ReportedIdsDistinct
<1>1. IInv => ReportedIdsDistinct
  BY DEF IInv, Ids
<1> QED
  BY <1>1, Invariant, PTL

\* No run writes back a registry read before another one's update: a reported device
\* keeps its record until a decommission drops it.
THEOREM NoRecordLost == Spec => []ReportedKept
<1>1. IInv => ReportedKept
  BY DEF IInv, Ids
<1> QED
  BY <1>1, Invariant, PTL

\* next_device_node_id is ahead of every reported id, wherever runs were killed.
THEOREM CounterIsAhead == Spec => []CounterAhead
<1>1. IInv => CounterAhead
  BY DEF IInv, Ids
<1> QED
  BY <1>1, Invariant, PTL

\* update_device creates a missing record, and still never one of a node that no device
\* completed commissioning with.
THEOREM OnlyAssignedRecorded == Spec => []RecordsAssigned
<1>1. IInv => RecordsAssigned
  BY DEF IInv, Ids
<1> QED
  BY <1>1, Invariant, PTL

\* Rewriting identity.json from the copy loaded at the start never moves the counter back.
THEOREM CounterMonotone == Spec => CounterNeverBack
<1>1. IInv /\ [Next]_vars => nextId' = nextId \/ nextId' = nextId + 1
  <2> SUFFICES ASSUME IInv, [Next]_vars PROVE nextId' = nextId \/ nextId' = nextId + 1
    OBVIOUS
  <2>1. ASSUME NEW p \in Procs, StoreIdentity(p) PROVE nextId' = nextId + 1
    BY <2>1 DEF IInv, Stage, StoreIdentity, Step
  <2> QED
    BY <2>1 DEF Next, Work, vars, disk, history, StartCommission, StartTargeted, LockStorage,
       LockBusy, LoadIdentity, CompleteViaCase, RecordDevice, WriteDevice, ReportCommissioned,
       CommissionFails, BeginAttempt, WriteAttempt, EndSyncOne, WriteResult, FinishSync,
       FindFails, RemoveFabric, RemoveFails, DropRecord, WriteDrop, FinishDecommission,
       ReadRemaining, EndDecommission, Stop, Pase, FindEntry, ExpireFailSafe
<1>2. IInv => nextId \in Nat
  BY RegistryAssumption DEF IInv, TypeOK
<1>3. IInv /\ [Next]_vars => [nextId' >= nextId]_vars
  BY <1>1, <1>2
<1> QED
  BY <1>3, Invariant, PTL DEF Spec, CounterNeverBack

--------------------------------------------------------------------------------
(* Runs implement the ledger of node ids.                                   *)

\* An id is in use while one device answers to it.
LEMMA Answers ==
  ASSUME NEW d \in Devices, member[d] # NoNode
  PROVE  member[d] \in InUse
BY DEF InUse

\* A device that takes an id puts that id in use, and no other one out of use.
LEMMA DeviceJoins ==
  ASSUME TypeOK, NEW d \in Devices, member[d] = NoNode, NEW n \in Nodes,
         member' = [member EXCEPT ![d] = n]
  PROVE  InUse' = InUse \cup {n}
<1> USE DEF InUse, TypeOK, Nodes, NoNode
<1>1. n # 0 /\ member'[d] = n /\ \A e \in Devices : e # d => member'[e] = member[e]
  OBVIOUS
<1>2. ASSUME NEW k \in InUse PROVE k \in InUse'
  <2>1. PICK e \in Devices : k = member[e] /\ member[e] # 0
    OBVIOUS
  <2> QED
    BY <1>1, <2>1
<1>3. ASSUME NEW k \in InUse' PROVE k \in InUse \cup {n}
  <2>1. PICK e \in Devices : k = member'[e] /\ member'[e] # 0
    OBVIOUS
  <2> QED
    BY <1>1, <2>1
<1> QED
  BY <1>1, <1>2, <1>3

\* A device that goes takes at most its own id out of use.
LEMMA DeviceLeaves ==
  ASSUME TypeOK, NEW d \in Devices, member'[d] = NoNode,
         member' \in [Devices -> Nodes \cup {NoNode}],
         \A e \in Devices : e # d => member'[e] = member[e]
  PROVE  InUse' = InUse \/ \E n \in InUse : InUse' = InUse \ {n}
<1> USE DEF InUse, TypeOK
<1>1. CASE member[d] = NoNode
  <2>1. \A e \in Devices : member'[e] = member[e]
    BY <1>1
  <2> QED
    BY <2>1
<1>2. CASE \E e \in Devices : e # d /\ member[e] = member[d]
  <2>1. PICK e \in Devices : e # d /\ member[e] = member[d]
    BY <1>2
  <2>2. ASSUME NEW k \in InUse PROVE k \in InUse'
    <3>1. PICK a \in Devices : k = member[a] /\ member[a] # NoNode
      OBVIOUS
    <3> QED
      BY <2>1, <3>1
  <2>3. ASSUME NEW k \in InUse' PROVE k \in InUse
    <3>1. PICK a \in Devices : k = member'[a] /\ member'[a] # NoNode
      OBVIOUS
    <3> QED
      BY <3>1
  <2> QED
    BY <2>2, <2>3
<1>3. CASE member[d] # NoNode /\ \A e \in Devices : e # d => member[e] # member[d]
  <2>1. member[d] \in InUse
    BY <1>3, Answers
  <2>2. ASSUME NEW k \in InUse \ {member[d]} PROVE k \in InUse'
    <3>1. PICK a \in Devices : k = member[a] /\ member[a] # NoNode
      OBVIOUS
    <3> QED
      BY <2>2, <3>1
  <2>3. ASSUME NEW k \in InUse' PROVE k \in InUse \ {member[d]}
    <3>1. PICK a \in Devices : k = member'[a] /\ member'[a] # NoNode
      OBVIOUS
    <3> QED
      BY <1>3, <3>1
  <2> QED
    BY <2>1, <2>2, <2>3
<1> QED
  BY <1>1, <1>2, <1>3

\* A write of devices.json changes one record, although it rewrites the whole file.
LEMMA OneRecord ==
  ASSUME IInv, NEW p \in Procs,
         WriteDevice(p) \/ WriteAttempt(p) \/ WriteResult(p) \/ WriteDrop(p)
  PROVE  LedgerOf!Next \/ UNCHANGED LedgerOf!vars
<1>1. /\ TypeOK /\ Stage(p) /\ MaxNode \in Nat
      /\ \A n \in assigned : n \in Nat /\ 1 <= n /\ n <= nextId
  BY RegistryAssumption DEF IInv, Ids, CounterAhead, TypeOK, Nodes
<1>2. node[p] \in 1..nextId /\ copy[p] = registry
  BY <1>1 DEF Stage, WriteDevice, WriteAttempt, WriteResult, WriteDrop, UpdateDevice,
     RemoveDevice, Step, TypeOK, Nodes, Commissioning
<1>3. UNCHANGED <<nextId, InUse>>
  BY DEF WriteDevice, WriteAttempt, WriteResult, WriteDrop, fleet, InUse
<1>4. CASE WriteDevice(p) \/ WriteAttempt(p) \/ WriteResult(p)
  <2>1. registry' = registry \cup {node[p]}
    BY <1>2, <1>4 DEF WriteDevice, WriteAttempt, WriteResult, UpdateDevice
  <2>2. LedgerOf!Record(node[p])
    BY <1>3, <2>1 DEF LedgerOf!Record
  <2> QED
    BY <1>2, <2>2 DEF LedgerOf!Next
<1>5. CASE WriteDrop(p)
  <2>1. registry' = registry \ {node[p]}
    BY <1>2, <1>5 DEF WriteDrop, RemoveDevice
  <2>2. CASE node[p] \in registry
    <3>1. LedgerOf!Drop(node[p])
      BY <1>3, <2>1 DEF LedgerOf!Drop
    <3> QED
      BY <2>2, <3>1 DEF LedgerOf!Next
  <2>3. CASE node[p] \notin registry
    BY <1>3, <2>1, <2>3 DEF LedgerOf!vars
  <2> QED
    BY <2>2, <2>3
<1> QED
  BY <1>4, <1>5

\* An id is used up with its device and its record in place.
LEMMA IdUsedUp ==
  ASSUME IInv, NEW p \in Procs, StoreIdentity(p)
  PROVE  LedgerOf!Next
<1>1. pc[p] = "recorded" /\ TypeOK /\ Stage(p) /\ InHand(p)
  BY DEF IInv, StoreIdentity, Step
<1>2. node[p] = nextId /\ node[p] \in Nodes /\ node[p] \in registry
  BY <1>1 DEF Stage, Commissioning
<1>3. PICK d \in Devices : member[d] = nextId
  BY <1>1, <1>2 DEF InHand, Commissioning
<1>4. nextId \in InUse
  BY <1>2, <1>3, Answers DEF Nodes, NoNode
<1>5. nextId' = nextId + 1 /\ UNCHANGED <<InUse, registry>>
  BY <1>2 DEF StoreIdentity, fleet, InUse
<1> QED
  BY <1>2, <1>4, <1>5 DEF LedgerOf!Next, LedgerOf!Advance

\* A device takes the id that the counter shows.
LEMMA TakesNext ==
  ASSUME IInv, NEW p \in Procs, NEW d \in Devices, Pase(p, d)
  PROVE  LedgerOf!Next
<1>1. TypeOK /\ Stage(p) /\ node[p] \in Nodes /\ node[p] = nextId
  BY DEF IInv, Stage, Pase, Step
<1>2. InUse' = InUse \cup {nextId}
  BY <1>1, DeviceJoins DEF Pase
<1> QED
  BY <1>2 DEF Pase, disk, LedgerOf!Next, LedgerOf!Join

\* RemoveFabric and the fail-safe take one device out.
LEMMA GoesAlone ==
  ASSUME IInv, IInv', UNCHANGED disk,
         \/ \E p \in Procs : pc[p] = "found" /\ Removed(p)
         \/ \E d \in Devices : ExpireFailSafe(d)
  PROVE  LedgerOf!Next \/ UNCHANGED LedgerOf!vars
<1>1. TypeOK /\ TypeOK'
  BY DEF IInv
<1>2. \E d \in Devices : member'[d] = NoNode /\ \A e \in Devices : e # d => member'[e] = member[e]
  <2>1. ASSUME NEW p \in Procs, pc[p] = "found", Removed(p)
        PROVE  \E d \in Devices :
                 member'[d] = NoNode /\ \A e \in Devices : e # d => member'[e] = member[e]
    <3>1. PICK d \in Devices : peer[p] = {d}
      BY <2>1 DEF IInv, InHand
    <3> QED
      BY <2>1, <3>1 DEF Removed
  <2>2. ASSUME NEW d \in Devices, ExpireFailSafe(d)
        PROVE  member'[d] = NoNode /\ \A e \in Devices : e # d => member'[e] = member[e]
    BY <1>1, <2>2 DEF ExpireFailSafe, TypeOK
  <2> QED
    BY <2>1, <2>2
<1>3. InUse' = InUse \/ \E n \in InUse : InUse' = InUse \ {n}
  BY <1>1, <1>2, DeviceLeaves DEF TypeOK
<1> QED
  BY <1>3 DEF disk, LedgerOf!Next, LedgerOf!Leave, LedgerOf!vars

\* Every other step leaves the ids and the records alone.
LEMMA LedgerUntouched ==
  ASSUME UNCHANGED <<disk, fleet>>
  PROVE  UNCHANGED LedgerOf!vars
BY DEF disk, fleet, LedgerOf!vars, InUse

\* Every step is a step of the ledger, or one that it does not see.
LEMMA LedgerSteps == IInv /\ IInv' /\ [Next]_vars => [LedgerOf!Next]_(LedgerOf!vars)
<1> SUFFICES ASSUME IInv, IInv', [Next]_vars PROVE LedgerOf!Next \/ UNCHANGED LedgerOf!vars
  OBVIOUS
<1>1. ASSUME NEW p \in Procs, RemoveFabric(p) \/ RemoveFails(p)
      PROVE  LedgerOf!Next \/ UNCHANGED LedgerOf!vars
  <2>1. UNCHANGED disk /\ pc[p] = "found" /\ (Removed(p) \/ UNCHANGED fleet)
    BY <1>1 DEF RemoveFabric, RemoveFails, Step
  <2> QED
    BY <2>1, GoesAlone, LedgerUntouched
<1>2. ASSUME NEW d \in Devices, ExpireFailSafe(d)
      PROVE  LedgerOf!Next \/ UNCHANGED LedgerOf!vars
  BY <1>2, GoesAlone DEF ExpireFailSafe
<1>3. ASSUME NEW p \in Procs, CompleteViaCase(p) PROVE UNCHANGED LedgerOf!vars
  BY <1>3 DEF CompleteViaCase, disk, LedgerOf!vars, InUse
<1>4. ASSUME NEW p \in Procs, NEW d \in Devices, FindEntry(p, d) PROVE UNCHANGED LedgerOf!vars
  BY <1>4, LedgerUntouched DEF FindEntry
<1> QED
  BY <1>1, <1>2, <1>3, <1>4, OneRecord, IdUsedUp, TakesNext, LedgerUntouched
     DEF Next, Work, vars, StartCommission, StartTargeted, LockStorage, LockBusy, LoadIdentity,
     RecordDevice, ReportCommissioned, CommissionFails, BeginAttempt, EndSyncOne, FinishSync,
     FindFails, DropRecord, FinishDecommission, ReadRemaining, EndDecommission, Stop

\* Overlapping and killed runs implement the ledger of node ids, for any number of runs
\* and devices: one record is written or dropped at a time, a device joins under the
\* counter's id only, and the counter passes an id with its device and its record in
\* place (the writes of CommissionOp, all under one lock).
THEOREM ImplementsLedger == Spec => RefinesLedger
<1>1. Init => LedgerOf!Init
  <2> SUFFICES ASSUME Init PROVE LedgerOf!Init
    OBVIOUS
  <2>1. nextId = 1 /\ registry = {} /\ InUse = {}
    BY DEF Init, InUse
  <2> QED
    BY <2>1 DEF LedgerOf!Init
<1> QED
  BY <1>1, LedgerSteps, Invariant, PTL DEF Spec, RefinesLedger, LedgerOf!Spec

\* An id that the counter has passed and that no device answers to any more is never given
\* to a device again: a record that update_device brings back, when a sync was started
\* before its target was decommissioned, cannot lead to another device.
THEOREM IdsNeverReused ==
  ASSUME NEW n \in Nat
  PROVE  Spec => [](n < nextId /\ n \notin InUse => [](n < nextId /\ n \notin InUse))
<1> DEFINE Retired == n < nextId /\ n \notin InUse
<1>1. IInv /\ IInv' /\ [Next]_vars => (Retired => Retired')
  <2> SUFFICES ASSUME IInv, IInv', [Next]_vars, Retired PROVE Retired'
    OBVIOUS
  <2>1. [LedgerOf!Next]_(LedgerOf!vars) /\ nextId \in Nat
    BY LedgerSteps, RegistryAssumption DEF IInv, TypeOK
  <2> QED
    BY <2>1 DEF LedgerOf!Next, LedgerOf!vars, LedgerOf!Join, LedgerOf!Advance,
       LedgerOf!Record, LedgerOf!Drop, LedgerOf!Leave
<1> HIDE DEF Retired
<1>2. Spec => [](Retired => []Retired)
  BY <1>1, Invariant, PTL DEF Spec
<1> QED
  BY <1>2 DEF Retired

--------------------------------------------------------------------------------
(* Every run runs out.                                                      *)

\* How far a run has come with the target at work.
Rank(stage) ==
  CASE stage = "starting" -> 1
    [] stage = "locked" -> 2
    [] stage = "ready" -> 3
    [] stage \in {"paired", "attempting", "found"} -> 4
    [] stage \in {"completed", "contacting", "removed"} -> 5
    [] stage \in {"adding", "resulting", "dropping"} -> 6
    [] stage = "recorded" -> 7
    [] stage = "stored" -> 8
    [] stage = "unlocked" -> 9
    [] OTHER -> 10

\* The run ends, has a target less, or has come further with the one at work.
Further(p) ==
  \/ pc'[p] = "idle"
  \/ targets'[p] \subseteq targets[p] /\ targets'[p] # targets[p]
  \/ targets'[p] = targets[p] /\ Rank(pc[p]) < Rank(pc'[p])

\* The target that a run is done with is one that it had left.
LEMMA TargetDone ==
  ASSUME IInv, NEW p \in Procs, WriteResult(p) \/ WriteDrop(p) \/ RemoveFails(p) \/ FindFails(p)
  PROVE  Further(p)
<1>0. TypeOK /\ InHand(p)
  BY DEF IInv
<1>1. CASE FindFails(p)
  <2>1. PICK n \in targets[p] : targets'[p] = targets[p] \ {n}
    BY <1>0, <1>1 DEF FindFails, TypeOK
  <2> QED
    BY <2>1 DEF Further
<1>2. CASE WriteResult(p) \/ WriteDrop(p) \/ RemoveFails(p)
  <2>1. node[p] \in targets[p]
    BY <1>0, <1>2 DEF InHand, Working, WriteResult, UpdateDevice, WriteDrop, RemoveDevice,
       RemoveFails, Step
  <2>2. targets'[p] = targets[p] \ {node[p]}
    BY <1>0, <1>2 DEF TypeOK, WriteResult, WriteDrop, RemoveFails
  <2> QED
    BY <2>1, <2>2 DEF Further
<1> QED
  BY <1>1, <1>2

\* Each step of a run counts.
LEMMA WorkCounts ==
  ASSUME IInv, NEW p \in Procs, Work(p)
  PROVE  Further(p)
<1>0. TypeOK
  BY DEF IInv
<1>1. ASSUME NEW to, UNCHANGED targets, pc' = [pc EXCEPT ![p] = to], Rank(pc[p]) < Rank(to)
      PROVE  Further(p)
  BY <1>0, <1>1 DEF Further, TypeOK
<1>2. CASE Ends(p)
  BY <1>0, <1>2 DEF Ends, Further, TypeOK
<1>3. CASE LockStorage(p) \/ LoadIdentity(p) \/ CompleteViaCase(p) \/ StoreIdentity(p)
             \/ RemoveFabric(p) \/ FinishDecommission(p)
  BY <1>1, <1>3 DEF LockStorage, LoadIdentity, CompleteViaCase, StoreIdentity, RemoveFabric,
     FinishDecommission, Step, Rank, memory
<1>4. CASE RecordDevice(p) \/ WriteDevice(p) \/ BeginAttempt(p) \/ WriteAttempt(p)
             \/ EndSyncOne(p) \/ DropRecord(p)
  BY <1>1, <1>4 DEF RecordDevice, WriteDevice, BeginAttempt, WriteAttempt, EndSyncOne,
     DropRecord, ReadRegistry, UpdateDevice, Step, Rank
<1>5. CASE ReadRemaining(p)
  BY <1>1, <1>5 DEF ReadRemaining, Step, Rank, memory
<1>6. CASE \E d \in Devices : Pase(p, d) \/ FindEntry(p, d)
  BY <1>1, <1>6 DEF Pase, FindEntry, Step, Rank
<1> QED
  BY <1>2, <1>3, <1>4, <1>5, <1>6, TargetDone
     DEF Work, LockBusy, ReportCommissioned, CommissionFails, FinishSync, EndDecommission

\* Every step that a run takes ends it, leaves it a target less, or brings it further with
\* the target at work, and nothing that other runs or the devices do sets it back: no run
\* goes on for ever, with nothing tried twice (the for loops of SyncOp and DecommissionOp
\* over the targets chosen before the lock was taken).
THEOREM RunsRunOut ==
  Spec => [][\A p \in Procs :
               /\ Work(p) => Further(p)
               /\ pc[p] # "idle" => \/ Further(p)
                                    \/ pc'[p] = pc[p] /\ targets'[p] = targets[p]]_vars
<1>1. ASSUME IInv, [Next]_vars, NEW p \in Procs
      PROVE  /\ Work(p) => Further(p)
             /\ pc[p] # "idle" => \/ Further(p)
                                  \/ pc'[p] = pc[p] /\ targets'[p] = targets[p]
  <2>0. TypeOK
    BY <1>1 DEF IInv
  <2>1. Work(p) => Further(p)
    BY <1>1, WorkCounts
  <2>2. Stop(p) => Further(p)
    BY <2>0 DEF Stop, Ends, Further, TypeOK
  <2>3. ASSUME pc[p] # "idle" PROVE ~StartCommission(p) /\ ~StartTargeted(p)
    BY <2>3 DEF StartCommission, StartTargeted, Step
  <2>4. ASSUME NEW q \in Procs, Moves(q), q # p
        PROVE  pc'[p] = pc[p] /\ targets'[p] = targets[p]
    BY <2>0, <2>4, OthersKeep
  <2>5. ASSUME UNCHANGED vars \/ \E d \in Devices : ExpireFailSafe(d)
        PROVE  pc'[p] = pc[p] /\ targets'[p] = targets[p]
    BY <2>5 DEF vars, memory, ExpireFailSafe
  <2> QED
    BY <1>1, <2>1, <2>2, <2>3, <2>4, <2>5 DEF Next, Moves
<1>2. IInv /\ [Next]_vars =>
        \A p \in Procs : /\ Work(p) => Further(p)
                         /\ pc[p] # "idle" => \/ Further(p)
                                              \/ pc'[p] = pc[p] /\ targets'[p] = targets[p]
  BY <1>1
<1> QED
  BY <1>2, Invariant, PTL DEF Spec

--------------------------------------------------------------------------------
(* No run waits.  The provers do not know ENABLED, so that a step exists is *)
(* said by its outcome: At(x) is the module whose variables hold what they  *)
(* hold now before the step, and what the record x says after it.           *)

VARIABLE before   \* TRUE in the state before the step, FALSE in the one after it

At(x) == INSTANCE DeviceRegistry WITH
     lock <- IF before THEN lock ELSE x.lock,
     nextId <- IF before THEN nextId ELSE x.nextId,
     registry <- IF before THEN registry ELSE x.registry,
     member <- IF before THEN member ELSE x.member,
     pending <- IF before THEN pending ELSE x.pending,
     pc <- IF before THEN pc ELSE x.pc,
     op <- IF before THEN op ELSE x.op,
     targets <- IF before THEN targets ELSE x.targets,
     node <- IF before THEN node ELSE x.node,
     copy <- IF before THEN copy ELSE x.copy,
     peer <- IF before THEN peer ELSE x.peer,
     assigned <- IF before THEN assigned ELSE x.assigned,
     reported <- IF before THEN reported ELSE x.reported,
     dropped <- IF before THEN dropped ELSE x.dropped

\* There is a state that a step of run p leads to.
CanGoOn(p) == \E x : At(x)!Work(p)

Now == [lock |-> lock, nextId |-> nextId, registry |-> registry, member |-> member,
        pending |-> pending, pc |-> pc, op |-> op, targets |-> targets, node |-> node,
        copy |-> copy, peer |-> peer, assigned |-> assigned, reported |-> reported,
        dropped |-> dropped]

\* What is left when run p is gone.
Gone(p) == [Now EXCEPT !.pc = [pc EXCEPT ![p] = "idle"],
                       !.lock = IF pc[p] \in Locked THEN Free ELSE lock,
                       !.op = [op EXCEPT ![p] = "commission"],
                       !.targets = [targets EXCEPT ![p] = {}],
                       !.node = [node EXCEPT ![p] = NoNode],
                       !.copy = [copy EXCEPT ![p] = {}],
                       !.peer = [peer EXCEPT ![p] = {}]]

\* A run that is through, finds the lock taken, or gives up on its device can end.
LEMMA CanEnd ==
  ASSUME before, ~before', NEW p \in Procs,
         \/ lock # Free /\ pc[p] = "starting"
         \/ op[p] = "commission" /\ pc[p] \in {"ready", "paired"}
         \/ op[p] = "sync" /\ targets[p] = {} /\ pc[p] = "ready"
         \/ pc[p] \in {"saidSafe", "saidRemaining"}
  PROVE  CanGoOn(p)
<1>1. PICK x : x = Gone(p)
  OBVIOUS
<1>2. At(x)!Ends(p)
  BY <1>1 DEF Gone, Now, At!Ends, At!Locked, At!NoNode, Locked, NoNode
<1>3. UNCHANGED At(x)!disk /\ UNCHANGED At(x)!fleet /\ UNCHANGED At(x)!history
  BY <1>1 DEF Gone, Now, At!disk, At!fleet, At!history
<1>4. \/ At(x)!LockBusy(p) \/ At(x)!CommissionFails(p) \/ At(x)!FinishSync(p)
      \/ At(x)!EndDecommission(p)
  BY <1>2, <1>3 DEF At!LockBusy, At!CommissionFails, At!FinishSync, At!EndDecommission
<1> QED
  BY <1>4 DEF CanGoOn, At!Work

\* A commissioning that is stored can be reported.
LEMMA CanReport ==
  ASSUME before, ~before', NEW p \in Procs, pc[p] = "stored"
  PROVE  CanGoOn(p)
<1>1. PICK x : x = [Gone(p) EXCEPT !.reported = reported \cup (peer[p] \X {node[p]})]
  OBVIOUS
<1>2. At(x)!Ends(p)
  BY <1>1 DEF Gone, Now, At!Ends, At!Locked, At!NoNode, Locked, NoNode
<1>3. At(x)!ReportCommissioned(p)
  BY <1>1, <1>2 DEF Gone, Now, At!ReportCommissioned, At!disk, At!fleet
<1> QED
  BY <1>3 DEF CanGoOn, At!Work

\* A run takes the lock when it is free, and reads the identity then.
LEMMA CanStart ==
  ASSUME before, ~before', NEW p \in Procs,
         (pc[p] = "starting" /\ lock = Free) \/ pc[p] = "locked"
  PROVE  CanGoOn(p)
<1> USE DEF At!Step, At!disk, At!fleet, At!memory, At!history, Now
<1>1. CASE pc[p] = "starting" /\ lock = Free
  <2>1. PICK x : x = [Now EXCEPT !.pc = [pc EXCEPT ![p] = "locked"], !.lock = p]
    OBVIOUS
  <2>2. At(x)!LockStorage(p)
    BY <1>1, <2>1 DEF At!LockStorage
  <2> QED
    BY <2>2 DEF CanGoOn, At!Work
<1>2. CASE pc[p] = "locked"
  <2>1. PICK x :
          x = [Now EXCEPT
                 !.pc = [pc EXCEPT ![p] = "ready"],
                 !.node = [node EXCEPT ![p] = IF op[p] = "commission" THEN nextId ELSE NoNode]]
    OBVIOUS
  <2>2. At(x)!LoadIdentity(p)
    BY <1>2, <2>1 DEF At!LoadIdentity, At!NoNode, NoNode
  <2> QED
    BY <2>2 DEF CanGoOn, At!Work
<1> QED
  BY <1>1, <1>2

\* A half-done update of the registry is read, and what was read can be written.
LEMMA CanUpdate ==
  ASSUME before, ~before', NEW p \in Procs,
         pc[p] \in {"completed", "contacting", "removed",
                    "adding", "attempting", "resulting", "dropping"}
  PROVE  CanGoOn(p)
<1> DEFINE Reading(to) == [Now EXCEPT !.pc = [pc EXCEPT ![p] = to],
                                      !.copy = [copy EXCEPT ![p] = registry]]
           Writing(to, records) == [Now EXCEPT !.pc = [pc EXCEPT ![p] = to],
                                               !.registry = records,
                                               !.copy = [copy EXCEPT ![p] = {}]]
<1> USE DEF At!Step, At!disk, At!fleet, At!memory, At!history, At!ReadRegistry,
            At!UpdateDevice, At!RemoveDevice, Now
<1>1. CASE pc[p] = "completed"
  <2>1. PICK x : x = Reading("adding")
    OBVIOUS
  <2>2. At(x)!RecordDevice(p)
    BY <1>1, <2>1 DEF At!RecordDevice
  <2> QED
    BY <2>2 DEF CanGoOn, At!Work
<1>2. CASE pc[p] = "contacting"
  <2>1. PICK x : x = Reading("resulting")
    OBVIOUS
  <2>2. At(x)!EndSyncOne(p)
    BY <1>2, <2>1 DEF At!EndSyncOne
  <2> QED
    BY <2>2 DEF CanGoOn, At!Work
<1>3. CASE pc[p] = "removed"
  <2>1. PICK x : x = Reading("dropping")
    OBVIOUS
  <2>2. At(x)!DropRecord(p)
    BY <1>3, <2>1 DEF At!DropRecord
  <2> QED
    BY <2>2 DEF CanGoOn, At!Work
<1>4. CASE pc[p] = "adding"
  <2>1. PICK x : x = Writing("recorded", copy[p] \cup {node[p]})
    OBVIOUS
  <2>2. At(x)!WriteDevice(p)
    BY <1>4, <2>1 DEF At!WriteDevice
  <2> QED
    BY <2>2 DEF CanGoOn, At!Work
<1>5. CASE pc[p] = "attempting"
  <2>1. PICK x : x = Writing("contacting", copy[p] \cup {node[p]})
    OBVIOUS
  <2>2. At(x)!WriteAttempt(p)
    BY <1>5, <2>1 DEF At!WriteAttempt
  <2> QED
    BY <2>2 DEF CanGoOn, At!Work
<1>6. CASE pc[p] = "resulting"
  <2>1. PICK x : x = [Writing("ready", copy[p] \cup {node[p]}) EXCEPT
                        !.targets = [targets EXCEPT ![p] = @ \ {node[p]}]]
    OBVIOUS
  <2>2. At(x)!WriteResult(p)
    BY <1>6, <2>1 DEF At!WriteResult
  <2> QED
    BY <2>2 DEF CanGoOn, At!Work
<1>7. CASE pc[p] = "dropping"
  <2>1. PICK x : x = [Writing("ready", copy[p] \ {node[p]}) EXCEPT
                        !.targets = [targets EXCEPT ![p] = @ \ {node[p]}],
                        !.dropped = dropped \cup {node[p]}]
    OBVIOUS
  <2>2. At(x)!WriteDrop(p)
    BY <1>7, <2>1 DEF At!WriteDrop
  <2> QED
    BY <2>2 DEF CanGoOn, At!Work
<1> QED
  BY <1>1, <1>2, <1>3, <1>4, <1>5, <1>6, <1>7

\* The other steps: a commission's last write, a target's turn, and the end of a loop.
LEMMA CanWorkOn ==
  ASSUME before, ~before', NEW p \in Procs,
         \/ pc[p] \in {"recorded", "found", "unlocked"}
         \/ pc[p] = "ready" /\ op[p] = "sync" /\ targets[p] # {}
         \/ pc[p] = "ready" /\ op[p] = "decommission"
  PROVE  CanGoOn(p)
<1> USE DEF At!Step, At!disk, At!fleet, At!memory, At!history, At!ReadRegistry, Now
<1>1. CASE pc[p] = "recorded"
  <2>1. PICK x : x = [Now EXCEPT !.pc = [pc EXCEPT ![p] = "stored"], !.nextId = node[p] + 1]
    OBVIOUS
  <2>2. At(x)!StoreIdentity(p)
    BY <1>1, <2>1 DEF At!StoreIdentity
  <2> QED
    BY <2>2 DEF CanGoOn, At!Work
<1>2. CASE pc[p] = "found"
  <2>1. PICK x : x = [Now EXCEPT !.pc = [pc EXCEPT ![p] = "ready"],
                                 !.targets = [targets EXCEPT ![p] = @ \ {node[p]}]]
    OBVIOUS
  <2>2. At(x)!RemoveFails(p)
    BY <1>2, <2>1 DEF At!RemoveFails
  <2> QED
    BY <2>2 DEF CanGoOn, At!Work
<1>3. CASE pc[p] = "unlocked"
  <2>1. PICK x : x = [Now EXCEPT !.pc = [pc EXCEPT ![p] =
                        IF registry = {} THEN "saidSafe" ELSE "saidRemaining"]]
    OBVIOUS
  <2>2. At(x)!ReadRemaining(p)
    BY <1>3, <2>1 DEF At!ReadRemaining
  <2> QED
    BY <2>2 DEF CanGoOn, At!Work
<1>4. CASE pc[p] = "ready" /\ op[p] = "sync" /\ targets[p] # {}
  <2>1. PICK n \in targets[p] : TRUE
    BY <1>4
  <2>2. PICK x : x = [Now EXCEPT !.pc = [pc EXCEPT ![p] = "attempting"],
                                 !.node = [node EXCEPT ![p] = n],
                                 !.copy = [copy EXCEPT ![p] = registry]]
    OBVIOUS
  <2>3. At(x)!BeginAttempt(p)
    BY <1>4, <2>1, <2>2 DEF At!BeginAttempt
  <2> QED
    BY <2>3 DEF CanGoOn, At!Work
<1>5. CASE pc[p] = "ready" /\ op[p] = "decommission" /\ targets[p] # {}
  <2>1. PICK n \in targets[p] : TRUE
    BY <1>5
  <2>2. PICK x : x = [Now EXCEPT !.targets = [targets EXCEPT ![p] = @ \ {n}]]
    OBVIOUS
  <2>3. At(x)!FindFails(p)
    BY <1>5, <2>1, <2>2 DEF At!FindFails
  <2> QED
    BY <2>3 DEF CanGoOn, At!Work
<1>6. CASE pc[p] = "ready" /\ op[p] = "decommission" /\ targets[p] = {}
  <2>1. PICK x : x = [Now EXCEPT !.pc = [pc EXCEPT ![p] = "unlocked"], !.lock = Free]
    OBVIOUS
  <2>2. At(x)!FinishDecommission(p)
    BY <1>6, <2>1 DEF At!FinishDecommission
  <2> QED
    BY <2>2 DEF CanGoOn, At!Work
<1> QED
  BY <1>1, <1>2, <1>3, <1>4, <1>5, <1>6

\* No run ever waits for another one, or for a device: whoever holds the lock and wherever
\* others were killed, a run that was started has a step of its own to take, if only to
\* fail (LOCK_NB in lock_storage, the timeouts of browse, commissioning and connect).
\* With RunsRunOut, a run that is not killed comes to its end in boundedly many steps.
THEOREM RunsCanGoOn ==
  Spec => [][before /\ ~before' => \A p \in Procs : pc[p] # "idle" => CanGoOn(p)]_before
<1>1. ASSUME IInv, before, ~before', NEW p \in Procs, pc[p] # "idle"
      PROVE  CanGoOn(p)
  <2>1. /\ pc[p] \in Stages /\ op[p] \in Ops
        /\ pc[p] = "paired" => op[p] = "commission"
    BY <1>1 DEF IInv, TypeOK, Stage, Commissioning
  <2> QED
    BY <1>1, <2>1, CanEnd, CanReport, CanStart, CanUpdate, CanWorkOn DEF Stages, Locked, Ops
<1>2. IInv => (before /\ ~before' => \A p \in Procs : pc[p] # "idle" => CanGoOn(p))
  BY <1>1
<1> QED
  BY <1>2, Invariant, PTL
================================================================================
