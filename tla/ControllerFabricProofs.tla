------------------------ MODULE ControllerFabricProofs -------------------------
(***************************************************************************)
(* Theorems about ControllerFabric, and at the end about FabricDamage, for *)
(* any number of overlapping runs, devices, labels and mintings.           *)
(***************************************************************************)
EXTENDS FabricDamage, TLAPS

\* Type correctness at the start.
LEMMA InitType == Init => TypeOK
BY FabricAssumption DEF Init, TypeOK, Stages, IdOrNone, NoId, Views

\* The end of a run keeps the types of everything it touches.
LEMMA EndsType ==
  ASSUME TypeOK, NEW p \in Procs, Ends(p)
  PROVE  /\ lock' \in Procs \cup {Free}
         /\ pc' \in [Procs -> Stages]
         /\ loaded' \in [Procs -> IdOrNone]
         /\ seen' \in [Procs -> Views]
         /\ ident' \in [Procs -> IdOrNone]
         /\ want' \in [Procs -> Labels]
         /\ dev' \in [Procs -> SUBSET Devices]
BY FabricAssumption DEF TypeOK, Ends, Stages, IdOrNone, NoId, Views

\* Every step keeps the types.
LEMMA StepType == TypeOK /\ [Next]_vars => TypeOK'
<1>1. SUFFICES ASSUME TypeOK, [Next]_vars PROVE TypeOK'
  OBVIOUS
<1>2. CASE UNCHANGED vars
  BY <1>1, <1>2 DEF TypeOK, vars, disk, memory
<1>3. ASSUME NEW p \in Procs, StartCommission(p) PROVE TypeOK'
  BY <1>1, <1>3 DEF StartCommission, Step, TypeOK, disk, Stages
<1>4. ASSUME NEW p \in Procs, StartTargeted(p) PROVE TypeOK'
  BY <1>1, <1>4 DEF StartTargeted, Step, TypeOK, disk, Stages
<1>5. ASSUME NEW p \in Procs, LockStorage(p) PROVE TypeOK'
  BY <1>1, <1>5 DEF LockStorage, Step, TypeOK, disk, memory, Stages, Locked, Setup
<1>6. ASSUME NEW p \in Procs, LockBusy(p) PROVE TypeOK'
  BY <1>1, <1>6, EndsType DEF LockBusy, TypeOK, disk
<1>7. ASSUME NEW p \in Procs, LoadState(p) PROVE TypeOK'
  BY <1>1, <1>7 DEF LoadState, Step, TypeOK, disk, Stages, Locked, Setup,
     Views, ViewOf
<1>8. ASSUME NEW p \in Procs, UseIdentity(p) PROVE TypeOK'
  BY <1>1, <1>8 DEF UseIdentity, Step, TypeOK, Stages, Locked, Running
<1>9. ASSUME NEW p \in Procs, DiscardFabric(p) PROVE TypeOK'
  BY <1>1, <1>9, FabricAssumption DEF DiscardFabric, TypeOK, IdOrNone, NoId
<1>10. ASSUME NEW p \in Procs, RefuseUnreadable(p) \/ RefuseRemains(p) PROVE TypeOK'
  BY <1>1, <1>10
  DEF RefuseUnreadable, RefuseRemains, Step, TypeOK, disk, memory, Stages, Locked
<1>11. ASSUME NEW p \in Procs, BootstrapFabric(p) PROVE TypeOK'
  <2>1. minted + 1 \in IdOrNone
    BY <1>1, <1>11, FabricAssumption DEF BootstrapFabric, TypeOK, IdOrNone
  <2> QED
    BY <1>1, <1>11, <2>1 DEF BootstrapFabric, Step, TypeOK, Stages, Locked, Setup
<1>12. ASSUME NEW p \in Procs, StoreIdentity(p) PROVE TypeOK'
  BY <1>1, <1>12 DEF StoreIdentity, Step, TypeOK, memory, Stages, Locked, Running
<1>13. ASSUME NEW p \in Procs, NEW d \in Devices, Join(p, d) PROVE TypeOK'
  BY <1>1, <1>13 DEF Join, Step, TypeOK, disk, Stages, Locked, Running
<1>14. ASSUME NEW p \in Procs, RecordDevice(p) PROVE TypeOK'
  BY <1>1, <1>14 DEF RecordDevice, Step, TypeOK, memory, Stages, Locked, Running
<1>15. ASSUME NEW p \in Procs, BumpIdentity(p) PROVE TypeOK'
  BY <1>1, <1>15, EndsType DEF BumpIdentity, TypeOK
<1>16. ASSUME NEW p \in Procs, NEW d \in Devices, Leave(p, d) PROVE TypeOK'
  BY <1>1, <1>16 DEF Leave, Step, TypeOK, disk, memory, Stages, Locked, Running
<1>17. ASSUME NEW p \in Procs, RemoveRecord(p) PROVE TypeOK'
  BY <1>1, <1>17, EndsType DEF RemoveRecord, TypeOK
<1>18. ASSUME NEW p \in Procs, Stop(p) PROVE TypeOK'
  BY <1>1, <1>18, EndsType DEF Stop, TypeOK, disk
<1>19. ASSUME NEW p \in Procs, ProbeIdentity(p) \/ ProbeFabric(p) \/ ReadIdentity(p)
       PROVE  TypeOK'
  BY <1>1, <1>19
  DEF ProbeIdentity, ProbeFabric, ReadIdentity, Step, TypeOK, disk, memory,
      Stages, Probing, Reports
<1> QED
  BY <1>1, <1>2, <1>3, <1>4, <1>5, <1>6, <1>7, <1>8, <1>9, <1>10, <1>11, <1>12,
     <1>13, <1>14, <1>15, <1>16, <1>17, <1>18, <1>19
  DEF Next
--------------------------------------------------------------------------------
\* The initial state is consistent: no file, no device, nobody running.
LEMMA InitConsistent == Init => IInv
<1>1. SUFFICES ASSUME Init PROVE IInv
  OBVIOUS
<1>2. TypeOK
  BY <1>1, InitType
<1>3. LockExclusive /\ NeverRefused /\ StatusNeverAlarms /\ StageMemory
  BY <1>1 DEF Init, LockExclusive, NeverRefused, StatusNeverAlarms, StageMemory,
              Locked, Setup, Running
<1>4. PairMatches /\ HeldByOwner /\ RecordsNeedIdentity
  BY <1>1 DEF Init, PairMatches, HeldByOwner, RecordsNeedIdentity
<1> QED
  BY <1>2, <1>3, <1>4 DEF IInv

\* A step of one run that leaves the disk, the devices and the other runs alone
\* keeps everything but what it says about that run's own stage.
LEMMA QuietStep ==
  ASSUME IInv, TypeOK', NEW p \in Procs,
         UNCHANGED <<disk, held>>,
         \A q \in Procs \ {p} : /\ pc'[q] = pc[q] /\ loaded'[q] = loaded[q]
                                /\ seen'[q] = seen[q] /\ ident'[q] = ident[q],
         \A q \in Procs \ {p} : pc[q] \in Locked => lock' = q,
         pc'[p] \in Locked => lock' = p,
         pc'[p] \notin {"refused", "NoFabricBlob", "Unreadable"},
         /\ pc'[p] = "loaded" => loaded'[p] = fabric /\ seen'[p] = ViewOf(registry)
         /\ pc'[p] # "persisted"
         /\ pc'[p] \in Running =>
              identity # NoId /\ loaded'[p] = identity /\ ident'[p] = identity
         /\ pc'[p] \in {"sawIdentity", "sawBoth"} => identity # NoId
  PROVE  IInv'
<1>1. LockExclusive'
  BY DEF IInv, LockExclusive
<1>2. (PairMatches /\ HeldByOwner /\ RecordsNeedIdentity)'
  BY DEF IInv, PairMatches, HeldByOwner, RecordsNeedIdentity, disk
<1>3. StageMemory'
  BY DEF IInv, StageMemory, disk
<1>4. (NeverRefused /\ StatusNeverAlarms)'
  BY DEF IInv, NeverRefused, StatusNeverAlarms
<1> QED
  BY <1>1, <1>2, <1>3, <1>4 DEF IInv

\* A run that ends keeps the invariant, whatever it had reached.
LEMMA QuietEnd ==
  ASSUME IInv, TypeOK', NEW p \in Procs, Ends(p), UNCHANGED <<disk, held>>
  PROVE  IInv'
<1>1. /\ pc'[p] = "idle"
      /\ \A q \in Procs \ {p} : /\ pc'[q] = pc[q] /\ loaded'[q] = loaded[q]
                                /\ seen'[q] = seen[q] /\ ident'[q] = ident[q]
  BY DEF IInv, TypeOK, Ends
<1>2. \A q \in Procs \ {p} : pc[q] \in Locked => lock' = q
  BY DEF IInv, LockExclusive, Ends
<1> QED
  BY <1>1, <1>2, QuietStep DEF Locked, Setup, Running

\* The run that holds the lock is alone with the disk: nobody else is in a
\* stage that remembers it.
LEMMA AloneLocked ==
  ASSUME IInv, NEW p \in Procs, pc[p] \in Locked
  PROVE  /\ lock = p
         /\ \A q \in Procs \ {p} : pc[q] \notin Locked
BY DEF IInv, LockExclusive

\* A step of the run that holds the lock, and goes on holding it, preserves the
\* invariant when the disk and its own memory agree afterwards.
LEMMA LockedStep ==
  ASSUME IInv, TypeOK', NEW p \in Procs, pc[p] \in Locked,
         lock' = lock,
         \A q \in Procs \ {p} : pc'[q] = pc[q],
         pc'[p] \in Setup \cup Running,
         (PairMatches /\ HeldByOwner /\ RecordsNeedIdentity)',
         identity # NoId => identity' # NoId,
         /\ pc'[p] = "loaded" =>
              loaded'[p] = fabric' /\ seen'[p] = ViewOf(registry')
         /\ pc'[p] = "persisted" =>
              /\ ident'[p] # NoId /\ loaded'[p] = ident'[p]
              /\ fabric' = ident'[p] /\ identity' = NoId
         /\ pc'[p] \in Running =>
              identity' # NoId /\ loaded'[p] = identity' /\ ident'[p] = identity'
  PROVE  IInv'
<1>1. lock = p /\ \A q \in Procs \ {p} : pc[q] \notin Locked
  BY AloneLocked
<1>2. pc'[p] \notin {"refused", "NoFabricBlob", "Unreadable", "sawIdentity", "sawBoth"}
  BY DEF Setup, Running
<1>3. LockExclusive'
  BY <1>1 DEF LockExclusive
<1>4. ASSUME NEW q \in Procs \ {p}
      PROVE  /\ pc'[q] \notin {"loaded", "persisted"} \cup Running
             /\ pc'[q] \in {"sawIdentity", "sawBoth"} => identity' # NoId
             /\ pc'[q] \notin {"refused", "NoFabricBlob", "Unreadable"}
  BY <1>1, <1>4
  DEF IInv, StageMemory, NeverRefused, StatusNeverAlarms, Locked, Setup
<1>5. StageMemory'
  BY <1>2, <1>4 DEF StageMemory
<1>6. (NeverRefused /\ StatusNeverAlarms)'
  BY <1>2, <1>4 DEF NeverRefused, StatusNeverAlarms
<1> QED
  BY <1>3, <1>5, <1>6 DEF IInv

\* Every step of every run preserves the invariant.
LEMMA StepConsistent == IInv /\ [Next]_vars => IInv'
<1>1. SUFFICES ASSUME IInv, [Next]_vars PROVE IInv'
  OBVIOUS
<1>2. TypeOK /\ TypeOK'
  BY <1>1, StepType DEF IInv
<1>3. CASE UNCHANGED vars
  BY <1>1, <1>3
  DEF IInv, TypeOK, LockExclusive, PairMatches, HeldByOwner, RecordsNeedIdentity,
      StageMemory, NeverRefused, StatusNeverAlarms, vars, disk, memory
<1>4. ASSUME NEW p \in Procs, StartCommission(p) \/ StartTargeted(p) PROVE IInv'
  <2>1. pc'[p] = "starting" /\ \A q \in Procs \ {p} : pc'[q] = pc[q]
    BY <1>2, <1>4 DEF StartCommission, StartTargeted, Step, TypeOK
  <2>2. UNCHANGED <<disk, held, lock, loaded, seen, ident>>
    BY <1>4 DEF StartCommission, StartTargeted
  <2> QED
    BY <1>1, <1>2, <2>1, <2>2, QuietStep
    DEF IInv, LockExclusive, Locked, Setup, Running
<1>5. ASSUME NEW p \in Procs, LockStorage(p) PROVE IInv'
  <2>1. pc'[p] = "locked" /\ \A q \in Procs \ {p} : pc'[q] = pc[q]
    BY <1>2, <1>5 DEF LockStorage, Step, TypeOK
  <2>2. /\ lock' = p
        /\ \A q \in Procs : pc[q] \notin Locked
    BY <1>1, <1>5, FabricAssumption DEF LockStorage, IInv, LockExclusive
  <2>3. UNCHANGED <<disk, held, loaded, seen, ident>>
    BY <1>5 DEF LockStorage, memory
  <2> QED
    BY <1>1, <1>2, <2>1, <2>2, <2>3, QuietStep DEF Running
<1>6. ASSUME NEW p \in Procs, LockBusy(p) \/ Stop(p) PROVE IInv'
  BY <1>1, <1>2, <1>6, QuietEnd DEF LockBusy, Stop
<1>7. ASSUME NEW p \in Procs, LoadState(p) PROVE IInv'
  <2>1. /\ pc[p] \in Locked /\ pc'[p] = "loaded"
        /\ \A q \in Procs \ {p} : pc'[q] = pc[q]
    BY <1>2, <1>7 DEF LoadState, Step, TypeOK, Locked, Setup
  <2>2. /\ lock' = lock
        /\ loaded'[p] = fabric' /\ seen'[p] = ViewOf(registry')
    BY <1>2, <1>7 DEF LoadState, TypeOK, disk
  <2>3. (PairMatches /\ HeldByOwner /\ RecordsNeedIdentity)' /\ identity' = identity
    BY <1>1, <1>7
    DEF LoadState, IInv, PairMatches, HeldByOwner, RecordsNeedIdentity, disk
  <2> QED
    BY <1>1, <1>2, <2>1, <2>2, <2>3, LockedStep DEF Setup, Running
<1>8. ASSUME NEW p \in Procs, UseIdentity(p) PROVE IInv'
  <2>1. /\ pc[p] \in Locked /\ pc'[p] = "running"
        /\ \A q \in Procs \ {p} : pc'[q] = pc[q]
    BY <1>2, <1>8 DEF UseIdentity, Step, TypeOK, Locked, Setup
  <2>2. loaded[p] = fabric /\ fabric = identity /\ identity # NoId
    BY <1>1, <1>8 DEF UseIdentity, Step, IInv, StageMemory, PairMatches
  <2>3. /\ UNCHANGED <<lock, fabric, identity, registry, held, loaded>>
        /\ ident'[p] = identity
    BY <1>2, <1>8, <2>2 DEF UseIdentity, TypeOK
  <2>4. (PairMatches /\ HeldByOwner /\ RecordsNeedIdentity)'
    BY <1>1, <2>3 DEF IInv, PairMatches, HeldByOwner, RecordsNeedIdentity
  <2> QED
    BY <1>1, <1>2, <2>1, <2>2, <2>3, <2>4, LockedStep DEF Running
<1>9. ASSUME NEW p \in Procs, DiscardFabric(p) PROVE IInv'
  <2>1. /\ pc[p] \in Locked /\ pc'[p] = "loaded"
        /\ \A q \in Procs \ {p} : pc'[q] = pc[q]
    BY <1>9 DEF DiscardFabric, Locked, Setup
  <2>2. /\ UNCHANGED <<lock, identity, registry, held>>
        /\ loaded'[p] = fabric'
        /\ seen'[p] = ViewOf(registry')
        /\ identity = NoId
    BY <1>1, <1>2, <1>9 DEF DiscardFabric, TypeOK, IInv, StageMemory
  <2>3. (PairMatches /\ HeldByOwner /\ RecordsNeedIdentity)'
    BY <1>1, <2>2 DEF IInv, PairMatches, HeldByOwner, RecordsNeedIdentity
  <2> QED
    BY <1>1, <1>2, <2>1, <2>2, <2>3, LockedStep DEF Setup, Running
<1>10. ASSUME NEW p \in Procs PROVE ~RefuseUnreadable(p) /\ ~RefuseRemains(p)
  BY <1>1
  DEF RefuseUnreadable, RefuseRemains, Step, IInv, StageMemory, PairMatches,
      RecordsNeedIdentity, Vacant, ViewOf
<1>11. ASSUME NEW p \in Procs, BootstrapFabric(p) PROVE IInv'
  <2>1. /\ pc[p] \in Locked /\ pc'[p] = "persisted"
        /\ \A q \in Procs \ {p} : pc'[q] = pc[q]
    BY <1>2, <1>11 DEF BootstrapFabric, Step, TypeOK, Locked, Setup
  <2>2. minted + 1 # NoId
    BY <1>2, FabricAssumption DEF TypeOK, IdOrNone, NoId
  <2>3. /\ UNCHANGED <<lock, identity, registry, held>>
        /\ ident'[p] = minted + 1 /\ loaded'[p] = minted + 1 /\ fabric' = minted + 1
        /\ identity = NoId
    BY <1>2, <1>11 DEF BootstrapFabric, TypeOK
  <2>4. (PairMatches /\ HeldByOwner /\ RecordsNeedIdentity)'
    BY <1>1, <2>3 DEF IInv, PairMatches, HeldByOwner, RecordsNeedIdentity
  <2> QED
    BY <1>1, <1>2, <2>1, <2>2, <2>3, <2>4, LockedStep DEF Setup, Running
<1>12. ASSUME NEW p \in Procs, StoreIdentity(p) PROVE IInv'
  <2>1. /\ pc[p] \in Locked /\ pc'[p] = "running"
        /\ \A q \in Procs \ {p} : pc'[q] = pc[q]
    BY <1>2, <1>12 DEF StoreIdentity, Step, TypeOK, Locked, Setup
  <2>2. /\ identity = NoId /\ ident[p] # NoId
        /\ loaded[p] = ident[p] /\ fabric = ident[p]
    BY <1>1, <1>12 DEF StoreIdentity, Step, IInv, StageMemory
  <2>3. /\ UNCHANGED <<lock, fabric, registry, held, loaded, ident>>
        /\ identity' = ident[p]
    BY <1>12 DEF StoreIdentity, memory
  <2>4. (PairMatches /\ HeldByOwner /\ RecordsNeedIdentity)'
    BY <1>1, <2>2, <2>3 DEF IInv, PairMatches, HeldByOwner, RecordsNeedIdentity
  <2> QED
    BY <1>1, <1>2, <2>1, <2>2, <2>3, <2>4, LockedStep DEF Running
<1>13. ASSUME NEW p \in Procs, NEW d \in Devices, Join(p, d) PROVE IInv'
  <2>1. /\ pc[p] \in Running /\ pc'[p] = "joined"
        /\ \A q \in Procs \ {p} : pc'[q] = pc[q]
    BY <1>2, <1>13 DEF Join, Step, TypeOK, Running
  <2>2. identity # NoId /\ loaded[p] = identity /\ ident[p] = identity
    BY <1>1, <2>1 DEF IInv, StageMemory
  <2>3. UNCHANGED <<lock, disk, loaded, ident>>
    BY <1>13 DEF Join
  <2>4. HeldByOwner'
    BY <1>1, <1>2, <1>13, <2>2, <2>3 DEF Join, IInv, HeldByOwner, TypeOK, disk
  <2>5. (PairMatches /\ RecordsNeedIdentity)'
    BY <1>1, <2>3 DEF IInv, PairMatches, RecordsNeedIdentity, disk
  <2> QED
    BY <1>1, <1>2, <2>1, <2>2, <2>3, <2>4, <2>5, LockedStep DEF Running, Locked, disk
<1>14. ASSUME NEW p \in Procs, RecordDevice(p) PROVE IInv'
  <2>1. /\ pc[p] \in Running /\ pc'[p] = "recorded"
        /\ \A q \in Procs \ {p} : pc'[q] = pc[q]
    BY <1>2, <1>14 DEF RecordDevice, Step, TypeOK, Running
  <2>2. identity # NoId /\ loaded[p] = identity /\ ident[p] = identity
    BY <1>1, <2>1 DEF IInv, StageMemory
  <2>3. UNCHANGED <<lock, fabric, identity, held, loaded, ident>>
    BY <1>14 DEF RecordDevice, memory
  <2>4. (PairMatches /\ HeldByOwner /\ RecordsNeedIdentity)'
    BY <1>1, <2>2, <2>3 DEF IInv, PairMatches, HeldByOwner, RecordsNeedIdentity
  <2> QED
    BY <1>1, <1>2, <2>1, <2>2, <2>3, <2>4, LockedStep DEF Running, Locked
<1>15. ASSUME NEW p \in Procs, BumpIdentity(p) PROVE IInv'
  <2>1. UNCHANGED <<disk, held>> /\ Ends(p)
    BY <1>1, <1>15 DEF BumpIdentity, IInv, StageMemory, Running, disk
  <2> QED
    BY <1>1, <1>2, <2>1, QuietEnd
<1>16. ASSUME NEW p \in Procs, NEW d \in Devices, Leave(p, d) PROVE IInv'
  <2>1. /\ pc[p] \in Running /\ pc'[p] = "left"
        /\ \A q \in Procs \ {p} : pc'[q] = pc[q]
    BY <1>2, <1>16 DEF Leave, Step, TypeOK, Running
  <2>2. identity # NoId /\ loaded[p] = identity /\ ident[p] = identity
    BY <1>1, <2>1 DEF IInv, StageMemory
  <2>3. UNCHANGED <<lock, disk, loaded, ident>>
    BY <1>16 DEF Leave, memory
  <2>4. HeldByOwner'
    BY <1>1, <1>2, <1>16, <2>3 DEF Leave, IInv, HeldByOwner, TypeOK, disk
  <2>5. (PairMatches /\ RecordsNeedIdentity)'
    BY <1>1, <2>3 DEF IInv, PairMatches, RecordsNeedIdentity, disk
  <2> QED
    BY <1>1, <1>2, <2>1, <2>2, <2>3, <2>4, <2>5, LockedStep DEF Running, Locked, disk
<1>17. ASSUME NEW p \in Procs, RemoveRecord(p) PROVE IInv'
  <2>1. /\ pc'[p] = "idle"
        /\ \A q \in Procs \ {p} : pc'[q] = pc[q] /\ loaded'[q] = loaded[q] /\ ident'[q] = ident[q]
        /\ \A q \in Procs \ {p} : pc[q] \notin Locked
    BY <1>1, <1>2, <1>17, AloneLocked
    DEF RemoveRecord, Ends, TypeOK, Locked, Running
  <2>2. UNCHANGED <<fabric, identity, held>> /\ registry' \subseteq registry
    BY <1>17 DEF RemoveRecord
  <2>3. (LockExclusive /\ NeverRefused /\ StatusNeverAlarms)'
    BY <1>1, <2>1 DEF IInv, LockExclusive, NeverRefused, StatusNeverAlarms, Locked, Setup, Running
  <2>4. (PairMatches /\ HeldByOwner /\ RecordsNeedIdentity)'
    BY <1>1, <2>2 DEF IInv, PairMatches, HeldByOwner, RecordsNeedIdentity
  <2>5. StageMemory'
    BY <1>1, <2>1, <2>2 DEF IInv, StageMemory, Locked, Setup, Running
  <2> QED
    BY <1>2, <2>3, <2>4, <2>5 DEF IInv
<1>18. ASSUME NEW p \in Procs, ProbeIdentity(p) \/ ProbeFabric(p) \/ ReadIdentity(p)
       PROVE  IInv'
  <2>1. UNCHANGED <<disk, held, lock, loaded, seen, ident>>
    BY <1>18 DEF ProbeIdentity, ProbeFabric, ReadIdentity, memory
  <2>2. \A q \in Procs \ {p} : pc'[q] = pc[q]
    BY <1>2, <1>18 DEF ProbeIdentity, ProbeFabric, ReadIdentity, Step, TypeOK
  <2>3. /\ pc'[p] \in {"sawNoIdentity", "sawIdentity", "sawBoth", "NotCreated",
                       "NoIdentityFile", "Created"}
        /\ pc'[p] \in {"sawIdentity", "sawBoth"} => identity # NoId
    BY <1>1, <1>2, <1>18
    DEF ProbeIdentity, ProbeFabric, ReadIdentity, Step, TypeOK, IInv, StageMemory, PairMatches
  <2> QED
    BY <1>1, <1>2, <2>1, <2>2, <2>3, QuietStep
    DEF IInv, LockExclusive, Locked, Setup, Running
<1> QED
  BY <1>1, <1>3, <1>4, <1>5, <1>6, <1>7, <1>8, <1>9, <1>10, <1>11, <1>12, <1>13,
     <1>14, <1>15, <1>16, <1>17, <1>18
  DEF Next

--------------------------------------------------------------------------------
\* The invariant holds in every state of every behaviour: each run's stage
\* agrees with the files it wrote and the lock it holds.
THEOREM Consistent == Spec => []IInv
BY InitConsistent, StepConsistent, PTL DEF Spec

\* Every variable stays within its type.
THEOREM TypeCorrect == Spec => []TypeOK
<1>1. IInv => TypeOK
  BY DEF IInv
<1> QED
  BY <1>1, Consistent, PTL

\* identity.json always belongs to the fabric in the blob.
THEOREM PairAlwaysMatches == Spec => []PairMatches
<1>1. IInv => PairMatches
  BY DEF IInv
<1> QED
  BY <1>1, Consistent, PTL

\* No device is ever left holding a fabric whose key and blob are not on disk.
THEOREM NeverOrphans == Spec => []NoOrphan
<1>1. IInv => NoOrphan
  BY DEF IInv, NoOrphan, HeldByOwner, PairMatches
<1> QED
  BY <1>1, Consistent, PTL

\* An operation keeps one identity from its first to its last step, on disk and
\* in memory.
THEOREM CtxAlwaysCoherent == Spec => []CtxCoherent
<1>1. IInv => CtxCoherent
  BY DEF IInv, CtxCoherent, StageMemory, PairMatches
<1> QED
  BY <1>1, Consistent, PTL

\* Kills alone never lead to storage that ensure_fabric refuses.
THEOREM KillsNeverStrand == Spec => []NeverRefused
<1>1. IInv => NeverRefused
  BY DEF IInv
<1> QED
  BY <1>1, Consistent, PTL

\* `status` never raises a false alarm beside a bootstrapping run.
THEOREM StatusTruthful == Spec => []StatusNeverAlarms
<1>1. IInv => StatusNeverAlarms
  BY DEF IInv
<1> QED
  BY <1>1, Consistent, PTL

\* The one write that can change identity.json is the first one.
LEMMA IdentityStep == IInv /\ [Next]_vars => (identity # NoId => identity' = identity)
<1>1. SUFFICES ASSUME IInv, [Next]_vars, identity # NoId PROVE identity' = identity
  OBVIOUS
<1>2. CASE UNCHANGED vars
  BY <1>2 DEF vars, disk
<1>3. ASSUME NEW p \in Procs, StoreIdentity(p) \/ BumpIdentity(p)
      PROVE  identity' = identity
  BY <1>1, <1>3 DEF StoreIdentity, BumpIdentity, Step, IInv, StageMemory, Running
<1>4. ASSUME NEW p \in Procs,
             \/ StartCommission(p) \/ StartTargeted(p) \/ LockStorage(p)
             \/ LockBusy(p) \/ LoadState(p) \/ UseIdentity(p) \/ DiscardFabric(p)
             \/ RefuseUnreadable(p) \/ RefuseRemains(p) \/ BootstrapFabric(p)
             \/ RecordDevice(p) \/ RemoveRecord(p) \/ Stop(p)
             \/ ProbeIdentity(p) \/ ProbeFabric(p) \/ ReadIdentity(p)
             \/ \E d \in Devices : Join(p, d) \/ Leave(p, d)
      PROVE  identity' = identity
  BY <1>4
  DEF StartCommission, StartTargeted, LockStorage, LockBusy, LoadState, UseIdentity,
      DiscardFabric, RefuseUnreadable, RefuseRemains, BootstrapFabric, RecordDevice,
      RemoveRecord, Stop, ProbeIdentity, ProbeFabric, ReadIdentity, Join, Leave, disk
<1> QED
  BY <1>1, <1>2, <1>3, <1>4 DEF Next

\* The controller identity is minted once and never replaced.
THEOREM IdentityForever == Spec => IdentityNeverReplaced
<1>1. IInv /\ [Next]_vars => [identity # NoId => identity' = identity]_vars
  BY IdentityStep
<1> QED
  BY <1>1, Consistent, PTL DEF Spec, IdentityNeverReplaced

\* Only Join and Leave touch a device's fabric table.
LEMMA HeldStep ==
  ASSUME [Next]_vars,
         \A p \in Procs, d \in Devices : ~Join(p, d) /\ ~Leave(p, d)
  PROVE  held' = held
<1>1. CASE UNCHANGED vars
  BY <1>1 DEF vars
<1>2. ASSUME NEW p \in Procs,
             \/ StartCommission(p) \/ StartTargeted(p) \/ LockStorage(p)
             \/ LockBusy(p) \/ LoadState(p) \/ UseIdentity(p) \/ DiscardFabric(p)
             \/ RefuseUnreadable(p) \/ RefuseRemains(p) \/ BootstrapFabric(p)
             \/ StoreIdentity(p) \/ RecordDevice(p) \/ BumpIdentity(p)
             \/ RemoveRecord(p) \/ Stop(p)
             \/ ProbeIdentity(p) \/ ProbeFabric(p) \/ ReadIdentity(p)
      PROVE  held' = held
  BY <1>2
  DEF StartCommission, StartTargeted, LockStorage, LockBusy, LoadState, UseIdentity,
      DiscardFabric, RefuseUnreadable, RefuseRemains, BootstrapFabric, StoreIdentity,
      RecordDevice, BumpIdentity, RemoveRecord, Stop, ProbeIdentity, ProbeFabric,
      ReadIdentity
<1> QED
  BY <1>1, <1>2 DEF Next

\* Every step of the controller is a step of OneFabric or leaves it unchanged.
LEMMA StepRefines ==
  IInv /\ IInv' /\ [Next]_vars => [OneFabricOf!Next]_(OneFabricOf!vars)
<1>1. SUFFICES ASSUME IInv, IInv', [Next]_vars
               PROVE  OneFabricOf!Next \/ UNCHANGED <<identity, held>>
  BY DEF OneFabricOf!vars
<1>2. ASSUME NEW p \in Procs, NEW d \in Devices, Join(p, d) PROVE OneFabricOf!Join(d)
  BY <1>1, <1>2
  DEF Join, Step, disk, IInv, StageMemory, Running, OneFabricOf!Join, OneFabricOf!NoId, NoId
<1>3. ASSUME NEW p \in Procs, NEW d \in Devices, Leave(p, d) PROVE OneFabricOf!Leave(d)
  BY <1>1, <1>3
  DEF Leave, Step, disk, IInv, StageMemory, Running, OneFabricOf!Leave
<1>4. CASE \A p \in Procs, d \in Devices : ~Join(p, d) /\ ~Leave(p, d)
  <2>1. held' = held
    BY <1>1, <1>4, HeldStep
  <2>2. CASE identity # NoId
    BY <1>1, <2>1, <2>2, IdentityStep
  <2>3. CASE identity = NoId /\ identity' # identity
    <3>1. identity' \in 1..MaxIdentities
      BY <1>1, <2>3, FabricAssumption DEF IInv, TypeOK, IdOrNone, NoId
    <3> QED
      BY <2>1, <2>3, <3>1
      DEF OneFabricOf!Next, OneFabricOf!Mint, OneFabricOf!Identities, OneFabricOf!NoId, NoId
  <2> QED
    BY <2>1, <2>2, <2>3
<1> QED
  BY <1>2, <1>3, <1>4 DEF OneFabricOf!Next

\* Overlapping and killed runs implement one identity, minted once, that devices
\* join and leave.
THEOREM ImplementsOneFabric == Spec => RefinesOneFabric
<1>1. Init => OneFabricOf!Init
  BY DEF Init, OneFabricOf!Init, OneFabricOf!NoId, NoId
<1> QED
  BY <1>1, StepRefines, Consistent, PTL DEF Spec, RefinesOneFabric, OneFabricOf!Spec

--------------------------------------------------------------------------------
(* Damaged storage: files disappear and reads fail at any time.  What is left *)
(* of the invariant is what a run under the lock may still conclude from its  *)
(* snapshots: a file may be gone since, but it cannot be another one.          *)

\* What a run has in memory, against the files, at each of its stages.
Snapshot(p) ==
  /\ pc[p] = "loaded" => fabric \in {NoId, loaded[p]} /\ (seen[p] = "empty" => registry = {})
  /\ pc[p] = "persisted" => identity = NoId
  /\ pc[p] \in Running => identity \in {NoId, ident[p]}

DamageInv == TypeOK /\ LockExclusive /\ \A p \in Procs : Snapshot(p)

\* A step that run p takes.
Moves(p) ==
  \/ StartCommission(p) \/ StartTargeted(p) \/ LockStorage(p) \/ LockBusy(p)
  \/ LoadState(p) \/ UseIdentity(p) \/ DiscardFabric(p) \/ RefuseUnreadable(p)
  \/ RefuseRemains(p) \/ BootstrapFabric(p) \/ StoreIdentity(p) \/ RecordDevice(p)
  \/ BumpIdentity(p) \/ RemoveRecord(p) \/ Stop(p)
  \/ ProbeIdentity(p) \/ ProbeFabric(p) \/ ReadIdentity(p)
  \/ \E d \in Devices : Join(p, d) \/ Leave(p, d)
  \/ IdentityReadFails(p) \/ IdentityParseFails(p) \/ StatusReadFails(p)
  \/ RegistryReadFails(p) \/ RecordOverUnread(p) \/ RemoveOverUnread(p)

\* What happens to the storage from outside.
Loss == LoseFabric \/ LoseIdentity \/ LoseRecords

\* Every step is a run's own, a loss, or leaves everything alone.
LEMMA DamagedSteps ==
  [DamagedNext]_vars => (\E p \in Procs : Moves(p)) \/ Loss \/ UNCHANGED vars
BY DEF DamagedNext, Next, Moves, Loss

\* Failing reads and lost files keep the types as well.
LEMMA DamagedType == TypeOK /\ [DamagedNext]_vars => TypeOK'
<1> SUFFICES ASSUME TypeOK, [DamagedNext]_vars PROVE TypeOK'
  OBVIOUS
<1>1. CASE Next \/ UNCHANGED vars
  BY <1>1, StepType
<1>2. NoId \in IdOrNone
  BY FabricAssumption DEF NoId, IdOrNone
<1>3. ASSUME NEW p \in Procs, IdentityReadFails(p) \/ IdentityParseFails(p) \/ StatusReadFails(p)
      PROVE  TypeOK'
  BY <1>2, <1>3 DEF IdentityReadFails, IdentityParseFails, StatusReadFails, Step, TypeOK, disk,
     memory, Stages, Locked, Reports
<1>4. CASE Loss
  BY <1>2, <1>4 DEF Loss, LoseFabric, LoseIdentity, LoseRecords, TypeOK, memory
<1>5. ASSUME NEW p \in Procs, RegistryReadFails(p) \/ RecordOverUnread(p)
      PROVE  TypeOK'
  BY <1>5 DEF RegistryReadFails, RecordOverUnread, Step, TypeOK, disk, memory, Stages, Locked,
     Setup, Running, Views
<1>6. ASSUME NEW p \in Procs, RemoveOverUnread(p) PROVE TypeOK'
  BY <1>2, <1>6 DEF RemoveOverUnread, Ends, TypeOK, Stages, Views
<1> QED
  BY <1>1, <1>3, <1>4, <1>5, <1>6 DEF DamagedNext, Loss, vars

\* Nothing a run does reaches another one's memory.
LEMMA OthersKeep ==
  ASSUME TypeOK, NEW p \in Procs, Moves(p), NEW q \in Procs, q # p
  PROVE  /\ pc'[q] = pc[q] /\ loaded'[q] = loaded[q] /\ seen'[q] = seen[q]
         /\ ident'[q] = ident[q]
<1> USE DEF TypeOK, memory, Step
<1>1. CASE Ends(p)
  BY <1>1 DEF Ends
<1>2. CASE StartCommission(p) \/ StartTargeted(p) \/ LockStorage(p) \/ LoadState(p)
  BY <1>2 DEF StartCommission, StartTargeted, LockStorage, LoadState
<1>3. CASE UseIdentity(p) \/ DiscardFabric(p) \/ RefuseUnreadable(p) \/ RefuseRemains(p)
  BY <1>3 DEF UseIdentity, DiscardFabric, RefuseUnreadable, RefuseRemains
<1>4. CASE BootstrapFabric(p) \/ StoreIdentity(p) \/ RecordDevice(p)
  BY <1>4 DEF BootstrapFabric, StoreIdentity, RecordDevice
<1>5. CASE ProbeIdentity(p) \/ ProbeFabric(p) \/ ReadIdentity(p)
  BY <1>5 DEF ProbeIdentity, ProbeFabric, ReadIdentity
<1>6. CASE \E d \in Devices : Join(p, d) \/ Leave(p, d)
  BY <1>6 DEF Join, Leave
<1>7. CASE IdentityReadFails(p) \/ IdentityParseFails(p) \/ StatusReadFails(p)
  BY <1>7 DEF IdentityReadFails, IdentityParseFails, StatusReadFails
<1>8. CASE RegistryReadFails(p) \/ RecordOverUnread(p)
  BY <1>8 DEF RegistryReadFails, RecordOverUnread
<1> QED
  BY <1>1, <1>2, <1>3, <1>4, <1>5, <1>6, <1>7, <1>8
     DEF Moves, LockBusy, BumpIdentity, RemoveRecord, RemoveOverUnread, Stop

\* Whoever writes a file holds the lock.
LEMMA FilesUnderLock ==
  ASSUME NEW p \in Procs, Moves(p), pc[p] \notin Locked
  PROVE  UNCHANGED <<fabric, identity, registry>>
BY DEF Moves, Locked, Setup, Running, Step, disk, StartCommission, StartTargeted, LockStorage,
   LockBusy, LoadState, UseIdentity, DiscardFabric, RefuseUnreadable, RefuseRemains,
   BootstrapFabric, StoreIdentity, RecordDevice, BumpIdentity, RemoveRecord, Stop,
   ProbeIdentity, ProbeFabric, ReadIdentity, Join, Leave, IdentityReadFails,
   IdentityParseFails, StatusReadFails, RegistryReadFails, RecordOverUnread, RemoveOverUnread

\* A run takes the free lock and gives back its own.
LEMMA LockKept ==
  ASSUME TypeOK, LockExclusive, NEW p \in Procs, Moves(p)
  PROVE  LockExclusive'
<1>0. Free \notin Procs
  BY FabricAssumption
<1>1. ASSUME NEW q \in Procs, q # p, pc'[q] \in Locked PROVE lock' = q
  <2>1. pc[q] \in Locked /\ lock = q
    BY <1>1, OthersKeep DEF LockExclusive
  <2>2. pc[p] \notin Locked
    BY <1>1, <2>1 DEF LockExclusive
  <2> QED
    BY <1>0, <2>1, <2>2 DEF Moves, Ends, Step, StartCommission, StartTargeted, LockStorage,
       LockBusy, LoadState, UseIdentity, DiscardFabric, RefuseUnreadable, RefuseRemains,
       BootstrapFabric, StoreIdentity, RecordDevice, BumpIdentity, RemoveRecord, Stop,
       ProbeIdentity, ProbeFabric, ReadIdentity, Join, Leave, IdentityReadFails,
       IdentityParseFails, StatusReadFails, RegistryReadFails, RecordOverUnread,
       RemoveOverUnread, Locked, Setup, Running
<1>2. ASSUME pc'[p] \in Locked PROVE lock' = p
  <2>1. CASE Ends(p)
    BY <1>2, <2>1 DEF Ends, TypeOK, Locked, Setup, Running
  <2>2. CASE LockStorage(p)
    BY <2>2 DEF LockStorage
  <2>3. CASE lock' = lock /\ pc[p] \in Locked
    BY <2>3 DEF LockExclusive
  <2> QED
    BY <1>2, <2>1, <2>2, <2>3 DEF Moves, Step, TypeOK, StartCommission, StartTargeted,
       LockBusy, LoadState, UseIdentity, DiscardFabric, RefuseUnreadable, RefuseRemains,
       BootstrapFabric, StoreIdentity, RecordDevice, BumpIdentity, RemoveRecord, Stop,
       ProbeIdentity, ProbeFabric, ReadIdentity, Join, Leave, IdentityReadFails,
       IdentityParseFails, StatusReadFails, RegistryReadFails, RecordOverUnread,
       RemoveOverUnread, Locked, Setup, Running
<1> QED
  BY <1>1, <1>2 DEF LockExclusive

\* What a run remembers stays true when files under its feet are lost, not replaced.
LEMMA SnapshotSurvives ==
  ASSUME NEW q \in Procs, Snapshot(q),
         pc'[q] = pc[q], loaded'[q] = loaded[q], seen'[q] = seen[q], ident'[q] = ident[q],
         pc[q] \in Locked =>
           fabric' \in {fabric, NoId} /\ identity' \in {identity, NoId} /\ registry' \subseteq registry
  PROVE  Snapshot(q)'
BY DEF Snapshot, Locked, Setup

\* A run's own step leaves it with snapshots that are true.
LEMMA OwnSnapshot ==
  ASSUME DamageInv, [DamagedNext]_vars, NEW p \in Procs, Moves(p)
  PROVE  Snapshot(p)'
<1>0. TypeOK /\ Snapshot(p)
  BY DEF DamageInv
<1> USE DEF TypeOK, Snapshot, Running, Step, disk, memory
<1>1. CASE Ends(p)
  BY <1>0, <1>1 DEF Ends
<1>2. CASE StartCommission(p) \/ StartTargeted(p) \/ LockStorage(p) \/ LoadState(p)
  BY <1>0, <1>2 DEF StartCommission, StartTargeted, LockStorage, LoadState, ViewOf
<1>3. CASE UseIdentity(p)
  BY <1>0, <1>3 DEF UseIdentity
<1>4. CASE DiscardFabric(p)
  BY <1>0, <1>4 DEF DiscardFabric
<1>5. CASE RefuseUnreadable(p) \/ RefuseRemains(p)
  BY <1>0, <1>5 DEF RefuseUnreadable, RefuseRemains
<1>6. CASE BootstrapFabric(p) \/ StoreIdentity(p) \/ RecordDevice(p)
  BY <1>0, <1>6 DEF BootstrapFabric, StoreIdentity, RecordDevice
<1>7. CASE ProbeIdentity(p) \/ ProbeFabric(p) \/ ReadIdentity(p)
  BY <1>0, <1>7 DEF ProbeIdentity, ProbeFabric, ReadIdentity
<1>8. CASE \E d \in Devices : Join(p, d) \/ Leave(p, d)
  BY <1>0, <1>8 DEF Join, Leave
<1>9. CASE IdentityReadFails(p) \/ IdentityParseFails(p) \/ StatusReadFails(p)
  BY <1>0, <1>9 DEF IdentityReadFails, IdentityParseFails, StatusReadFails
<1>10. CASE RegistryReadFails(p) \/ RecordOverUnread(p)
  BY <1>0, <1>10 DEF RegistryReadFails, RecordOverUnread
<1> QED
  BY <1>1, <1>2, <1>3, <1>4, <1>5, <1>6, <1>7, <1>8, <1>9, <1>10
     DEF Moves, LockBusy, BumpIdentity, RemoveRecord, RemoveOverUnread, Stop

\* The invariant of damaged storage is inductive.
LEMMA DamageStep == DamageInv /\ [DamagedNext]_vars => DamageInv'
<1> SUFFICES ASSUME DamageInv, [DamagedNext]_vars PROVE DamageInv'
  OBVIOUS
<1>1. /\ TypeOK /\ TypeOK' /\ LockExclusive
      /\ \A q \in Procs : Snapshot(q)
  BY DamagedType DEF DamageInv
<1>2. ASSUME NEW p \in Procs, Moves(p) PROVE DamageInv'
  <2>1. LockExclusive'
    BY <1>1, <1>2, LockKept
  <2>2. ASSUME NEW q \in Procs, q # p PROVE Snapshot(q)'
    <3>1. pc[q] \in Locked => UNCHANGED <<fabric, identity, registry>>
      BY <1>1, <1>2, <2>2, FilesUnderLock DEF LockExclusive
    <3> QED
      BY <1>1, <1>2, <2>2, <3>1, OthersKeep, SnapshotSurvives
  <2>3. Snapshot(p)'
    BY <1>2, OwnSnapshot
  <2> QED
    BY <1>1, <2>1, <2>2, <2>3 DEF DamageInv
<1>3. CASE Loss \/ UNCHANGED vars
  <2>1. /\ UNCHANGED <<lock, pc, loaded, seen, ident>>
        /\ fabric' \in {fabric, NoId} /\ identity' \in {identity, NoId}
        /\ registry' \subseteq registry
    BY <1>3 DEF Loss, LoseFabric, LoseIdentity, LoseRecords, vars, disk, memory
  <2>2. LockExclusive'
    BY <1>1, <2>1 DEF LockExclusive
  <2>3. \A q \in Procs : Snapshot(q)'
    BY <1>1, <2>1, SnapshotSurvives
  <2> QED
    BY <1>1, <2>2, <2>3 DEF DamageInv
<1> QED
  BY <1>2, <1>3, DamagedSteps

\* Whatever is lost, a run under the lock is not misled by its snapshots.
THEOREM DamageContained == DamagedSpec => []DamageInv
<1>1. Init => DamageInv
  <2> SUFFICES ASSUME Init PROVE DamageInv
    OBVIOUS
  <2>1. TypeOK
    BY InitType
  <2> QED
    BY <2>1 DEF Init, DamageInv, LockExclusive, Snapshot, Locked, Setup, Running
<1> QED
  BY <1>1, DamageStep, PTL DEF DamagedSpec

\* An identity is generated only where no blob and no identity.json is left and no
\* record, unless devices.json could not be read, whatever was lost before.
THEOREM MintsOnlyIfSeenEmpty == DamagedSpec => MintOnlyIfSeenEmpty
<1>1. DamageInv /\ [DamagedNext]_vars =>
        (minted' # minted =>
           fabric = NoId /\ identity = NoId /\ (registry = {} \/ ReadAsEmpty))
  <2> SUFFICES ASSUME DamageInv, [DamagedNext]_vars, minted' # minted
               PROVE  fabric = NoId /\ identity = NoId /\ (registry = {} \/ ReadAsEmpty)
    OBVIOUS
  <2>1. PICK p \in Procs : BootstrapFabric(p)
    BY DamagedSteps DEF Moves, Loss, LoseFabric, LoseIdentity, LoseRecords, vars,
       StartCommission, StartTargeted, LockStorage, LockBusy, LoadState, UseIdentity,
       DiscardFabric, RefuseUnreadable, RefuseRemains, StoreIdentity, RecordDevice,
       BumpIdentity, RemoveRecord, Stop, ProbeIdentity, ProbeFabric, ReadIdentity, Join,
       Leave, IdentityReadFails, IdentityParseFails, StatusReadFails, RegistryReadFails,
       RecordOverUnread, RemoveOverUnread
  <2> QED
    BY <2>1 DEF DamageInv, LockExclusive, Snapshot, BootstrapFabric, Step, Locked, Setup,
       TypeOK, Views, Vacant, ReadAsEmpty
<1>2. DamageInv /\ [DamagedNext]_vars =>
        [minted' # minted =>
           fabric = NoId /\ identity = NoId /\ (registry = {} \/ ReadAsEmpty)]_vars
  BY <1>1
<1> QED
  BY <1>2, DamageContained, PTL DEF DamagedSpec, MintOnlyIfSeenEmpty

\* No run puts another identity in the place of one that is there.
THEOREM KeyStays == DamagedSpec => KeyNeverOverwritten
<1>1. DamageInv /\ [DamagedNext]_vars => (identity # NoId => identity' \in {identity, NoId})
  <2> SUFFICES ASSUME DamageInv, [DamagedNext]_vars, identity # NoId
               PROVE  identity' \in {identity, NoId}
    OBVIOUS
  <2>1. ASSUME NEW p \in Procs, StoreIdentity(p) \/ BumpIdentity(p)
        PROVE  identity' \in {identity, NoId}
    BY <2>1 DEF DamageInv, Snapshot, StoreIdentity, BumpIdentity, Step, Running
  <2> QED
    BY <2>1, DamagedSteps DEF Moves, Loss, LoseFabric, LoseIdentity, LoseRecords, vars, disk,
       StartCommission, StartTargeted, LockStorage, LockBusy, LoadState, UseIdentity,
       DiscardFabric, RefuseUnreadable, RefuseRemains, BootstrapFabric, RecordDevice,
       RemoveRecord, Stop, ProbeIdentity, ProbeFabric, ReadIdentity, Join, Leave,
       IdentityReadFails, IdentityParseFails, StatusReadFails, RegistryReadFails,
       RecordOverUnread, RemoveOverUnread
<1>2. DamageInv /\ [DamagedNext]_vars =>
        [(identity # NoId) => identity' \in {identity, NoId}]_vars
  BY <1>1
<1> QED
  BY <1>2, DamageContained, PTL DEF DamagedSpec, KeyNeverOverwritten

\* While a device is recorded the blob changes by being lost, or at the hands of a
\* run that read devices.json as empty.
THEOREM SeenBlobStays == DamagedSpec => SeenRecordsKeepFabric
<1>1. DamageInv /\ [DamagedNext]_vars =>
        (fabric # NoId /\ registry # {} /\ fabric' # fabric => LoseFabric \/ ReadAsEmpty)
  <2> SUFFICES ASSUME DamageInv, [DamagedNext]_vars,
                      fabric # NoId, registry # {}, fabric' # fabric
               PROVE  LoseFabric \/ ReadAsEmpty
    OBVIOUS
  <2>1. ASSUME NEW p \in Procs,
               UseIdentity(p) \/ DiscardFabric(p) \/ BootstrapFabric(p) \/ IdentityReadFails(p)
        PROVE  ReadAsEmpty
    BY <2>1 DEF DamageInv, LockExclusive, Snapshot, UseIdentity, DiscardFabric,
       BootstrapFabric, IdentityReadFails, Step, disk, Locked, Setup, TypeOK, Views, Vacant,
       ReadAsEmpty
  <2> QED
    BY <2>1, DamagedSteps DEF Moves, Loss, LoseIdentity, LoseRecords, vars, disk,
       StartCommission, StartTargeted, LockStorage, LockBusy, LoadState, RefuseUnreadable,
       RefuseRemains, StoreIdentity, RecordDevice, BumpIdentity, RemoveRecord, Stop,
       ProbeIdentity, ProbeFabric, ReadIdentity, Join, Leave, IdentityParseFails,
       StatusReadFails, RegistryReadFails, RecordOverUnread, RemoveOverUnread
<1>2. DamageInv /\ [DamagedNext]_vars =>
        [fabric # NoId /\ registry # {} /\ fabric' # fabric =>
           LoseFabric \/ ReadAsEmpty]_vars
  BY <1>1
<1> QED
  BY <1>2, DamageContained, PTL DEF DamagedSpec, SeenRecordsKeepFabric
================================================================================
