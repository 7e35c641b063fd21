-------------------------- MODULE StorageFilesProofs ---------------------------
(***************************************************************************)
(* Lock, temporary file, fsync and rename implement a durable register,    *)
(* for any runs and any set of contents; and what AtomicFile guarantees    *)
(* holds for runs that prepare their directory, end and lose power         *)
(* anywhere, and that directory is private.                                *)
(***************************************************************************)
EXTENDS StorageFiles, TLAPS

--------------------------------------------------------------------------------
(* The file.                                                                *)

\* Only the holder of the lock has a store open, so a step of one store leaves
\* what the invariant says of the others true.
LEMMA StepInv == IInv /\ [Next]_vars => IInv'
<1>1. SUFFICES ASSUME IInv, [Next]_vars PROVE IInv'
  OBVIOUS
<1> USE <1>1 DEF IInv, TypeOK, disk
<1>2. CASE UNCHANGED vars
  BY <1>2 DEF vars
<1>3. ASSUME NEW p \in Procs, Lock(p) PROVE IInv'
  BY <1>3 DEF Lock
<1>4. ASSUME NEW p \in Procs, Exit(p) PROVE IInv'
  BY <1>4 DEF Exit
<1>5. ASSUME NEW p \in Procs, Abandon(p) PROVE IInv'
  BY <1>5 DEF Abandon, Store
<1>6. ASSUME NEW p \in Procs, NEW v \in Values, OpenTmp(p, v) PROVE IInv'
  BY <1>6 DEF OpenTmp, Store
<1>7. ASSUME NEW p \in Procs, WriteAll(p) PROVE IInv'
  BY <1>7 DEF WriteAll, Store
<1>8. ASSUME NEW p \in Procs, SyncAll(p) PROVE IInv'
  BY <1>8 DEF SyncAll, Store
<1>9. ASSUME NEW p \in Procs, RenameTmp(p) PROVE IInv'
  BY <1>9 DEF RenameTmp, Store
<1>10. ASSUME NEW p \in Procs, RemoveFile(p) PROVE IInv'
  BY <1>10 DEF RemoveFile, Store
<1>11. CASE Writeback
  BY <1>11 DEF Writeback
<1>12. CASE CommitRename
  BY <1>12 DEF CommitRename
<1>13. CASE PowerLoss
  BY <1>13 DEF PowerLoss
<1> QED
  BY <1>2, <1>3, <1>4, <1>5, <1>6, <1>7, <1>8, <1>9, <1>10, <1>11, <1>12, <1>13 DEF Next

\* The file under the name is whole, and so is what a power loss brings back, in
\* every reachable state.
THEOREM AlwaysWhole == Spec => []IInv
<1>1. Init => IInv
  BY DEF Init, IInv, TypeOK
<1> QED
  BY <1>1, StepInv, PTL DEF Spec

\* A step of a run, the kernel or the power supply is a step of the durable
\* register, or invisible in it.
LEMMA StepRefines == IInv /\ [Next]_vars => [Register!Next]_(Register!vars)
<1>1. SUFFICES ASSUME IInv, [Next]_vars
               PROVE  Register!Next \/ UNCHANGED <<file, saved>>
  BY DEF Register!vars
<1>2. ASSUME NEW p \in Procs, RenameTmp(p) PROVE Register!Next
  BY <1>1, <1>2 DEF IInv, TypeOK, RenameTmp, Store, Register!Next, Register!Write
<1>3. ASSUME NEW p \in Procs, RemoveFile(p) PROVE Register!Next
  BY <1>3 DEF RemoveFile, Register!Next, Register!Remove
<1>4. CASE CommitRename
  BY <1>1, <1>4 DEF IInv, CommitRename, Register!Next, Register!Persist
<1>5. CASE PowerLoss
  BY <1>5 DEF PowerLoss, Register!Next, Register!PowerLoss
<1>6. ASSUME NEW p \in Procs,
             Lock(p) \/ Exit(p) \/ Abandon(p) \/ (\E v \in Values : OpenTmp(p, v))
               \/ WriteAll(p) \/ SyncAll(p)
      PROVE  UNCHANGED <<file, saved>>
  BY <1>6 DEF Lock, Exit, Abandon, OpenTmp, WriteAll, SyncAll, disk
<1>7. CASE Writeback
  BY <1>7 DEF Writeback
<1>8. CASE UNCHANGED vars
  BY <1>8 DEF vars, disk
<1> QED
  BY <1>1, <1>2, <1>3, <1>4, <1>5, <1>6, <1>7, <1>8 DEF Next

\* store implements an atomic, durable replacement of a file: no reader and no
\* power loss ever meets a torn one.
THEOREM ImplementsRegister == Spec => RefinesRegister
<1>1. Init => Register!Init
  BY DEF Init, Register!Init
<1> QED
  BY <1>1, StepRefines, AlwaysWhole, PTL DEF Spec, RefinesRegister, Register!Spec

--------------------------------------------------------------------------------
(* Runs that prepare their directory.                                       *)

\* Every step of the composition is a step of the lock and the file, or leaves
\* both alone.
LEMMA StepIsFileStep == [StorageNext]_<<vars, dirVars>> => [Next]_vars
<1>1. SUFFICES ASSUME StorageNext PROVE Next \/ UNCHANGED vars
  BY DEF vars
<1>2. CASE DirStep
  BY <1>2 DEF DirStep
<1>3. CASE Kernel
  BY <1>3 DEF Kernel, Next
<1>4. CASE Outage
  BY <1>4 DEF Outage, Next
<1>5. ASSUME NEW p \in Procs, FileStep(p) PROVE Next
  BY <1>5 DEF FileStep, Next
<1>6. ASSUME NEW p \in Procs, EndRun(p) PROVE Next \/ UNCHANGED vars
  BY <1>6 DEF EndRun, Next
<1> QED
  BY <1>1, <1>2, <1>3, <1>4, <1>5, <1>6 DEF StorageNext

\* The composition implements AtomicFile: nothing that happens to the directory
\* gets between the steps of a store.
THEOREM ImplementsAtomicFile == StorageSpec => Spec
<1>1. StorageInit => Init
  BY DEF StorageInit
<1> QED
  BY <1>1, StepIsFileStep, PTL DEF StorageSpec, Spec

\* A state file is whole whatever runs overlap in the directory.
THEOREM StoredWhole == StorageSpec => []IInv
BY ImplementsAtomicFile, AlwaysWhole, PTL

\* A state file implements a durable register whatever runs overlap.
THEOREM StoredDurably == StorageSpec => RefinesRegister
BY ImplementsAtomicFile, ImplementsRegister, PTL

--------------------------------------------------------------------------------
(* The directory.                                                           *)

Places == {"idle", "check", "create", "claim", "tighten", "prepared", "working"}

\* A run that found no directory meets a private one, or makes it; others' files
\* without ours show in foreign; and what is claimed has been tightened.
DirInv ==
  /\ place \in [Procs -> Places]
  /\ dir \in BOOLEAN /\ others \in BOOLEAN /\ markers \in BOOLEAN
  /\ opened \in SUBSET Procs
  /\ others => dir
  /\ foreign # "no" => others
  /\ others /\ ~markers => foreign # "no"
  /\ \A p \in Procs :
       /\ place[p] \in {"claim", "tighten", "prepared", "working"} => dir
       /\ place[p] = "create" /\ dir /\ p \notin opened => mode = "private"
       /\ place[p] \in {"prepared", "working"} /\ foreign = "no" /\ p \notin opened =>
            mode = "private"

LEMMA DirStepInv == DirInv /\ [StorageNext]_<<vars, dirVars>> => DirInv'
<1>1. SUFFICES ASSUME DirInv, [StorageNext]_<<vars, dirVars>> PROVE DirInv'
  OBVIOUS
<1> USE <1>1 DEF DirInv, Places, Dir!disk, Dir!history, Dir!Step
<1>2. CASE UNCHANGED dirVars
  BY <1>2 DEF dirVars
<1>3. ASSUME NEW p \in Procs, Dir!Start(p) PROVE DirInv'
  BY <1>3 DEF Dir!Start
<1>4. ASSUME NEW p \in Procs, Dir!CheckDir(p) PROVE DirInv'
  BY <1>4 DEF Dir!CheckDir
<1>5. ASSUME NEW p \in Procs, Dir!CreateDir(p) PROVE DirInv'
  BY <1>5 DEF Dir!CreateDir
<1>6. ASSUME NEW p \in Procs, Dir!ClaimDir(p) PROVE DirInv'
  BY <1>6 DEF Dir!ClaimDir
<1>7. ASSUME NEW p \in Procs, Dir!TightenDir(p) PROVE DirInv'
  BY <1>7 DEF Dir!TightenDir
<1>8. ASSUME NEW p \in Procs, Dir!CreateLockFile(p) PROVE DirInv'
  BY <1>8 DEF Dir!CreateLockFile
<1>9. ASSUME NEW p \in Procs, Dir!End(p) PROVE DirInv'
  BY <1>9 DEF Dir!End
<1>10. ASSUME NEW m \in {"private", "open"}, Dir!MakeDir(m) PROVE DirInv'
  BY <1>10 DEF Dir!MakeDir, Dir!Opening
<1>11. ASSUME NEW m \in {"private", "open"}, Dir!Chmod(m) PROVE DirInv'
  BY <1>11 DEF Dir!Chmod, Dir!Opening
<1>12. CASE Dir!DropFile
  BY <1>12 DEF Dir!DropFile
<1>13. CASE Outage
  BY <1>13 DEF Outage
<1> QED
  BY <1>2, <1>3, <1>4, <1>5, <1>6, <1>7, <1>8, <1>9, <1>10, <1>11, <1>12, <1>13
  DEF StorageNext, DirStep, Kernel, FileStep, EndRun, dirVars

\* The directory of a run at work is 0700 for any number of overlapping runs,
\* unless it is somebody else's or the operator opened it meanwhile.
THEOREM AlwaysPrivate == StorageSpec => []OwnDirPrivate
<1>1. StorageInit => DirInv
  BY DEF StorageInit, Dir!Init, DirInv, Places
<1>2. DirInv => OwnDirPrivate
  BY DEF DirInv, OwnDirPrivate, Dir!OwnDirPrivate
<1> QED
  BY <1>1, <1>2, DirStepInv, PTL DEF StorageSpec
================================================================================
