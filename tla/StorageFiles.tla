----------------------------- MODULE StorageFiles ------------------------------
(***************************************************************************)
(* A state file in the storage directory: overlapping runs prepare the     *)
(* directory and its .lock (StorageDir), the one that gets the flock       *)
(* stores the file (AtomicFile), and a kill or a power loss ends run,      *)
(* store and lock together (run in src/src/controller/mod.rs).             *)
(***************************************************************************)
EXTENDS AtomicFile

VARIABLES dir, mode, others, markers, place, chosen, foreign, opened

Dir == INSTANCE StorageDir WITH pc <- place

dirVars == <<dir, mode, others, markers, place, chosen, foreign, opened>>

StorageInit == Init /\ Dir!Init

\* Preparing the directory, by a run or by the operator's hand.
DirStep ==
  /\ \/ \E p \in Procs :
          \/ Dir!Start(p) \/ Dir!CheckDir(p) \/ Dir!CreateDir(p) \/ Dir!ClaimDir(p)
          \/ Dir!TightenDir(p) \/ Dir!CreateLockFile(p)
     \/ \E m \in {"private", "open"} : Dir!MakeDir(m) \/ Dir!Chmod(m)
     \/ Dir!DropFile
  /\ UNCHANGED vars

\* A step on the lock or the file, by a run whose directory is prepared.
FileStep(p) ==
  /\ place[p] = "working"
  /\ \/ Lock(p) \/ Abandon(p)
     \/ \E v \in Values : OpenTmp(p, v)
     \/ WriteAll(p) \/ SyncAll(p) \/ RenameTmp(p) \/ RemoveFile(p)
  /\ UNCHANGED dirVars

\* A run ends, finished, refused or killed.
EndRun(p) ==
  /\ Dir!End(p)
  /\ IF p \in locked THEN Exit(p) ELSE UNCHANGED vars

Kernel == (Writeback \/ CommitRename) /\ UNCHANGED dirVars

Outage ==
  /\ PowerLoss
  /\ place' = [p \in Procs |-> "idle"]
  /\ UNCHANGED <<dir, mode, others, markers, chosen, foreign, opened>>

StorageNext ==
  \/ DirStep \/ Kernel \/ Outage
  \/ \E p \in Procs : FileStep(p) \/ EndRun(p)

StorageSpec == StorageInit /\ [][StorageNext]_<<vars, dirVars>>

--------------------------------------------------------------------------------
(* Properties.                                                              *)

\* While a run works in a directory that is this tool's, the directory is 0700,
\* whatever overlapping runs do and however it was before, unless the operator
\* opened it meanwhile: the RCAC key is written there (prepare_storage_dir).
OwnDirPrivate == Dir!OwnDirPrivate
================================================================================
