------------------------------ MODULE AtomicFile -------------------------------
(***************************************************************************)
(* One state file, written the way state::store and AtomicKvBlobStore do   *)
(* (src/src/state.rs, src/src/controller/mod.rs): truncate a temporary     *)
(* file, write it, fsync it, rename it over the real one.  All runs use    *)
(* the same temporary name; the flock of lock_storage keeps them apart.    *)
(*                                                                         *)
(* Below the program is a page cache and a disk.  The kernel writes back   *)
(* file contents whenever it likes, commits a rename some time after it    *)
(* was made, and does neither for what nobody asked it to sync; this part  *)
(* is external.                                                            *)
(***************************************************************************)
CONSTANTS Procs,   \* invocations of the program that may overlap
          Values,  \* contents they store
          None,    \* no such file
          Torn     \* contents that are no value: empty, or cut short

ASSUME FileAssumption == None \notin Values /\ Torn \notin Values /\ Torn # None

VARIABLES
  file,      \* contents a reader finds under the name
  filePlate, \* contents of that same file on the platter
  saved,     \* contents a reader would find after a power loss now
  tmp,       \* contents of the temporary file in the cache
  tmpPlate,  \* contents of the temporary file on the platter
  locked,    \* runs that hold the flock
  pc,        \* pc[p]: where p's store is
  body       \* body[p]: what p is storing

disk == <<file, filePlate, saved, tmp, tmpPlate>>
vars == <<disk, locked, pc, body>>

TypeOK ==
  /\ file \in Values \cup {None, Torn}
  /\ filePlate \in Values \cup {None, Torn}
  /\ saved \in Values \cup {None, Torn}
  /\ tmp \in Values \cup {None, Torn}
  /\ tmpPlate \in Values \cup {None, Torn}
  /\ locked \in SUBSET Procs
  /\ pc \in [Procs -> {"idle", "opened", "written", "synced"}]
  /\ body \in [Procs -> Values \cup {None}]

Init ==
  /\ file = None /\ filePlate = None /\ saved = None
  /\ tmp = None /\ tmpPlate = None
  /\ locked = {}
  /\ pc = [p \in Procs |-> "idle"] /\ body = [p \in Procs |-> None]

\* A run that goes on although another one has the lock.
Lock_Unchecked(p) ==
  /\ p \notin locked
  /\ locked' = locked \cup {p}
  /\ UNCHANGED <<disk, pc, body>>

\* flock with LOCK_NB.
Lock(p) ==
  /\ locked = {}
  /\ locked' = {p}
  /\ UNCHANGED <<disk, pc, body>>

\* A step of p's store.
Store(p, from, to) ==
  /\ p \in locked
  /\ pc[p] = from
  /\ pc' = [pc EXCEPT ![p] = to]
  /\ UNCHANGED locked

\* open(truncate) of the temporary file, which a killed run may have left.
OpenTmp(p, v) ==
  /\ Store(p, "idle", "opened")
  /\ body' = [body EXCEPT ![p] = v]
  /\ tmp' = Torn
  /\ tmpPlate' \in {tmpPlate, Torn}
  /\ UNCHANGED <<file, filePlate, saved>>

\* A store that overwrites the file in place, as rs-matter's DirKvBlobStore.
WriteAll_InPlace(p) ==
  /\ Store(p, "opened", "written")
  /\ tmp' = body[p]
  /\ file' = Torn
  /\ UNCHANGED <<filePlate, saved, tmpPlate, body>>

WriteAll(p) ==
  /\ Store(p, "opened", "written")
  /\ tmp' = body[p]
  /\ UNCHANGED <<file, filePlate, saved, tmpPlate, body>>

\* write_private without its last line.
SyncAll_Skipped(p) ==
  /\ Store(p, "written", "synced")
  /\ UNCHANGED <<disk, body>>

\* sync_all of the temporary file.
SyncAll(p) ==
  /\ Store(p, "written", "synced")
  /\ tmpPlate' = tmp
  /\ UNCHANGED <<file, filePlate, saved, tmp, body>>

\* rename over the real file; the directory itself is not synced.
RenameTmp(p) ==
  /\ Store(p, "synced", "idle")
  /\ file' = tmp
  /\ filePlate' = tmpPlate
  /\ tmp' = None /\ tmpPlate' = None
  /\ body' = [body EXCEPT ![p] = None]
  /\ UNCHANGED saved

\* AtomicKvBlobStore::remove: the name goes, a left-over temporary file stays.
RemoveFile(p) ==
  /\ Store(p, "idle", "idle")
  /\ file' = None /\ filePlate' = None
  /\ UNCHANGED <<saved, tmp, tmpPlate, body>>

\* A failed step returns: the temporary file stays.
Abandon(p) ==
  /\ Store(p, pc[p], "idle")
  /\ body' = [body EXCEPT ![p] = None]
  /\ UNCHANGED disk

\* The run ends or is killed, wherever its store is: the kernel frees its lock.
Exit(p) ==
  /\ p \in locked
  /\ locked' = locked \ {p}
  /\ pc' = [pc EXCEPT ![p] = "idle"]
  /\ body' = [body EXCEPT ![p] = None]
  /\ UNCHANGED disk

\* External: the kernel writes the temporary file back on its own.
Writeback ==
  /\ tmpPlate' = tmp
  /\ UNCHANGED <<file, filePlate, saved, tmp, locked, pc, body>>

\* External: the rename or the removal becomes durable, with what the platter has.
CommitRename ==
  /\ saved' = filePlate
  /\ UNCHANGED <<file, filePlate, tmp, tmpPlate, locked, pc, body>>

\* External: the power goes, and with it the cache and every run.
PowerLoss ==
  /\ locked' = {}
  /\ pc' = [p \in Procs |-> "idle"] /\ body' = [p \in Procs |-> None]
  /\ file' = saved
  /\ filePlate' = saved
  /\ tmp' \in {tmpPlate, None}
  /\ tmpPlate' = tmp'
  /\ UNCHANGED saved

Next ==
  \/ \E p \in Procs :
       \/ Lock(p) \/ Exit(p) \/ Abandon(p)
       \/ \E v \in Values : OpenTmp(p, v)
       \/ WriteAll(p) \/ SyncAll(p) \/ RenameTmp(p) \/ RemoveFile(p)
  \/ Writeback \/ CommitRename \/ PowerLoss

Spec == Init /\ [][Next]_vars

--------------------------------------------------------------------------------
(* Properties.                                                              *)

\* What is on the platter under the name is what a run wrote, and the temporary
\* file is durable before it is renamed: one run writes at a time.
IInv ==
  /\ TypeOK
  /\ \A p, q \in locked : p = q
  /\ \A p \in Procs : pc[p] # "idle" => p \in locked /\ body[p] \in Values
  /\ file \in Values \cup {None} /\ saved \in Values \cup {None}
  /\ filePlate = file
  /\ \A p \in Procs :
       /\ pc[p] \in {"written", "synced"} => tmp = body[p]
       /\ pc[p] = "synced" => tmpPlate = body[p]

\* The abstract file, with the cache as its value and the platter as what is
\* safe.
Register == INSTANCE DurableRegister WITH value <- file, safe <- saved

\* A state file is always whole, whatever runs overlap, and a power loss at any
\* moment brings back a whole one ("otherwise a power loss can surface the rename
\* with empty content", write_private).
RefinesRegister == Register!Spec
================================================================================
