------------------------------ MODULE StorageDir -------------------------------
(***************************************************************************)
(* The storage directory itself: prepare_storage_dir, is_our_storage_dir   *)
(* and the .lock file of lock_storage (src/src/controller/mod.rs).  The    *)
(* operator names the path, may have a directory of his own there, and may *)
(* change its mode at any time; what he does is external.                  *)
(***************************************************************************)
CONSTANT Procs  \* invocations of the program that may overlap

VARIABLES
  dir,     \* whether there is a directory
  mode,    \* its mode: "private" is 0700
  others,  \* whether it holds files that are not this tool's
  markers, \* whether it holds one of MARKERS
  pc,      \* pc[p]: where run p is
  chosen,  \* history: the mode the operator gave it, "none" when he gave none
  foreign, \* history: whether others' files came before any of ours: "before"
           \* the first run, or "late", while one was at work; "no" otherwise
  opened   \* history: runs during which the operator made or opened it

disk    == <<dir, mode, others, markers>>
history == <<chosen, foreign, opened>>
vars    == <<disk, pc, history>>

Init ==
  /\ dir \in BOOLEAN
  /\ mode \in {"private", "open"}
  /\ others \in BOOLEAN /\ (others => dir)
  /\ markers = FALSE
  /\ pc = [p \in Procs |-> "idle"]
  /\ chosen = IF dir THEN mode ELSE "none"
  /\ foreign = IF others THEN "before" ELSE "no"
  /\ opened = {}

Step(p, from, to) ==
  /\ pc[p] = from
  /\ pc' = [pc EXCEPT ![p] = to]

Start(p) ==
  /\ Step(p, "idle", "check")
  /\ opened' = opened \ {p}
  /\ UNCHANGED <<disk, chosen, foreign>>

\* path.exists()
CheckDir(p) ==
  /\ Step(p, "check", IF dir THEN "claim" ELSE "create")
  /\ UNCHANGED <<disk, history>>

\* create_dir_all, with the default mode.
CreateDir_DefaultMode(p) ==
  /\ Step(p, "create", "prepared")
  /\ dir' = TRUE
  /\ mode' = IF dir THEN mode ELSE "open"
  /\ UNCHANGED <<others, markers, history>>

\* DirBuilder, recursive and 0700: nothing to do when it is there by now.
CreateDir(p) ==
  /\ Step(p, "create", "prepared")
  /\ dir' = TRUE
  /\ mode' = IF dir THEN mode ELSE "private"
  /\ UNCHANGED <<others, markers, history>>

\* is_our_storage_dir: a marker in it, or nothing at all; otherwise a warning.
ClaimDir(p) ==
  /\ Step(p, "claim", IF markers \/ ~others THEN "tighten" ELSE "prepared")
  /\ UNCHANGED <<disk, history>>

TightenDir(p) ==
  /\ Step(p, "tighten", "prepared")
  /\ mode' = "private"
  /\ UNCHANGED <<dir, others, markers, history>>

\* File::create of .lock, before the lock is tried.
CreateLockFile(p) ==
  /\ Step(p, "prepared", "working")
  /\ markers' = TRUE
  /\ UNCHANGED <<dir, mode, others, history>>

\* The lock is busy, the run is over, or it is killed.
End(p) ==
  /\ pc[p] # "idle"
  /\ pc' = [pc EXCEPT ![p] = "idle"]
  /\ UNCHANGED <<disk, history>>

--------------------------------------------------------------------------------
(* The operator.                                                            *)

Opening(m) == opened' = IF m = "open" THEN opened \cup {p \in Procs : pc[p] # "idle"} ELSE opened

MakeDir(m) ==
  /\ ~dir
  /\ dir' = TRUE
  /\ mode' = m /\ chosen' = m
  /\ Opening(m)
  /\ UNCHANGED <<others, markers, pc, foreign>>

Chmod(m) ==
  /\ dir /\ mode # m
  /\ mode' = m /\ chosen' = m
  /\ Opening(m)
  /\ UNCHANGED <<dir, others, markers, pc, foreign>>

DropFile ==
  /\ dir /\ ~others
  /\ others' = TRUE
  /\ foreign' = IF markers THEN "no"
                ELSE IF mode = chosen /\ \A p \in Procs : pc[p] = "idle" THEN "before"
                ELSE "late"
  /\ UNCHANGED <<dir, mode, markers, pc, chosen, opened>>

Next ==
  \/ \E p \in Procs :
       \/ Start(p) \/ CheckDir(p) \/ CreateDir(p) \/ ClaimDir(p) \/ TightenDir(p)
       \/ CreateLockFile(p) \/ End(p)
  \/ \E m \in {"private", "open"} : MakeDir(m) \/ Chmod(m)
  \/ DropFile

Spec == Init /\ [][Next]_vars

--------------------------------------------------------------------------------
(* Properties.                                                              *)

\* While a run works in a directory that is this tool's, the directory is 0700,
\* whatever overlapping runs do and however it was before, unless the operator
\* opened it meanwhile: the RCAC key is written there (prepare_storage_dir).
OwnDirPrivate ==
  \A p \in Procs : pc[p] \in {"prepared", "working"} /\ foreign = "no" /\ p \notin opened =>
    mode = "private"

\* "A pre-existing directory that shows no sign of belonging to this tool is left
\* untouched" (mod.rs:576): one that held others' files before the first run keeps the mode
\* the operator chose.
ForeignUntouched == foreign = "before" => mode = chosen
================================================================================
