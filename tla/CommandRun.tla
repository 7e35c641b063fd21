------------------------------ MODULE CommandRun -------------------------------
(***************************************************************************)
(* One invocation after the other, from the command line to the exit code: *)
(* main, Target and the run_* functions (src/src/main.rs), Config::load    *)
(* (src/src/config.rs), the loops of the operations over their targets     *)
(* (src/src/controller/ops.rs) with their writes to devices.json, and      *)
(* Output::exit_code (src/src/output.rs).  One device is one step here,    *)
(* with the outcomes that SyncDevice and DeviceRegistry derive; what       *)
(* overlapping runs do to the registry is in DeviceRegistry.               *)
(***************************************************************************)
EXTENDS HostClock, PairingCode

CONSTANTS MaxNode,   \* bound: node ids that are given out
          Lacking,   \* devices without the Time Synchronization cluster
          Configs,   \* configuration files an operator may have and name
          LabelMax,  \* FABRIC_LABEL_MAX_LENGTH
          Codes,     \* what an operator may type as pairing code
          Windows,   \* devices with an open pairing window
          Skews,     \* host clock minus true time
          MaxRuns,   \* bound: runs in a behaviour
          None

Nodes == 1..MaxNode
Commands == {"none", "status", "inspect", "commission", "sync", "decommission"}

ASSUME CommandAssumption ==
  /\ MaxNode \in Nat /\ MaxRuns \in Nat /\ LabelMax \in Nat
  /\ Lacking \subseteq Nodes
  /\ Codes \subseteq Code /\ Windows \subseteq Onboarding
  /\ Skews \subseteq Int
  /\ None \notin Nodes /\ None \notin Code /\ None \notin Onboarding

VARIABLES
  run,        \* the number of the run
  known,      \* node ids recorded in devices.json
  next,       \* next_device_node_id
  member,     \* node ids whose devices are on our fabric
  attempted,  \* attempted[n]: run of last_attempted_sync, 0 when never
  synced,     \* synced[n]: run of last_successful_sync, 0 when never
  error,      \* error[n]: whether last_error is set
  command,    \* what the run was started for
  config,     \* the configuration it was given
  manual,     \* whether it has a --time
  asked,      \* the node that --node names, None without it
  code,       \* the pairing code typed, None for other commands
  skew,       \* the host's clock during the run
  onboarding, \* what the code decoded to
  trusted,    \* verdict of clock_is_ntp_synchronized
  targets,    \* what Target::resolve made of asked
  node,       \* the node at work, as a set of at most one
  outcomes,   \* outcomes[n]: what was returned for n, "none" before
  pc,         \* where the run is
  exit,       \* exit code of the last run that was not killed, 9 before any
  set,        \* history: set[n]: run that last sent n's device a time the device
              \* then reads back, taken or shown already
  cut         \* history: <<run, node>> of the results that were never recorded

record == <<attempted, synced, error>>
given  == <<run, command, config, manual, asked, code, skew>>
memory == <<onboarding, trusted, targets, outcomes>>
vars   == <<known, next, member, record, given, memory, node, pc, exit, set, cut>>

Results == {"success", "skipped", "failed"}
Runs == 0..MaxRuns

GivenOK ==
  /\ run \in Runs
  /\ command \in Commands /\ config \in Configs /\ manual \in BOOLEAN
  /\ asked \in Nodes \cup {None} /\ code \in Codes \cup {None} /\ skew \in Skews

RegistryOK ==
  /\ next \in 1..(MaxNode + 1)
  /\ known \in SUBSET (1..next) /\ member \in SUBSET (1..next)

RecordOK ==
  /\ attempted \in [Nodes -> Runs] /\ synced \in [Nodes -> Runs]
  /\ error \in [Nodes -> BOOLEAN]
  /\ set \in [Nodes -> Runs]
  /\ cut \in SUBSET (Runs \X Nodes)

WorkOK ==
  /\ onboarding \in Onboarding \cup {None}
  /\ trusted \in {"no", "sntp", "timedatectl"}
  /\ targets \in SUBSET (1..next)
  /\ node \in SUBSET targets /\ \A n, m \in node : n = m
  /\ outcomes \in [Nodes -> Results \cup {"none"}]
  /\ pc \in {"idle", "config", "code", "gate", "resolve", "open", "loop", "contacting",
             "left", "resulting", "join", "joined", "recorded", "report"}
  /\ exit \in {0, 1, 2, 9}

TypeOK == GivenOK /\ RegistryOK /\ RecordOK /\ WorkOK

Init ==
  /\ run = 0
  /\ next \in Nodes
  /\ known \in SUBSET (1..(next - 1)) /\ member = known
  /\ attempted = [n \in Nodes |-> 0] /\ synced = [n \in Nodes |-> 0]
  /\ error = [n \in Nodes |-> FALSE]
  /\ command = "none" /\ config \in Configs /\ manual = FALSE
  /\ asked = None /\ code = None /\ skew \in Skews
  /\ onboarding = None /\ trusted = "no" /\ targets = {} /\ node = {}
  /\ outcomes = [n \in Nodes |-> "none"]
  /\ pc = "idle"
  /\ exit = 9
  /\ set = [n \in Nodes |-> 0]
  /\ cut = {}

\* The run goes on at another place; nothing of it is printed yet.
GoTo(place) == pc' = place /\ UNCHANGED <<exit, node>>

\* The run prints its output and returns its exit code.
Exit(status) == pc' = "idle" /\ exit' = status /\ node' = {}

files == <<known, next, record>>
devices == <<member, set>>

--------------------------------------------------------------------------------
(* main: the command line and the configuration.                            *)

Invoke ==
  /\ pc = "idle" /\ run < MaxRuns
  /\ run' = run + 1
  /\ command' \in Commands
  /\ config' \in Configs
  /\ manual' \in IF command' = "sync" THEN BOOLEAN ELSE {FALSE}
  /\ asked' \in IF command' \in {"inspect", "sync", "decommission"} THEN Nodes \cup {None}
                ELSE {None}
  /\ code' \in IF command' = "commission" THEN Codes ELSE {None}
  /\ skew' \in IF command' = "sync" THEN Skews ELSE {skew}
  /\ onboarding' = None /\ trusted' = "no" /\ targets' = {}
  /\ outcomes' = [n \in Nodes |-> "none"]
  /\ GoTo("config")
  /\ UNCHANGED <<files, devices, cut>>

\* A missing file is the defaults, also when the operator named it.
Loads_Optional(c) ==
  \/ c.found = "no"
  \/ c.found = "yes" /\ c.parses /\ c.absolute /\ c.zone /\ c.label \in 1..LabelMax

\* Config::load of a named file, load_optional of the default one; validate.
Loads(c) ==
  \/ c.found = "no" /\ ~c.explicit
  \/ c.found = "yes" /\ c.parses /\ c.absolute /\ c.zone /\ c.label \in 1..LabelMax

LoadConfig ==
  /\ pc = "config"
  /\ IF command = "none" \/ ~Loads(config)
       THEN Exit(2)
       ELSE GoTo(CASE command = "status" -> "report"
                   [] command = "commission" -> "code"
                   [] command = "sync" -> "gate"
                   [] OTHER -> "resolve")
  /\ UNCHANGED <<files, devices, given, memory, cut>>

\* run_commission: parse_manual_code, before anything is opened.
ParseCode ==
  /\ pc = "code"
  /\ IF Accepts(code)
       THEN GoTo("open") /\ onboarding' = Decode(code)
       ELSE Exit(1) /\ UNCHANGED onboarding
  /\ UNCHANGED <<files, devices, given, trusted, targets, outcomes, cut>>

\* run_sync: --time does not parse, or cannot be placed in the zone.
RejectTime ==
  /\ pc = "gate" /\ manual
  /\ Exit(1)
  /\ UNCHANGED <<files, devices, given, memory, cut>>

VerdictsOf == [s \in Skews |-> Verdicts(s)]

\* A gate that asks for the time source only when there is no --node.
Gate_OnlyWithoutNode ==
  /\ pc = "gate"
  /\ trusted' \in VerdictsOf[skew]
  /\ IF trusted' = "no" /\ ~manual /\ asked = None THEN Exit(1) ELSE GoTo("resolve")
  /\ UNCHANGED <<files, devices, given, onboarding, targets, outcomes, cut>>

\* Without --time, a host clock that is not disciplined ends the run with an
\* empty report.
Gate ==
  /\ pc = "gate"
  /\ trusted' \in VerdictsOf[skew]
  /\ IF trusted' = "no" /\ ~manual THEN Exit(1) ELSE GoTo("resolve")
  /\ UNCHANGED <<files, devices, given, onboarding, targets, outcomes, cut>>

\* A node that is taken as named, known or not.
ResolveTargets_AsNamed ==
  /\ pc = "resolve"
  /\ IF known = {} /\ command # "inspect"
       THEN Exit(1) /\ UNCHANGED targets
       ELSE /\ targets' = IF asked = None THEN known ELSE {asked}
            /\ GoTo(IF targets' = {} THEN "report" ELSE "open")
  /\ UNCHANGED <<files, devices, given, onboarding, trusted, outcomes, cut>>

\* Target::resolve, and resolve_or_empty for inspect: a named node must be known,
\* and somebody must be unless it is only to be read.
ResolveTargets ==
  /\ pc = "resolve"
  /\ IF (known = {} /\ command # "inspect") \/ asked \notin known \cup {None}
       THEN Exit(1) /\ UNCHANGED targets
       ELSE /\ targets' = IF asked = None THEN known ELSE {asked}
            /\ GoTo(IF targets' = {} THEN "report" ELSE "open")
  /\ UNCHANGED <<files, devices, given, onboarding, trusted, outcomes, cut>>

\* controller::run: the lock, the fabric, the sockets; any of them may fail.
OpenController ==
  /\ pc = "open"
  /\ GoTo(IF command = "commission" THEN "join" ELSE "loop") \/ Exit(1)
  /\ UNCHANGED <<files, devices, given, memory, cut>>

--------------------------------------------------------------------------------
(* The operations.                                                          *)

Waiting == {n \in targets : outcomes[n] = "none"}

Returned(n, result) == outcomes' = [outcomes EXCEPT ![n] = result]

\* Where the loop goes after its last target.
Onward(left) == pc' = IF left = {} THEN "report" ELSE "loop"

\* devices.json or identity.json cannot be written: the whole run ends with an
\* error, and what the devices before this one answered is not reported.
StoreFails ==
  /\ \/ pc = "loop" /\ command = "sync" /\ Waiting # {}
     \/ pc \in {"resulting", "joined", "recorded"}
  /\ cut' = cut \cup ({run} \X node)
  /\ Exit(1)
  /\ UNCHANGED <<files, devices, given, memory>>

\* SyncOp: last_attempted_sync is stored before the device is contacted.
StoreAttempt ==
  /\ pc = "loop" /\ command = "sync"
  /\ \E n \in Waiting :
       /\ node' = {n}
       /\ attempted' = [attempted EXCEPT ![n] = run]
  /\ pc' = "contacting"
  /\ UNCHANGED <<known, next, synced, error, devices, given, memory, exit, cut>>

\* InspectOp and DecommissionOp turn to their next target.
Contact ==
  /\ pc = "loop" /\ command \in {"inspect", "decommission"}
  /\ \E n \in Waiting : node' = {n}
  /\ pc' = "contacting"
  /\ UNCHANGED <<files, devices, given, memory, exit, cut>>

\* External: the device takes the time, or ignores it and reads right (SyncDevice),
\* whatever becomes of the sync after that.
TakeTime ==
  /\ pc = "contacting" /\ command = "sync"
  /\ \E n \in (node \cap member) \ Lacking : set[n] # run /\ set' = [set EXCEPT ![n] = run]
  /\ UNCHANGED <<files, member, given, memory, node, pc, exit, cut>>

\* sync_one: a success has read the time back, and only a device without the
\* cluster is skipped; a device that is not on our fabric does not answer.
SyncOne ==
  /\ pc = "contacting" /\ command = "sync"
  /\ \E n \in node, result \in Results :
       /\ result = "skipped" => n \in Lacking \cap member
       /\ result = "success" => set[n] = run
       /\ Returned(n, result)
  /\ GoTo("resulting")
  /\ UNCHANGED <<files, devices, given, onboarding, trusted, targets, cut>>

\* run: the transport or the mDNS pump ends before the operation, which is dropped
\* at whatever it waits for.
PumpEnds ==
  /\ pc \in {"contacting", "left"}
  /\ cut' = cut \cup ({run} \X node)
  /\ Exit(1)
  /\ UNCHANGED <<files, devices, given, memory>>

\* A result that keeps the error of an earlier run, and records no new one.
StoreResult_SuccessOnly ==
  /\ pc = "resulting" /\ command = "sync"
  /\ \E n \in node :
       IF outcomes[n] = "success"
         THEN synced' = [synced EXCEPT ![n] = run] /\ error' = [error EXCEPT ![n] = FALSE]
         ELSE UNCHANGED <<synced, error>>
  /\ node' = {}
  /\ Onward(Waiting)
  /\ UNCHANGED <<known, next, attempted, devices, given, memory, exit, cut>>

\* The result is stored: a success clears last_error, anything else sets it.
StoreResult ==
  /\ pc = "resulting" /\ command = "sync"
  /\ \E n \in node :
       IF outcomes[n] = "success"
         THEN synced' = [synced EXCEPT ![n] = run] /\ error' = [error EXCEPT ![n] = FALSE]
         ELSE error' = [error EXCEPT ![n] = TRUE] /\ UNCHANGED synced
  /\ node' = {}
  /\ Onward(Waiting)
  /\ UNCHANGED <<known, next, attempted, devices, given, memory, exit, cut>>

\* inspect_one: reads only; a device without the cluster fails.
InspectOne ==
  /\ pc = "contacting" /\ command = "inspect"
  /\ \E n \in node, result \in {"success", "failed"} :
       /\ result = "success" => n \in member \ Lacking
       /\ Returned(n, result)
       /\ Onward(Waiting \ node)
  /\ node' = {}
  /\ UNCHANGED <<files, devices, given, onboarding, trusted, targets, exit, cut>>

\* External: the device executes RemoveFabric.
DropFabric ==
  /\ pc = "contacting" /\ command = "decommission"
  /\ node \subseteq member
  /\ member' = member \ node
  /\ GoTo("left")
  /\ UNCHANGED <<files, set, given, memory, cut>>

\* decommission_one succeeds: an answer of any status, also of a device that
\* refused.
LeaveOne ==
  /\ pc = "left" \/ (pc = "contacting" /\ node \subseteq member)
  /\ command = "decommission"
  /\ \E n \in node : Returned(n, "success")
  /\ GoTo("resulting")
  /\ UNCHANGED <<files, devices, given, onboarding, trusted, targets, cut>>

\* decommission_one fails: no entry of ours, no connection, or the answer lost; the
\* loop goes on.
LeaveFails ==
  /\ pc \in {"contacting", "left"} /\ command = "decommission"
  /\ \E n \in node : Returned(n, "failed")
  /\ node' = {}
  /\ Onward(Waiting \ node)
  /\ UNCHANGED <<files, devices, given, onboarding, trusted, targets, exit, cut>>

\* remove_device, with all that was recorded of the node.
DropRecord ==
  /\ pc = "resulting" /\ command = "decommission"
  /\ known' = known \ node
  /\ attempted' = [n \in Nodes |-> IF n \in node THEN 0 ELSE attempted[n]]
  /\ synced' = [n \in Nodes |-> IF n \in node THEN 0 ELSE synced[n]]
  /\ error' = [n \in Nodes |-> IF n \in node THEN FALSE ELSE error[n]]
  /\ node' = {}
  /\ Onward(Waiting)
  /\ UNCHANGED <<next, devices, given, memory, exit, cut>>

\* CommissionOp: a device with the discriminator is found, it takes the passcode,
\* and joins; or the run ends somewhere in between, also after it joined.
Join ==
  /\ pc = "join"
  /\ \/ /\ next <= MaxNode /\ onboarding \in Windows
        /\ member' = member \cup {next}
        /\ GoTo("joined") \/ Exit(1)
     \/ Exit(1) /\ UNCHANGED member
  /\ UNCHANGED <<files, set, given, memory, cut>>

\* A record that is best effort, like the names in it.
RecordDevice_BestEffort ==
  /\ pc = "joined"
  /\ known' \in {known, known \cup {next}}
  /\ GoTo("recorded")
  /\ UNCHANGED <<next, record, devices, given, memory, cut>>

RecordDevice ==
  /\ pc = "joined"
  /\ known' = known \cup {next}
  /\ GoTo("recorded")
  /\ UNCHANGED <<next, record, devices, given, memory, cut>>

StoreIdentity ==
  /\ pc = "recorded"
  /\ next' = next + 1
  /\ targets' = {next}
  /\ outcomes' = [outcomes EXCEPT ![next] = "success"]
  /\ GoTo("report")
  /\ UNCHANGED <<known, record, devices, given, onboarding, trusted, cut>>

\* An exit code that asks for one success instead of all.
Report_AnySuccess ==
  /\ pc = "report"
  /\ Exit(IF targets = {} \/ \E n \in targets : outcomes[n] \in {"success", "skipped"}
            THEN 0 ELSE 1)
  /\ UNCHANGED <<files, devices, given, memory, cut>>

\* exit_code: status and commission are successes, the others when all devices
\* are; a sync also needs a trusted clock or the operator's time.
Report ==
  /\ pc = "report"
  /\ Exit(IF /\ \A n \in targets : outcomes[n] \in {"success", "skipped"}
             /\ command = "sync" => trusted # "no" \/ manual
            THEN 0 ELSE 1)
  /\ UNCHANGED <<files, devices, given, memory, cut>>

\* Killed anywhere.
Kill ==
  /\ pc # "idle"
  /\ pc' = "idle" /\ exit' = 9 /\ node' = {}
  /\ cut' = cut \cup ({run} \X node)
  /\ UNCHANGED <<files, devices, given, memory>>

\* What a run does by itself, when no write fails and nothing interrupts it.
Proceed ==
  \/ LoadConfig \/ ParseCode \/ RejectTime \/ Gate \/ ResolveTargets \/ OpenController
  \/ StoreAttempt \/ Contact \/ SyncOne \/ StoreResult
  \/ InspectOne \/ LeaveOne \/ LeaveFails \/ DropRecord
  \/ Join \/ RecordDevice \/ StoreIdentity \/ Report

Next ==
  \/ Invoke \/ Proceed \/ TakeTime \/ DropFabric
  \/ StoreFails \/ PumpEnds \/ Kill

Spec == Init /\ [][Next]_vars

--------------------------------------------------------------------------------
(* Properties.                                                              *)

\* What the operator and the timer see: exit code 0 only when every target is
\* what the command promises -- the time of this run read back from it or not
\* settable, removed from the registry, readable, or recorded with its id used
\* up -- and 1 after all targets were worked on only if one of them failed or its
\* result was lost; a device whose answer to RemoveFabric was lost stays on record
\* ("a permanently incompatible device cannot fail every timer run", ops.rs; "a
\* handler cannot return one that disagrees with its output", output.rs).
ExitTruth ==
  pc = "idle" =>
    /\ exit = 0 /\ command = "sync" =>
         targets # {} /\ \A n \in targets : set[n] = run \/ n \in Lacking
    /\ exit = 0 /\ command = "decommission" => targets # {} /\ targets \cap known = {}
    /\ command = "decommission" => \A n \in targets : outcomes[n] = "failed" => n \in known
    /\ exit = 0 /\ command = "inspect" => targets \cap Lacking = {}
    /\ exit = 0 /\ command = "commission" => next - 1 \in known \cap member
    /\ exit = 1 /\ targets # {} /\ Waiting = {} =>
         \E n \in targets : outcomes[n] = "failed" \/ <<run, n>> \in cut

\* What `status` shows between runs: the last successful sync did read its time
\* back, and a sync that was attempted later left its error unless the run was
\* cut off before it could (the two update_device calls of SyncOp).
StatusHonest ==
  \A n \in Nodes :
    /\ synced[n] # 0 => set[n] >= synced[n] /\ synced[n] <= attempted[n]
    /\ pc = "idle" /\ ~error[n] /\ synced[n] < attempted[n] => <<attempted[n], n>> \in cut

\* The code that a device in its pairing window prints leads to that device, at
\* every step of the run it was typed for (parse_manual_code, run_commission).
CodeReachesDevice ==
  \A w \in Windows, long \in BOOLEAN :
    code = Printed(w, long) /\ pc \in {"open", "join", "joined", "recorded", "report"} =>
      onboarding = w

\* A device is set from the host only when the host's clock is off by no more
\* than the limit and half of the time an answer may take, or when the operating
\* system vouches for it ("never push time from a clock that is not
\* NTP-disciplined", run_sync; "the error is bounded by half the round trip",
\* sntp_offset).
SetFromTrustedClock ==
  [][set' # set => manual \/ trusted = "timedatectl" \/ WithinReach(skew)]_vars

\* Records, ids and memberships behave as NodeLedger.
LedgerOf == INSTANCE NodeLedger WITH used <- member, records <- known

\* Whole commands implement the ledger of node ids as well, whichever of them fail,
\* are killed or lose an answer: one record comes or goes at a time, and
\* next_device_node_id is raised only when the device has joined and is recorded
\* (CommissionOp, DecommissionOp).
RefinesLedger == LedgerOf!Spec

\* What is refused leaves no trace: files and devices change only for a command
\* that writes, with a configuration that loads -- a file that was named must be
\* there -- on a node that was asked for or for a code that is one.
RefusalsTouchNothing ==
  [][<<files, devices>>' # <<files, devices>> =>
       /\ command \in {"commission", "sync", "decommission"}
       /\ config.found = "yes" \/ ~config.explicit
       /\ config.found = "yes" => config.absolute /\ config.zone /\ config.label <= LabelMax
       /\ command = "commission" => Accepts(code)
       /\ \A n \in Nodes : n \notin known =>
            attempted'[n] = attempted[n] /\ set'[n] = set[n]]_vars
================================================================================
