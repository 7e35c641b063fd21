--------------------------- MODULE CommandRunProofs ----------------------------
(***************************************************************************)
(* What holds of every sequence of invocations, for any number of runs and *)
(* devices, any configurations, codes and host clocks: TypeOK and the five *)
(* properties of CommandRun, from one inductive invariant; that whole      *)
(* commands implement NodeLedger; and that every command runs out and has  *)
(* a step to take until it does.                                           *)
(***************************************************************************)
EXTENDS CommandRun, PairingCodeProofs

Targeted == {"inspect", "sync", "decommission"}

\* Node ids in use are given out, and given out ones are within the bound.
Types == TypeOK /\ known \subseteq Nodes /\ member \subseteq Nodes

\* What the gate let through.
Trust ==
  /\ trusted = "sntp" => WithinReach(skew)
  /\ command = "sync" /\ pc \in {"resolve", "open", "loop", "contacting", "resulting", "report"} =>
       manual \/ trusted # "no"

\* Which command leads where, and what it passed on the way.
Course ==
  /\ pc \notin {"idle", "config"} => Loads(config) /\ command # "none"
  /\ code # None <=> command = "commission"
  /\ pc \in {"code", "join", "joined", "recorded"} => command = "commission"
  /\ pc = "gate" => command = "sync"
  /\ pc \in {"resolve", "loop", "contacting"} => command \in Targeted
  /\ pc = "left" => command = "decommission"
  /\ pc = "resulting" => command \in {"sync", "decommission"}
  /\ pc = "open" => command \in Targeted \cup {"commission"}
  /\ command = "commission" /\ pc \in {"open", "join", "joined", "recorded", "report"} =>
       Accepts(code) /\ onboarding = Decode(code)

\* What is left to do, and what the run has in hand.
Work ==
  /\ targets \subseteq Nodes
  /\ pc \in {"config", "code", "gate", "resolve", "open"} => \A n \in Nodes : outcomes[n] = "none"
  /\ pc \in {"config", "code", "gate", "resolve", "join", "joined", "recorded"} => targets = {}
  /\ pc = "open" => (command = "commission" <=> targets = {})
  /\ pc = "loop" => Waiting # {}
  /\ pc \in {"contacting", "left"} => \E n \in Waiting : node = {n}
  /\ pc = "resulting" => \E n \in targets \ Waiting : node = {n}
  /\ pc \notin {"contacting", "left", "resulting"} => node = {}
  /\ pc = "report" => Waiting = {} /\ (command \in {"sync", "decommission"} => targets # {})
  /\ command \in Targeted /\ pc \notin {"idle", "report"} => Waiting \cup node \subseteq known

\* What the outcomes so far mean for the devices and the registry.
Done ==
  /\ pc # "idle" /\ command = "sync" =>
       \A n \in targets :
         /\ outcomes[n] = "success" => set[n] = run
         /\ outcomes[n] = "skipped" => n \in Lacking
  /\ pc # "idle" /\ command = "decommission" =>
       \A n \in targets :
         /\ outcomes[n] # "skipped"
         /\ outcomes[n] = "success" => n \in node \/ n \notin known
         /\ outcomes[n] = "failed" => n \in known
         /\ pc = "resulting" /\ n \in node => outcomes[n] = "success"
  /\ pc # "idle" /\ command = "inspect" =>
       \A n \in targets : outcomes[n] # "skipped" /\ (outcomes[n] = "success" => n \notin Lacking)
  /\ pc = "joined" => next \in Nodes /\ next \in member
  /\ pc = "recorded" => next \in Nodes /\ next \in member \cap known
  /\ command = "commission" /\ pc = "report" =>
       /\ next - 1 \in member \cap known
       /\ \A n \in targets : outcomes[n] = "success"

\* Where the recorded times are from; what is neither recorded nor cut off is in
\* hand.
Ledger ==
  /\ \A n \in Nodes :
       /\ attempted[n] <= run /\ set[n] <= run
       /\ synced[n] # 0 => set[n] >= synced[n] /\ synced[n] <= attempted[n]
       /\ ~error[n] /\ synced[n] < attempted[n] =>
            \/ <<attempted[n], n>> \in cut
            \/ command = "sync" /\ n \in node /\ attempted[n] = run
  /\ command = "sync" => \A n \in node : attempted[n] = run

IInv == Types /\ Trust /\ Course /\ Work /\ Done /\ Ledger /\ ExitTruth

--------------------------------------------------------------------------------
(* The host's clock.                                                        *)

\* A server's answer to this query that finds the host within the limit bounds
\* how far off the host is: half of the round trip is all that it can hide
\* (sntp_offset).
LEMMA NearIsWithinReach ==
  ASSUME NEW s \in Int, NEW r \in Reply, Usable(r), Near(s, r)
  PROVE  WithinReach(s)
<1>1. /\ r.out \in Nat /\ r.back \in Nat
      /\ r.out + r.back <= Timeout /\ r.late = 0
  BY HostAssumption DEF Reply, Usable
<1>2. 2 * s + r.back - r.out \in -(2 * MaxOffset)..(2 * MaxOffset)
  BY <1>1 DEF Near, TwiceOffset
<1> QED
  BY <1>1, <1>2, HostAssumption DEF WithinReach

\* clock_is_ntp_synchronized trusts by an answer only a host that is within reach.
THEOREM VerdictSound ==
  \A s \in Int : \A v \in Verdicts(s) :
    v \in {"no", "sntp", "timedatectl"} /\ (v = "sntp" => WithinReach(s))
<1> SUFFICES ASSUME NEW s \in Int, NEW replies \in [1..Servers -> Reply],
                    NEW timedatectl \in BOOLEAN
             PROVE  LET v == Verdict(s, replies, timedatectl)
                    IN  v \in {"no", "sntp", "timedatectl"} /\ (v = "sntp" => WithinReach(s))
  BY DEF Verdicts
<1>1. ASSUME NEW i \in 1..Servers, Usable(replies[i]), Near(s, replies[i])
      PROVE  WithinReach(s)
  <2>1. replies[i] \in Reply
    OBVIOUS
  <2> QED
    BY <1>1, <2>1, NearIsWithinReach
<1> QED
  BY <1>1 DEF Verdict

--------------------------------------------------------------------------------
(* The invariant.                                                           *)

\* Before the first run nothing is in hand, and nothing was ever set or recorded.
LEMMA Starts == Init => IInv
<1> SUFFICES ASSUME Init PROVE IInv
  OBVIOUS
<1> USE CommandAssumption
<1>1. Types
  <2>1. GivenOK
    <3>1. manual \in BOOLEAN
      BY DEF Init
    <3> QED
      BY <3>1 DEF Init, GivenOK, Commands, Runs
  <2>2. RegistryOK /\ known \subseteq Nodes /\ member \subseteq Nodes
    BY DEF Init, RegistryOK, Nodes
  <2>3. RecordOK
    <3>1. error \in [Nodes -> BOOLEAN]
      BY DEF Init
    <3>2. attempted \in [Nodes -> Runs] /\ synced \in [Nodes -> Runs] /\ set \in [Nodes -> Runs]
      BY DEF Init, Runs
    <3> QED
      BY <3>1, <3>2 DEF Init, RecordOK
  <2>4. WorkOK
    BY DEF Init, WorkOK, Results
  <2> QED
    BY <2>1, <2>2, <2>3, <2>4 DEF Types, TypeOK
<1>2. Trust /\ Course /\ Done
  BY DEF Init, Trust, Course, Done
<1>3. Work
  BY DEF Init, Work
<1>4. Ledger /\ ExitTruth
  BY DEF Init, Ledger, ExitTruth
<1> QED
  BY <1>1, <1>2, <1>3, <1>4 DEF IInv

\* What a run is started with changes only when the next one starts.
LEMMA GivenKept == GivenOK /\ [Next]_vars => GivenOK'
<1> SUFFICES ASSUME GivenOK, [Next]_vars PROVE GivenOK'
  OBVIOUS
<1>1. CASE Invoke
  <2>1. run' \in Runs /\ command' \in Commands /\ config' \in Configs
    BY <1>1, CommandAssumption DEF Invoke, GivenOK, Runs
  <2>2. manual' \in BOOLEAN
    BY <1>1, Zenon DEF Invoke
  <2>3. asked' \in Nodes \cup {None} /\ code' \in Codes \cup {None} /\ skew' \in Skews
    BY <1>1 DEF Invoke, GivenOK
  <2> QED
    BY <2>1, <2>2, <2>3 DEF GivenOK
<1>2. ASSUME UNCHANGED given PROVE GivenOK'
  BY <1>2 DEF given, GivenOK
<1> QED
  BY <1>1, <1>2 DEF Next, Proceed, vars, LoadConfig, ParseCode, RejectTime, Gate, ResolveTargets,
     OpenController, StoreFails, StoreAttempt, Contact, PumpEnds, TakeTime, SyncOne,
     StoreResult, InspectOne, DropFabric, LeaveOne, LeaveFails, DropRecord, Join,
     RecordDevice, StoreIdentity, Report, Kill

\* Node ids stay within those given out; commissioning, which gives out the next
\* one, has checked the bound by then.
LEMMA RegistryKept ==
  IInv /\ [Next]_vars => (RegistryOK /\ known \subseteq Nodes /\ member \subseteq Nodes)'
<1> SUFFICES ASSUME IInv, [Next]_vars
             PROVE  (RegistryOK /\ known \subseteq Nodes /\ member \subseteq Nodes)'
  OBVIOUS
<1> USE CommandAssumption DEF IInv, Types, TypeOK, RegistryOK, Nodes, files, devices
<1>1. CASE DropFabric
  BY <1>1 DEF DropFabric
<1>2. CASE DropRecord
  <2>1. known' = known \ node /\ UNCHANGED <<next, member>>
    BY <1>2 DEF DropRecord
  <2> QED
    BY <2>1
<1>3. CASE Join
  <2>1. /\ UNCHANGED <<next, known>>
        /\ member' = member \/ (member' = member \cup {next} /\ next <= MaxNode)
    BY <1>3 DEF Join
  <2>2. CASE member' = member
    BY <2>1, <2>2
  <2>3. CASE member' = member \cup {next} /\ next <= MaxNode
    <3>1. next \in Nodes /\ next \in 1..next
      BY <2>3
    <3> QED
      BY <2>1, <2>3, <3>1
  <2> QED
    BY <2>1, <2>2, <2>3
<1>4. CASE RecordDevice
  BY <1>4 DEF RecordDevice, Done
<1>5. CASE StoreIdentity
  BY <1>5 DEF StoreIdentity, Done
<1>6. ASSUME UNCHANGED <<next, known, member>>
      PROVE  (RegistryOK /\ known \subseteq Nodes /\ member \subseteq Nodes)'
  BY <1>6
<1> QED
  BY <1>1, <1>2, <1>3, <1>4, <1>5, <1>6 DEF Next, Proceed, vars,
     Invoke, LoadConfig, ParseCode, RejectTime, Gate, ResolveTargets,
     OpenController, StoreFails, StoreAttempt, Contact, PumpEnds, TakeTime,
     SyncOne, StoreResult, InspectOne, LeaveOne, LeaveFails, Report, Kill, files,
     devices, given, memory, record

\* What a run has in hand is on record.
LEMMA HandRecorded == IInv => node \subseteq known /\ node \subseteq Nodes
  BY DEF IInv, Types, Course, Work, Targeted

\* The records stay functions on the node ids: what is written is the run.
LEMMA RecordKept == IInv /\ [Next]_vars => RecordOK'
<1> SUFFICES ASSUME IInv, [Next]_vars PROVE RecordOK'
  OBVIOUS
<1>0. RecordOK /\ run \in Runs /\ node \subseteq Nodes
  BY HandRecorded DEF IInv, Types, TypeOK, GivenOK
<1> USE DEF RecordOK
<1>1. CASE StoreFails
  <2>1. cut' = cut \cup ({run} \X node) /\ UNCHANGED <<attempted, synced, error, set>>
    BY <1>1 DEF StoreFails, files, devices, record
  <2> QED
    BY <1>0, <2>1
<1>2. CASE StoreAttempt
  BY <1>0, <1>2 DEF StoreAttempt, devices
<1>3. CASE PumpEnds
  <2>1. cut' = cut \cup ({run} \X node) /\ UNCHANGED <<attempted, synced, error, set>>
    BY <1>3 DEF PumpEnds, files, devices, record
  <2> QED
    BY <1>0, <2>1
<1>4. CASE TakeTime
  BY <1>0, <1>4 DEF TakeTime, files, record
<1>5. CASE StoreResult
  BY <1>0, <1>5 DEF StoreResult, devices
<1>6. CASE DropRecord
  <2>1. attempted' \in [Nodes -> Runs] /\ synced' \in [Nodes -> Runs]
    BY <1>0, <1>6, CommandAssumption DEF DropRecord, Runs
  <2>2. error' \in [Nodes -> BOOLEAN]
    BY <1>0, <1>6, Zenon DEF DropRecord
  <2> QED
    BY <1>0, <1>6, <2>1, <2>2 DEF DropRecord, devices
<1>7. CASE Kill
  <2>1. cut' = cut \cup ({run} \X node) /\ UNCHANGED <<attempted, synced, error, set>>
    BY <1>7 DEF Kill, files, devices, record
  <2> QED
    BY <1>0, <2>1
<1>8. ASSUME UNCHANGED <<attempted, synced, error, set, cut>> PROVE RecordOK'
  BY <1>0, <1>8
<1> QED
  BY <1>1, <1>2, <1>3, <1>4, <1>5, <1>6, <1>7, <1>8 DEF Next, Proceed, vars,
     Invoke, LoadConfig, ParseCode, RejectTime, Gate, ResolveTargets,
     OpenController, Contact, SyncOne, InspectOne, DropFabric, LeaveOne,
     LeaveFails, Join, RecordDevice, StoreIdentity, Report, files, devices, given,
     memory, record

\* What the run has in memory keeps its type.
LEMMA WorkTyped == IInv /\ [Next]_vars => WorkOK'
<1> SUFFICES ASSUME IInv, [Next]_vars PROVE WorkOK'
  OBVIOUS
<1>0. /\ WorkOK /\ Work /\ RegistryOK /\ next \in Int
      /\ known \subseteq Nodes /\ targets \subseteq Int
  BY CommandAssumption DEF IInv, Types, TypeOK, RegistryOK, WorkOK, Nodes
<1> USE DEF WorkOK, GoTo, Exit, Results
<1>1. CASE Invoke
  <2>1. node' = {} /\ targets' = {} /\ next' = next
    BY <1>0, <1>1 DEF Invoke, files, Work
  <2>2. outcomes' \in [Nodes -> {"none"}]
    BY <1>1 DEF Invoke
  <2> QED
    BY <1>0, <1>1, <2>1, <2>2 DEF Invoke
<1>2. CASE LoadConfig
  BY <1>0, <1>2 DEF LoadConfig, files, memory
<1>3. CASE ParseCode
  <2>1. code \in Code \/ ~Accepts(code)
    BY <1>3, CommandAssumption DEF ParseCode, IInv, Types, TypeOK, GivenOK, Course
  <2> QED
    BY <1>0, <1>3, <2>1, AcceptedFits DEF ParseCode, files
<1>4. CASE RejectTime \/ Report
  BY <1>0, <1>4 DEF RejectTime, Report, files, memory
<1>5. CASE Gate
  <2>1. trusted' \in {"no", "sntp", "timedatectl"}
    BY <1>5, VerdictSound, CommandAssumption DEF Gate, VerdictsOf, IInv, Types, TypeOK, GivenOK
  <2> QED
    BY <1>0, <1>5, <2>1 DEF Gate, files
<1>6. CASE ResolveTargets
  <2>1. node' = {} /\ next' = next
    BY <1>0, <1>6 DEF ResolveTargets, files, Work
  <2>2. targets' \in SUBSET (1..next)
    BY <1>0, <1>6 DEF ResolveTargets, RegistryOK
  <2> QED
    BY <1>0, <1>6, <2>1, <2>2 DEF ResolveTargets
<1>7. CASE OpenController
  BY <1>0, <1>7 DEF OpenController, files, memory
<1>8. CASE StoreFails \/ PumpEnds \/ Kill
  BY <1>0, <1>8 DEF StoreFails, PumpEnds, Kill, files, memory
<1>9. CASE StoreAttempt \/ Contact
  BY <1>0, <1>9 DEF StoreAttempt, Contact, Waiting, files, memory
<1>10. CASE TakeTime
  BY <1>0, <1>10 DEF TakeTime, files, memory
<1>11. CASE SyncOne
  BY <1>0, <1>11 DEF SyncOne, Returned, files
<1>12. CASE StoreResult
  BY <1>0, <1>12 DEF StoreResult, Onward, memory
<1>13. CASE InspectOne
  BY <1>0, <1>13 DEF InspectOne, Returned, Onward, files
<1>14. CASE DropFabric
  BY <1>0, <1>14 DEF DropFabric, files, memory
<1>15. CASE LeaveOne
  BY <1>0, <1>15 DEF LeaveOne, Returned, files
<1>16. CASE LeaveFails
  BY <1>0, <1>16 DEF LeaveFails, Returned, Onward, files
<1>17. CASE DropRecord
  BY <1>0, <1>17 DEF DropRecord, Onward, memory
<1>18. CASE Join
  BY <1>0, <1>18 DEF Join, files, memory
<1>19. CASE RecordDevice
  BY <1>0, <1>19 DEF RecordDevice, memory
<1>20. CASE StoreIdentity
  <2>1. node' = {} /\ targets' = {next} /\ next' = next + 1
    BY <1>0, <1>20 DEF StoreIdentity, Work
  <2>2. targets' \in SUBSET (1..next')
    BY <1>0, <2>1 DEF RegistryOK
  <2> QED
    BY <1>0, <1>20, <2>1, <2>2 DEF StoreIdentity
<1>21. CASE UNCHANGED vars
  BY <1>0, <1>21 DEF vars, memory
<1> QED
  BY <1>1, <1>2, <1>3, <1>4, <1>5, <1>6, <1>7, <1>8, <1>9, <1>10, <1>11, <1>12, <1>13,
     <1>14, <1>15, <1>16, <1>17, <1>18, <1>19, <1>20, <1>21 DEF Next, Proceed

\* Nothing behind the gate runs on an untrusted clock without --time.
LEMMA TrustKept == IInv /\ [Next]_vars => Trust'
<1> SUFFICES ASSUME IInv, [Next]_vars PROVE Trust'
  OBVIOUS
<1>0. Trust /\ Course
  BY DEF IInv
<1> USE DEF Trust, GoTo, Exit
<1>1. CASE Invoke
  BY <1>1 DEF Invoke
<1>2. CASE Gate
  <2>1. trusted' = "sntp" => WithinReach(skew)
    BY <1>2, VerdictSound, CommandAssumption
       DEF Gate, VerdictsOf, IInv, Types, TypeOK, GivenOK
  <2>2. /\ skew' = skew /\ command' = command /\ manual' = manual
        /\ pc' = "idle" \/ manual \/ trusted' # "no"
    BY <1>2 DEF Gate, given
  <2> QED
    BY <2>1, <2>2
<1>3. CASE LoadConfig \/ ParseCode \/ RejectTime \/ ResolveTargets \/ OpenController
  BY <1>0, <1>3 DEF LoadConfig, ParseCode, RejectTime, ResolveTargets, OpenController,
     Course, Targeted, given, memory
<1>4. CASE StoreFails \/ StoreAttempt \/ Contact \/ PumpEnds \/ TakeTime \/ SyncOne
           \/ StoreResult
  BY <1>0, <1>4 DEF StoreFails, StoreAttempt, Contact, PumpEnds, TakeTime, SyncOne,
     StoreResult, Onward, given, memory
<1>5. CASE InspectOne \/ DropFabric \/ LeaveOne \/ LeaveFails \/ DropRecord
  BY <1>0, <1>5 DEF InspectOne, DropFabric, LeaveOne, LeaveFails, DropRecord, Onward,
     given, memory
<1>6. CASE Join \/ RecordDevice \/ StoreIdentity \/ Report \/ Kill
  BY <1>0, <1>6 DEF Join, RecordDevice, StoreIdentity, Report, Kill, Course, given, memory
<1>7. CASE UNCHANGED vars
  BY <1>0, <1>7 DEF vars, given, memory
<1> QED
  BY <1>1, <1>2, <1>3, <1>4, <1>5, <1>6, <1>7 DEF Next, Proceed

\* Every place of a run is reached only by the commands it is for, with a
\* configuration that loaded.
LEMMA CourseKept == IInv /\ [Next]_vars => Course'
<1> SUFFICES ASSUME IInv, [Next]_vars PROVE Course'
  OBVIOUS
<1>0. Course /\ GivenOK
  BY DEF IInv, Types, TypeOK
<1> USE DEF Course, GoTo, Exit, Targeted
<1>1. CASE Invoke
  BY <1>1, CommandAssumption DEF Invoke
<1>2. CASE LoadConfig
  BY <1>0, <1>2 DEF LoadConfig, GivenOK, Commands, given, memory
<1>3. CASE ParseCode \/ RejectTime \/ Gate
  BY <1>0, <1>3 DEF ParseCode, RejectTime, Gate, given, memory
<1>4. CASE ResolveTargets \/ OpenController
  BY <1>0, <1>4 DEF ResolveTargets, OpenController, given, memory
<1>5. CASE StoreFails \/ StoreAttempt \/ Contact \/ PumpEnds \/ TakeTime \/ SyncOne
           \/ StoreResult
  BY <1>0, <1>5 DEF StoreFails, StoreAttempt, Contact, PumpEnds, TakeTime, SyncOne,
     StoreResult, Onward, given, memory
<1>6. CASE InspectOne \/ DropFabric \/ LeaveOne \/ LeaveFails \/ DropRecord
  BY <1>0, <1>6 DEF InspectOne, DropFabric, LeaveOne, LeaveFails, DropRecord, Onward,
     given, memory
<1>7. CASE Join \/ RecordDevice \/ StoreIdentity \/ Report \/ Kill
  BY <1>0, <1>7 DEF Join, RecordDevice, StoreIdentity, Report, Kill, given, memory
<1>8. CASE UNCHANGED vars
  BY <1>0, <1>8 DEF vars, given, memory
<1> QED
  BY <1>1, <1>2, <1>3, <1>4, <1>5, <1>6, <1>7, <1>8 DEF Next, Proceed

\* The targets not yet worked on are known, and the one in hand is a target.
LEMMA WorkKept == IInv /\ [Next]_vars => Work'
<1> SUFFICES ASSUME IInv, [Next]_vars PROVE Work'
  OBVIOUS
<1>0. /\ Work /\ Course /\ node \subseteq Nodes
      /\ next \in Int /\ known \subseteq Nodes
      /\ outcomes \in [Nodes -> Results \cup {"none"}]
  BY HandRecorded, CommandAssumption DEF IInv, Types, TypeOK, RegistryOK, WorkOK
<1> USE DEF Work, Course, Waiting, GoTo, Exit, Targeted
<1>1. CASE Invoke
  BY <1>0, <1>1 DEF Invoke
<1>2. CASE LoadConfig \/ ParseCode \/ RejectTime \/ Gate
  BY <1>0, <1>2 DEF LoadConfig, ParseCode, RejectTime, Gate, files, given, memory
<1>3. CASE ResolveTargets
  BY <1>0, <1>3 DEF ResolveTargets, files, given
<1>4. CASE OpenController
  <2>1. Waiting = targets /\ Waiting' = targets /\ node' = {}
    BY <1>0, <1>4 DEF OpenController, memory
  <2>2. UNCHANGED <<known, targets, command>> /\ targets \subseteq Nodes
    BY <1>0, <1>4 DEF OpenController, files, given, memory
  <2>3. \/ pc' = "idle"
        \/ pc' = "join" /\ command = "commission" /\ targets = {}
        \/ pc' = "loop" /\ targets # {} /\ targets \subseteq known
    BY <1>0, <1>4, <2>1 DEF OpenController
  <2> QED
    BY <2>1, <2>2, <2>3
<1>5. CASE StoreFails \/ PumpEnds \/ Kill
  BY <1>0, <1>5 DEF StoreFails, PumpEnds, Kill, memory
<1>6. CASE StoreAttempt \/ Contact
  BY <1>0, <1>6 DEF StoreAttempt, Contact, files, given, memory
<1>7. CASE TakeTime \/ DropFabric
  BY <1>0, <1>7 DEF TakeTime, DropFabric, files, given, memory
<1>8. CASE SyncOne \/ LeaveOne
  <2>1. PICK n \in Waiting, result \in Results :
          node = {n} /\ outcomes' = [outcomes EXCEPT ![n] = result]
    BY <1>0, <1>8 DEF SyncOne, LeaveOne, Returned, Results
  <2>2. /\ pc' = "resulting" /\ command \in {"sync", "decommission"}
        /\ UNCHANGED <<known, targets, node, command>>
    BY <1>0, <1>8 DEF SyncOne, LeaveOne, files, given
  <2>3. Waiting' = Waiting \ {n} /\ n \in targets \ Waiting'
    BY <1>0, <2>1, <2>2 DEF Results
  <2> QED
    BY <1>0, <1>8, <2>1, <2>2, <2>3 DEF SyncOne, LeaveOne
<1>9. CASE InspectOne \/ LeaveFails
  <2>1. PICK n \in Waiting, result \in Results :
          node = {n} /\ outcomes' = [outcomes EXCEPT ![n] = result]
    BY <1>0, <1>9 DEF InspectOne, LeaveFails, Returned, Results
  <2>2. /\ pc' = IF Waiting \ {n} = {} THEN "report" ELSE "loop"
        /\ command \in {"inspect", "decommission"}
        /\ node' = {} /\ UNCHANGED <<known, targets, command>>
    BY <1>0, <1>9, <2>1 DEF InspectOne, LeaveFails, Onward, files, given
  <2>3. Waiting' = Waiting \ {n} /\ targets # {}
    BY <1>0, <2>1, <2>2 DEF Results
  <2> QED
    BY <1>0, <1>9, <2>1, <2>2, <2>3 DEF InspectOne, LeaveFails
<1>10. CASE StoreResult \/ DropRecord
  <2>1. PICK n \in targets \ Waiting : node = {n}
    BY <1>0, <1>10 DEF StoreResult, DropRecord
  <2>2. /\ pc' = IF Waiting = {} THEN "report" ELSE "loop"
        /\ known' = known \/ known' = known \ {n}
        /\ node' = {} /\ UNCHANGED <<targets, command, outcomes>>
    BY <1>0, <1>10, <2>1 DEF StoreResult, DropRecord, Onward, given, memory
  <2>3. Waiting' = Waiting /\ n \notin Waiting /\ Waiting \subseteq known /\ targets # {}
    BY <1>0, <1>10, <2>1, <2>2 DEF StoreResult, DropRecord
  <2> QED
    BY <1>0, <1>10, <2>1, <2>2, <2>3 DEF StoreResult, DropRecord, given
<1>11. CASE Join \/ RecordDevice
  BY <1>0, <1>11 DEF Join, RecordDevice, given, memory
<1>12. CASE StoreIdentity
  BY <1>0, <1>12 DEF StoreIdentity, IInv, Done, given
<1>13. CASE Report
  BY <1>0, <1>13 DEF Report, given, memory
<1>14. CASE UNCHANGED vars
  BY <1>0, <1>14 DEF vars, given, memory
<1> QED
  BY <1>1, <1>2, <1>3, <1>4, <1>5, <1>6, <1>7, <1>8, <1>9, <1>10, <1>11, <1>12, <1>13,
     <1>14 DEF Next, Proceed

\* An outcome says what was done to the device and to its record.
LEMMA DoneKept == IInv /\ [Next]_vars => Done'
<1> SUFFICES ASSUME IInv, [Next]_vars PROVE Done'
  OBVIOUS
<1>0. /\ Done /\ Course /\ Work
      /\ next \in Int /\ targets \subseteq Nodes /\ node \subseteq targets
      /\ outcomes \in [Nodes -> Results \cup {"none"}] /\ set \in [Nodes -> Runs]
  BY CommandAssumption DEF IInv, Types, TypeOK, RegistryOK, RecordOK, WorkOK, Work
<1> USE DEF Done, GoTo, Exit
<1>1. CASE Invoke
  BY <1>0, <1>1 DEF Invoke
<1>2. CASE LoadConfig \/ ParseCode \/ RejectTime \/ Gate
  BY <1>0, <1>2 DEF LoadConfig, ParseCode, RejectTime, Gate, Work, Course, files, devices, given, memory
<1>3. CASE ResolveTargets \/ OpenController
  <2>1. \A n \in Nodes : outcomes'[n] = "none"
    BY <1>0, <1>3 DEF ResolveTargets, OpenController, Work, memory
  <2>2. targets' \subseteq Nodes
    BY WorkKept DEF Work
  <2> QED
    BY <1>0, <1>3, <2>1, <2>2 DEF ResolveTargets, OpenController, Course, Targeted, given
<1>4. CASE StoreFails \/ PumpEnds \/ Kill \/ Report
  BY <1>4 DEF StoreFails, PumpEnds, Kill, Report
<1>5. CASE StoreAttempt
  BY <1>0, <1>5 DEF StoreAttempt, devices, given, memory
<1>6. CASE Contact
  BY <1>0, <1>6 DEF Contact, Waiting, Work, files, devices, given, memory
<1>7. CASE TakeTime
  BY <1>0, <1>7 DEF TakeTime, files, given, memory
<1>8. CASE SyncOne
  BY <1>0, <1>8 DEF SyncOne, Returned, devices, given
<1>9. CASE StoreResult
  <2>1. /\ pc' \in {"report", "loop"} /\ pc # "idle" /\ command = "sync"
        /\ UNCHANGED <<targets, outcomes, set, command, run>>
    BY <1>9 DEF StoreResult, Onward, devices, given, memory
  <2> QED
    BY <1>0, <2>1
<1>10. CASE InspectOne
  BY <1>0, <1>10 DEF InspectOne, Returned, Onward, files, devices, given
<1>11. CASE DropFabric
  BY <1>0, <1>11 DEF DropFabric, files, given, memory
<1>12. CASE LeaveOne
  <2>1. PICK n \in targets : node = {n}
    BY <1>0, <1>12 DEF LeaveOne, Work, Waiting
  <2>2. /\ pc' = "resulting" /\ pc # "idle" /\ command = "decommission"
        /\ outcomes' = [outcomes EXCEPT ![n] = "success"]
        /\ UNCHANGED <<targets, node, known, command>>
    BY <1>12, <2>1 DEF LeaveOne, Returned, files, given
  <2> QED
    BY <1>0, <2>1, <2>2
<1>13. CASE LeaveFails
  BY <1>0, <1>13 DEF LeaveFails, Returned, Onward, Work, Waiting, Targeted, files, given
<1>14. CASE DropRecord
  <2>1. /\ pc' \in {"report", "loop"} /\ pc = "resulting" /\ command = "decommission"
        /\ known' = known \ node /\ UNCHANGED <<targets, outcomes, command>>
    BY <1>14 DEF DropRecord, Onward, given, memory
  <2>2. \A n \in node : outcomes[n] = "success"
    BY <1>0, <2>1
  <2> QED
    BY <1>0, <2>1, <2>2
<1>15. CASE Join
  <2>1. pc' \in {"idle", "joined"} /\ command = "commission" /\ UNCHANGED <<command, next>>
    BY <1>0, <1>15 DEF Join, Course, files, given
  <2>2. pc' = "joined" => next \in member' /\ next <= MaxNode
    BY <1>15 DEF Join
  <2>3. next \in 1..(MaxNode + 1)
    BY DEF IInv, Types, TypeOK, RegistryOK
  <2> QED
    BY <2>1, <2>2, <2>3, CommandAssumption DEF Nodes
<1>16. CASE RecordDevice
  BY <1>0, <1>16 DEF RecordDevice, Course, devices, given, memory
<1>17. CASE StoreIdentity
  BY <1>0, <1>17 DEF StoreIdentity, Course, devices, given
<1>18. CASE UNCHANGED vars
  BY <1>0, <1>18 DEF vars, given, memory
<1> QED
  BY <1>1, <1>2, <1>3, <1>4, <1>5, <1>6, <1>7, <1>8, <1>9, <1>10, <1>11, <1>12, <1>13,
     <1>14, <1>15, <1>16, <1>17, <1>18 DEF Next, Proceed

\* What is recorded is never of a later run than what happened, and a sync that
\* left neither a success nor an error is in hand or was cut off.
LEMMA LedgerKept == IInv /\ [Next]_vars => Ledger'
<1> SUFFICES ASSUME IInv, [Next]_vars PROVE Ledger'
  OBVIOUS
<1>0. /\ Ledger /\ Done /\ Course /\ Work /\ node \subseteq Nodes
      /\ run \in Nat /\ attempted \in [Nodes -> Nat] /\ synced \in [Nodes -> Nat]
      /\ set \in [Nodes -> Nat]
  BY HandRecorded, CommandAssumption
     DEF IInv, Types, TypeOK, GivenOK, RegistryOK, RecordOK, WorkOK, Runs
<1>n. \A n \in Nodes : attempted[n] \in Nat /\ synced[n] \in Nat /\ set[n] \in Nat
  BY <1>0
<1> USE DEF Ledger, GoTo, Exit
<1>1. CASE Invoke
  <2>1. /\ run' = run + 1 /\ node = {} /\ node' = {}
        /\ UNCHANGED <<attempted, synced, error, set, cut>>
    BY <1>0, <1>1 DEF Invoke, Work, files, devices, record
  <2> QED
    BY <1>0, <2>1
<1>2. CASE StoreFails \/ PumpEnds \/ Kill
  <2>1. /\ UNCHANGED <<run, attempted, synced, error, set, command>> /\ node' = {}
        /\ cut' = cut \cup ({run} \X node)
    BY <1>2 DEF StoreFails, PumpEnds, Kill, files, devices, record, given
  <2> QED
    BY <1>0, <2>1
<1>3. CASE StoreAttempt
  <2>1. PICK n \in Waiting : node' = {n} /\ attempted' = [attempted EXCEPT ![n] = run]
    BY <1>3 DEF StoreAttempt
  <2>2. n \in Nodes /\ node = {} /\ command = "sync"
    BY <1>0, <1>3 DEF StoreAttempt, Work, Waiting
  <2>3. UNCHANGED <<run, synced, error, set, command, cut>>
    BY <1>3 DEF StoreAttempt, devices, given
  <2>4. /\ attempted'[n] = run
        /\ \A k \in Nodes : k # n => attempted'[k] = attempted[k]
    BY <1>0, <2>1, <2>2
  <2>5. /\ attempted[n] <= run
        /\ synced[n] # 0 => set[n] >= synced[n] /\ synced[n] <= attempted[n]
    BY <1>0, <2>2
  <2>6. synced[n] # 0 => set[n] >= synced[n] /\ synced[n] <= run
    BY <1>0, <1>n, <2>2, <2>5
  <2>7. ASSUME NEW k \in Nodes
        PROVE  /\ attempted'[k] <= run' /\ set'[k] <= run'
               /\ synced'[k] # 0 => set'[k] >= synced'[k] /\ synced'[k] <= attempted'[k]
               /\ ~error'[k] /\ synced'[k] < attempted'[k] =>
                    \/ <<attempted'[k], k>> \in cut'
                    \/ command' = "sync" /\ k \in node' /\ attempted'[k] = run'
    <3>1. CASE k = n
      <4>1. set[k] <= run /\ attempted'[k] = run /\ k \in node'
        BY <1>0, <2>1, <2>2, <2>4, <3>1
      <4> QED
        BY <1>0, <2>2, <2>3, <2>6, <3>1, <4>1
    <3>2. CASE k # n
      BY <1>0, <2>2, <2>3, <2>4, <3>2
    <3> QED
      BY <3>1, <3>2
  <2> QED
    BY <2>1, <2>3, <2>4, <2>7
<1>4. CASE TakeTime
  <2>1. PICK n \in node : set' = [set EXCEPT ![n] = run]
    BY <1>4 DEF TakeTime
  <2>2. UNCHANGED <<run, attempted, synced, error, command, node, cut>>
    BY <1>4 DEF TakeTime, files, record, given
  <2>3. /\ set'[n] = run
        /\ \A k \in Nodes : k # n => set'[k] = set[k]
    BY <1>0, <2>1
  <2> QED
    BY <1>0, <2>1, <2>2, <2>3
<1>5. CASE StoreResult
  <2>1. PICK n \in targets \ Waiting : node = {n}
    BY <1>0, <1>5 DEF StoreResult, Work
  <2>2. /\ n \in Nodes /\ attempted[n] = run /\ node' = {} /\ command = "sync"
        /\ outcomes[n] = "success" => set[n] = run
        /\ UNCHANGED <<run, attempted, set, command, cut>>
    BY <1>0, <1>5, <2>1 DEF StoreResult, Done, devices, given
  <2>3. /\ \A k \in Nodes : k # n => synced'[k] = synced[k] /\ error'[k] = error[k]
        /\ \/ synced'[n] = run /\ set[n] = run
           \/ synced'[n] = synced[n] /\ error'[n]
    <3>1. error \in [Nodes -> BOOLEAN]
      BY DEF IInv, Types, TypeOK, RecordOK
    <3>2. \/ outcomes[n] = "success" /\ synced' = [synced EXCEPT ![n] = run]
             /\ error' = [error EXCEPT ![n] = FALSE]
          \/ error' = [error EXCEPT ![n] = TRUE] /\ synced' = synced
      BY <1>5, <2>1 DEF StoreResult
    <3> QED
      BY <1>0, <2>2, <3>1, <3>2
  <2> QED
    BY <1>0, <2>1, <2>2, <2>3
<1>6. CASE DropRecord
  <2>1. /\ UNCHANGED <<run, set, command, cut>> /\ command = "decommission" /\ node' = {}
    BY <1>6 DEF DropRecord, devices, given
  <2>2. \A n \in Nodes :
          \/ attempted'[n] = 0 /\ synced'[n] = 0
          \/ attempted'[n] = attempted[n] /\ synced'[n] = synced[n] /\ error'[n] = error[n]
    BY <1>6 DEF DropRecord
  <2>3. ASSUME NEW n \in Nodes
        PROVE  /\ attempted'[n] <= run' /\ set'[n] <= run'
               /\ synced'[n] # 0 => set'[n] >= synced'[n] /\ synced'[n] <= attempted'[n]
               /\ ~error'[n] /\ synced'[n] < attempted'[n] => <<attempted'[n], n>> \in cut'
    <3>1. CASE attempted'[n] = 0 /\ synced'[n] = 0
      <4>1. run \in Nat /\ set[n] <= run
        BY <1>0
      <4>2. attempted'[n] <= run' /\ set'[n] <= run'
        BY <2>1, <3>1, <4>1
      <4>3. ~(synced'[n] < attempted'[n])
        BY <3>1
      <4> QED
        BY <3>1, <4>2, <4>3
    <3>2. CASE /\ attempted'[n] = attempted[n] /\ synced'[n] = synced[n]
               /\ error'[n] = error[n]
      BY <1>0, <2>1, <3>2
    <3> QED
      BY <2>2, <3>1, <3>2
  <2> QED
    BY <2>1, <2>3
<1>7. ASSUME UNCHANGED <<run, attempted, synced, error, set, cut, command>>,
             node' = node \/ (node' = {} /\ node = {}) \/ command # "sync"
      PROVE  Ledger'
  BY <1>0, <1>7
<1>8. CASE LoadConfig \/ ParseCode \/ RejectTime \/ Gate \/ ResolveTargets \/ OpenController
  BY <1>0, <1>7, <1>8 DEF LoadConfig, ParseCode, RejectTime, Gate, ResolveTargets,
     OpenController, Work, files, devices, record, given
<1>9. CASE Contact \/ SyncOne \/ InspectOne
  BY <1>0, <1>7, <1>9 DEF Contact, SyncOne, InspectOne, files, devices, record, given
<1>10. CASE DropFabric \/ LeaveOne \/ LeaveFails
  BY <1>0, <1>7, <1>10 DEF DropFabric, LeaveOne, LeaveFails, files, devices, record, given
<1>11. CASE Join \/ RecordDevice \/ StoreIdentity \/ Report
  BY <1>0, <1>7, <1>11 DEF Join, RecordDevice, StoreIdentity, Report, Work, files, devices,
     record, given
<1>12. CASE UNCHANGED vars
  BY <1>7, <1>12 DEF vars, record, given
<1> QED
  BY <1>1, <1>2, <1>3, <1>4, <1>5, <1>6, <1>8, <1>9, <1>10, <1>11, <1>12 DEF Next, Proceed


\* Every way a run can end tells the truth.
LEMMA ExitTruthKept == IInv /\ [Next]_vars => ExitTruth'
<1> SUFFICES ASSUME IInv, [Next]_vars PROVE ExitTruth'
  OBVIOUS
<1>0. ExitTruth /\ Trust /\ Course /\ Work /\ Done /\ targets \subseteq Nodes
  BY DEF IInv, Work
<1>t. outcomes \in [Nodes -> Results \cup {"none"}]
  BY DEF IInv, Types, TypeOK, WorkOK
<1>1. ASSUME pc # "idle", UNCHANGED <<command, targets, outcomes, known>>
      PROVE  command' = "decommission" => \A n \in targets' : outcomes'[n] = "failed" => n \in known'
  BY <1>0, <1>1 DEF Done
<1>2. ASSUME pc' # "idle" PROVE ExitTruth'
  BY <1>2 DEF ExitTruth
<1>3. ASSUME exit' # 0, pc # "idle", UNCHANGED <<command, targets, outcomes, known>>,
             targets = {} \/ Waiting # {} \/ exit' # 1
                \/ \E n \in targets : <<run', n>> \in cut'
      PROVE  ExitTruth'
  <2>1. exit' = 1 /\ targets' # {} /\ Waiting' = {} =>
          \E n \in targets' : outcomes'[n] = "failed" \/ <<run', n>> \in cut'
    BY <1>3 DEF Waiting
  <2> QED
    BY <1>1, <1>3, <2>1 DEF ExitTruth
<1>4. CASE Invoke \/ StoreAttempt \/ Contact \/ TakeTime \/ SyncOne \/ StoreResult
  <2>1. pc' # "idle"
    BY <1>4 DEF Invoke, StoreAttempt, Contact, TakeTime, SyncOne, StoreResult, GoTo, Onward
  <2> QED
    BY <1>2, <2>1
<1>5. CASE \/ InspectOne \/ DropFabric \/ LeaveOne \/ LeaveFails \/ DropRecord
           \/ RecordDevice \/ StoreIdentity
  <2>1. pc' # "idle"
    BY <1>5 DEF InspectOne, DropFabric, LeaveOne, LeaveFails, DropRecord, RecordDevice,
       StoreIdentity, GoTo, Onward
  <2> QED
    BY <1>2, <2>1
<1>6. CASE LoadConfig \/ ParseCode \/ RejectTime \/ Gate \/ ResolveTargets \/ OpenController
  <2>1. CASE pc' = "idle"
    <3>1. exit' \in {1, 2} /\ pc # "idle" /\ UNCHANGED <<command, targets, outcomes, known>>
      BY <1>6, <2>1 DEF LoadConfig, ParseCode, RejectTime, Gate, ResolveTargets,
         OpenController, GoTo, Exit, files, given, memory
    <3>2. targets = {} \/ Waiting = targets
      BY <1>0, <1>6 DEF LoadConfig, ParseCode, RejectTime, Gate, ResolveTargets,
         OpenController, Work, Waiting
    <3> QED
      BY <1>3, <3>1, <3>2
  <2> QED
    BY <1>2, <2>1
<1>7. CASE StoreFails \/ PumpEnds \/ Kill
  <2>1. /\ exit' \in {1, 9} /\ pc # "idle" /\ UNCHANGED <<command, targets, outcomes, known, run>>
        /\ cut' = cut \cup ({run} \X node)
    BY <1>7 DEF StoreFails, PumpEnds, Kill, Exit, files, given, memory
  <2>2. \/ exit' = 9 \/ Waiting # {} \/ targets = {}
        \/ \E n \in targets : node = {n}
    BY <1>0, <1>7 DEF StoreFails, PumpEnds, Kill, Exit, Work
  <2>3. ASSUME NEW n \in targets, node = {n} PROVE <<run', n>> \in cut'
    BY <2>1, <2>3
  <2> QED
    BY <1>3, <2>1, <2>2, <2>3
<1>8. CASE Join
  <2>1. /\ pc # "idle" /\ UNCHANGED <<command, targets, outcomes, known>> /\ targets = {}
        /\ pc' = "idle" => exit' = 1
    BY <1>0, <1>8 DEF Join, GoTo, Exit, Work, files, given, memory
  <2> QED
    BY <1>2, <1>3, <2>1
<1>9. CASE Report
  <2>1. /\ pc = "report" /\ Waiting = {} /\ node = {}
        /\ UNCHANGED <<command, targets, outcomes, known, next, member, run, set, cut>>
    BY <1>0, <1>9 DEF Report, Work, files, devices, given, memory
  <2>2. command = "sync" => trusted # "no" \/ manual
    BY <1>0, <2>1 DEF Trust
  <2>3. exit' = IF \A n \in targets : outcomes[n] \in {"success", "skipped"} THEN 0 ELSE 1
    BY <1>9, <2>2 DEF Report, Exit
  <2>4. exit' = 1 => \E n \in targets' : outcomes'[n] = "failed"
    BY <1>0, <1>t, <2>1, <2>3 DEF Waiting, Results
  <2>5. exit' = 0 /\ command' = "sync" =>
          targets' # {} /\ \A n \in targets' : set'[n] = run' \/ n \in Lacking
    BY <1>0, <2>1, <2>3 DEF Done, Work
  <2>6. exit' = 0 /\ command' = "decommission" => targets' # {} /\ targets' \cap known' = {}
    BY <1>0, <2>1, <2>3 DEF Done, Work
  <2>7. exit' = 0 /\ command' = "inspect" => targets' \cap Lacking = {}
    BY <1>0, <2>1, <2>3 DEF Done
  <2>8. exit' = 0 /\ command' = "commission" => next' - 1 \in known' \cap member'
    BY <1>0, <2>1 DEF Done
  <2>9. command' = "decommission" =>
          \A n \in targets' : outcomes'[n] = "failed" => n \in known'
    BY <1>1, <2>1
  <2> QED
    BY <2>4, <2>5, <2>6, <2>7, <2>8, <2>9 DEF ExitTruth
<1>10. CASE UNCHANGED vars
  BY <1>0, <1>10 DEF ExitTruth, Waiting, vars, record, given, memory
<1> QED
  BY <1>4, <1>5, <1>6, <1>7, <1>8, <1>9, <1>10 DEF Next, Proceed

\* Every step keeps the invariant.
LEMMA Inductive == IInv /\ [Next]_vars => IInv'
  BY GivenKept, RegistryKept, RecordKept, WorkTyped, TrustKept, CourseKept, WorkKept,
     DoneKept, LedgerKept, ExitTruthKept DEF IInv, Types, TypeOK

--------------------------------------------------------------------------------
(* The theorems.                                                            *)

\* The invariant holds in every state of every sequence of runs.
THEOREM Invariance == Spec => []IInv
  BY Starts, Inductive, PTL DEF Spec

\* Every variable keeps its type, and no node id is beyond the next one.
THEOREM Typed == Spec => []TypeOK
<1>1. IInv => TypeOK
  BY DEF IInv, Types
<1> QED
  BY <1>1, Invariance, PTL

\* Whatever the devices answer and wherever a run fails, its exit code says what
\* became of its targets (exit_code, and the errors that operations return).
THEOREM ExitsTruthful == Spec => []ExitTruth
<1>1. IInv => ExitTruth
  BY DEF IInv
<1> QED
  BY <1>1, Invariance, PTL

\* What `status` shows is backed by what was set, through any number of runs
\* that fail, are killed or find devices.json unwritable.
THEOREM StatusIsHonest == Spec => []StatusHonest
<1>1. IInv => StatusHonest
  <2> SUFFICES ASSUME IInv, NEW n \in Nodes
               PROVE  /\ synced[n] # 0 => set[n] >= synced[n] /\ synced[n] <= attempted[n]
                      /\ pc = "idle" /\ ~error[n] /\ synced[n] < attempted[n] =>
                           <<attempted[n], n>> \in cut
    BY DEF StatusHonest
  <2>1. pc = "idle" => node = {}
    BY DEF IInv, Work
  <2> QED
    BY <2>1 DEF IInv, Ledger
<1> QED
  BY <1>1, Invariance, PTL

\* The code of any device whose window is open leads to that device.
THEOREM CodesLead == Spec => []CodeReachesDevice
<1>1. IInv => CodeReachesDevice
  <2> SUFFICES ASSUME IInv, NEW w \in Windows, NEW long \in BOOLEAN,
                      code = Printed(w, long),
                      pc \in {"open", "join", "joined", "recorded", "report"}
               PROVE  onboarding = w
    BY DEF CodeReachesDevice
  <2>1. w \in Onboarding
    BY CommandAssumption
  <2>2. Printed(w, long) \in Code /\ Decode(Printed(w, long)) = w
    BY <2>1, PrintedDecodes, PrintedIsCode
  <2>3. command = "commission"
    BY <2>2, CommandAssumption DEF IInv, Course
  <2> QED
    BY <2>2, <2>3 DEF IInv, Course
<1> QED
  BY <1>1, Invariance, PTL

\* No device is ever set from a host clock that neither the operating system
\* vouches for nor a server's answer finds within reach, but by --time.
THEOREM SetsFromTrusted == Spec => SetFromTrustedClock
<1>1. IInv /\ [Next]_vars => (set' # set => manual \/ trusted = "timedatectl" \/ WithinReach(skew))
  <2> SUFFICES ASSUME IInv, [Next]_vars, set' # set
               PROVE  manual \/ trusted = "timedatectl" \/ WithinReach(skew)
    OBVIOUS
  <2>1. TakeTime
    BY DEF Next, Proceed, vars, Invoke, LoadConfig, ParseCode, RejectTime, Gate, ResolveTargets,
       OpenController, StoreFails, StoreAttempt, Contact, PumpEnds, SyncOne, StoreResult,
       InspectOne, DropFabric, LeaveOne, LeaveFails, DropRecord, Join, RecordDevice,
       StoreIdentity, Report, Kill, devices
  <2>2. trusted \in {"no", "sntp", "timedatectl"}
    BY DEF IInv, Types, TypeOK, WorkOK
  <2> QED
    BY <2>1, <2>2 DEF TakeTime, IInv, Trust
<1> QED
  BY <1>1, Invariance, PTL DEF Spec, SetFromTrustedClock

\* A run that is refused at any point before it writes has changed no file and no
\* device, and what it writes is about nodes on record.
THEOREM RefusalsLeaveNoTrace == Spec => RefusalsTouchNothing
<1> DEFINE Allowed ==
      /\ command \in {"commission", "sync", "decommission"}
      /\ config.found = "yes" \/ ~config.explicit
      /\ config.found = "yes" => config.absolute /\ config.zone /\ config.label <= LabelMax
      /\ command = "commission" => Accepts(code)
           Kept == \A n \in Nodes : n \notin known =>
                     attempted'[n] = attempted[n] /\ set'[n] = set[n]
<1>1. IInv /\ [Next]_vars => (<<files, devices>>' # <<files, devices>> => Allowed /\ Kept)
  <2> SUFFICES ASSUME IInv, [Next]_vars, <<files, devices>>' # <<files, devices>>
               PROVE  Allowed /\ Kept
    OBVIOUS
  <2>0. /\ Course /\ node \subseteq known /\ (pc = "loop" => Waiting \subseteq known)
        /\ attempted \in [Nodes -> Runs] /\ set \in [Nodes -> Runs]
    BY HandRecorded DEF IInv, Types, TypeOK, RecordOK, Course, Work
  <2>1. \/ StoreAttempt \/ TakeTime \/ StoreResult \/ DropFabric \/ DropRecord \/ Join
        \/ RecordDevice \/ StoreIdentity
    BY DEF Next, Proceed, vars, Invoke, LoadConfig, ParseCode, RejectTime, Gate, ResolveTargets,
       OpenController, StoreFails, Contact, PumpEnds, SyncOne, InspectOne, LeaveOne,
       LeaveFails, Report, Kill, files, devices
  <2>2. Loads(config) => /\ config.found = "yes" \/ ~config.explicit
                         /\ config.found = "yes" =>
                              config.absolute /\ config.zone /\ config.label <= LabelMax
    BY CommandAssumption DEF Loads
  <2>3. Allowed
    <3>1. /\ pc \notin {"idle", "config"}
          /\ command \in {"commission", "sync", "decommission"}
          /\ command = "commission" => pc \in {"join", "joined", "recorded"}
      BY <2>0, <2>1 DEF StoreAttempt, TakeTime, StoreResult, DropFabric, DropRecord, Join,
         RecordDevice, StoreIdentity, Course
    <3> QED
      BY <2>0, <2>2, <3>1 DEF Course
  <2>4. Kept
    <3>1. CASE StoreAttempt
      BY <2>0, <3>1 DEF StoreAttempt, devices
    <3>2. CASE TakeTime
      BY <2>0, <3>2 DEF TakeTime, files, record
    <3>3. CASE DropRecord
      BY <2>0, <3>3 DEF DropRecord, devices
    <3>4. CASE StoreResult \/ DropFabric \/ Join \/ RecordDevice \/ StoreIdentity
      BY <3>4 DEF StoreResult, DropFabric, Join, RecordDevice, StoreIdentity, files, devices,
         record
    <3> QED
      BY <2>1, <3>1, <3>2, <3>3, <3>4
  <2> QED
    BY <2>3, <2>4
<1>2. IInv /\ [Next]_vars =>
        (<<files, devices>>' # <<files, devices>> =>
           /\ command \in {"commission", "sync", "decommission"}
           /\ config.found = "yes" \/ ~config.explicit
           /\ config.found = "yes" => config.absolute /\ config.zone /\ config.label <= LabelMax
           /\ command = "commission" => Accepts(code)
           /\ \A n \in Nodes : n \notin known =>
                attempted'[n] = attempted[n] /\ set'[n] = set[n])
  BY <1>1
<1> HIDE DEF Allowed, Kept
<1> QED
  BY <1>2, Invariance, PTL DEF Spec, RefusalsTouchNothing

--------------------------------------------------------------------------------
(* Whole commands implement the ledger of node ids.                         *)

\* The device at work is a node that is on record, so it is one node that goes.
LEMMA DropsOne ==
  ASSUME IInv, DropRecord
  PROVE  LedgerOf!Next
<1>1. PICK n \in targets : node = {n}
  BY DEF IInv, Work, DropRecord
<1>2. n \in known
  BY <1>1, HandRecorded
<1>3. LedgerOf!Drop(n)
  BY <1>1 DEF DropRecord, devices, LedgerOf!Drop
<1> QED
  BY <1>2, <1>3 DEF LedgerOf!Next

\* A device that executes RemoveFabric is one that was on our fabric.
LEMMA LeavesOne ==
  ASSUME IInv, DropFabric
  PROVE  LedgerOf!Next
<1>1. PICK n \in Waiting : node = {n}
  BY DEF IInv, Work, DropFabric
<1>2. n \in member /\ LedgerOf!Leave(n)
  BY <1>1 DEF DropFabric, files, LedgerOf!Leave
<1> QED
  BY <1>2 DEF LedgerOf!Next

\* A commission joins the device, records it and then uses up its id.
LEMMA CommissionSteps ==
  ASSUME IInv, Join \/ RecordDevice \/ StoreIdentity
  PROVE  LedgerOf!Next \/ UNCHANGED LedgerOf!vars
<1>1. CASE Join
  <2>1. UNCHANGED <<next, known>> /\ member' \in {member, member \cup {next}}
    BY <1>1 DEF Join, files
  <2> QED
    BY <2>1 DEF LedgerOf!Next, LedgerOf!Join, LedgerOf!vars
<1>2. CASE RecordDevice
  <2>1. LedgerOf!Record(next)
    BY <1>2 DEF RecordDevice, devices, LedgerOf!Record
  <2>2. next \in 1..next
    BY <1>2 DEF IInv, Done, RecordDevice, Nodes
  <2> QED
    BY <2>1, <2>2 DEF LedgerOf!Next
<1>3. CASE StoreIdentity
  <2>1. next \in member \cap known
    BY <1>3 DEF IInv, Done, StoreIdentity
  <2>2. LedgerOf!Advance
    BY <1>3, <2>1 DEF StoreIdentity, devices, LedgerOf!Advance
  <2> QED
    BY <2>2 DEF LedgerOf!Next
<1> QED
  BY <1>1, <1>2, <1>3

\* Every step is a step of the ledger, or one that it does not see.
LEMMA LedgerSteps == IInv /\ [Next]_vars => [LedgerOf!Next]_(LedgerOf!vars)
<1> SUFFICES ASSUME IInv, [Next]_vars PROVE LedgerOf!Next \/ UNCHANGED LedgerOf!vars
  OBVIOUS
<1>1. ASSUME UNCHANGED <<next, known, member>> PROVE UNCHANGED LedgerOf!vars
  BY <1>1 DEF LedgerOf!vars
<1> QED
  BY <1>1, DropsOne, LeavesOne, CommissionSteps DEF Next, Proceed, vars,
     Invoke, LoadConfig, ParseCode, RejectTime, Gate, ResolveTargets,
     OpenController, StoreFails, StoreAttempt, Contact, PumpEnds, TakeTime, SyncOne,
     StoreResult, InspectOne, LeaveOne, LeaveFails, Report, Kill, files, devices

\* Whole commands implement the ledger of node ids, for any number of runs: a commission
\* raises next_device_node_id only when the device has joined and is recorded, and a
\* decommission removes one record at a time, whichever step fails or is cut off.
THEOREM ImplementsLedger == Spec => RefinesLedger
<1>1. Init => LedgerOf!Init
  BY DEF Init, LedgerOf!Init, Nodes
<1> QED
  BY <1>1, LedgerSteps, Invariance, PTL DEF Spec, RefinesLedger, LedgerOf!Spec

--------------------------------------------------------------------------------
(* Every run comes to its exit code.                                        *)

\* Before the controller is open, no target has had its turn.
Opening == {"config", "code", "gate", "resolve", "open"}

\* How far a run has come, with the target at work if there is one.
Rank(place) ==
  CASE place = "config" -> 1
    [] place \in {"code", "gate"} -> 2
    [] place = "resolve" -> 3
    [] place = "open" -> 4
    [] place \in {"join", "resulting"} -> 5
    [] place \in {"joined", "loop"} -> 6
    [] place \in {"recorded", "contacting"} -> 7
    [] place = "left" -> 8
    [] OTHER -> 9

\* The run ends, has a target less to wait for, has come further with the one at work, or
\* the device at work takes the time, which it does once.
Further ==
  \/ pc' = "idle"
  \/ pc' \notin Opening /\ Waiting' \subseteq Waiting /\ Waiting' # Waiting
  \/ (pc \in Opening \/ Waiting' = Waiting) /\ Rank(pc) < Rank(pc')
  \/ UNCHANGED <<pc, node, run, Waiting>> /\ \E n \in node : set[n] # run /\ set'[n] = run

\* A target that an outcome is returned for is one that was waited for.
LEMMA TurnTaken ==
  ASSUME IInv, SyncOne \/ InspectOne \/ LeaveOne \/ LeaveFails
  PROVE  Further
<1>1. PICK n \in Waiting : node = {n}
  BY DEF IInv, Work, SyncOne, InspectOne, LeaveOne, LeaveFails
<1>2. outcomes \in [Nodes -> Results \cup {"none"}] /\ Waiting \subseteq Nodes
  BY DEF IInv, Types, TypeOK, WorkOK, Work, Waiting
<1>3. PICK result \in Results : outcomes' = [outcomes EXCEPT ![n] = result]
  BY <1>1 DEF SyncOne, InspectOne, LeaveOne, LeaveFails, Returned, Results
<1>4. targets' = targets /\ pc' \notin Opening
  BY DEF SyncOne, InspectOne, LeaveOne, LeaveFails, GoTo, Onward, Opening
<1>5. Waiting' = Waiting \ {n}
  BY <1>2, <1>3, <1>4 DEF Waiting, Results
<1> QED
  BY <1>4, <1>5 DEF Further

\* Every step taken while a command runs ends it, leaves it a target less, or brings it
\* further, a failed write, a kill and what the devices do included: no command goes on
\* for ever, and none turns to a target twice (the loops of SyncOp, InspectOp and
\* DecommissionOp over what Target::resolve returned).
THEOREM CommandsRunOut == Spec => [][pc # "idle" => Further]_vars
<1>1. ASSUME IInv, Next, pc # "idle" PROVE Further
  <2>0. /\ Work /\ Course
        /\ pc \in {"idle", "config", "code", "gate", "resolve", "open", "loop", "contacting",
                   "left", "resulting", "join", "joined", "recorded", "report"}
    BY <1>1 DEF IInv, Types, TypeOK, WorkOK
  <2>1. ASSUME UNCHANGED <<targets, outcomes>>, Rank(pc) < Rank(pc') PROVE Further
    BY <2>1 DEF Further, Waiting
  <2>2. CASE LoadConfig \/ ParseCode \/ Gate \/ ResolveTargets
    BY <2>0, <2>2 DEF LoadConfig, ParseCode, Gate, ResolveTargets, GoTo, Exit, Further, Rank,
       Opening
  <2>3. CASE RejectTime \/ Report \/ StoreFails \/ PumpEnds \/ Kill
    BY <2>3 DEF RejectTime, Report, StoreFails, PumpEnds, Kill, Exit, Further
  <2>4. CASE OpenController
    BY <2>4 DEF OpenController, GoTo, Exit, Further, Rank, Opening
  <2>5. CASE StoreAttempt \/ Contact \/ DropFabric
    BY <2>1, <2>5 DEF StoreAttempt, Contact, DropFabric, GoTo, Rank, memory
  <2>6. CASE StoreResult \/ DropRecord
    <3>1. pc = "resulting" /\ pc' \in {"report", "loop"} /\ UNCHANGED <<targets, outcomes>>
      BY <2>6 DEF StoreResult, DropRecord, Onward, memory
    <3> QED
      BY <2>1, <3>1 DEF Rank
  <2>7. CASE Join
    BY <2>1, <2>7 DEF Join, GoTo, Exit, Further, Rank, memory
  <2>8. CASE RecordDevice
    BY <2>1, <2>8 DEF RecordDevice, GoTo, Rank, memory
  <2>9. CASE StoreIdentity
    <3>1. Waiting = {} /\ next \in Nodes /\ outcomes \in [Nodes -> Results \cup {"none"}]
      BY <1>1, <2>0, <2>9 DEF StoreIdentity, Work, Waiting, IInv, Done, Types, TypeOK, WorkOK
    <3>2. Waiting' = {}
      BY <2>9, <3>1 DEF StoreIdentity, Waiting
    <3> QED
      BY <2>9, <3>1, <3>2 DEF StoreIdentity, GoTo, Further, Rank
  <2>10. CASE TakeTime
    <3>1. PICK n \in node : set[n] # run /\ set' = [set EXCEPT ![n] = run]
      BY <2>10 DEF TakeTime
    <3>2. n \in Nodes /\ set \in [Nodes -> Runs]
      BY <1>1, <3>1, HandRecorded DEF IInv, Types, TypeOK, RecordOK
    <3>3. UNCHANGED <<pc, node, run, Waiting>>
      BY <2>10 DEF TakeTime, memory, given, Waiting
    <3> QED
      BY <3>1, <3>2, <3>3 DEF Further
  <2>11. ~Invoke
    BY <1>1 DEF Invoke
  <2> QED
    BY <1>1, <2>2, <2>3, <2>4, <2>5, <2>6, <2>7, <2>8, <2>9, <2>10, <2>11, TurnTaken
       DEF Next, Proceed
<1>2. IInv /\ Next => (pc # "idle" => Further)
  BY <1>1
<1> QED
  BY <1>2, Invariance, PTL DEF Spec

--------------------------------------------------------------------------------
(* No command is ever stuck.  The provers do not know ENABLED, so that a    *)
(* step exists is said by its outcome: At(x) is the module whose variables  *)
(* hold what they hold now before the step, and what the record x says      *)
(* after it.                                                                *)

VARIABLE before   \* TRUE in the state before the step, FALSE in the one after it

At(x) == INSTANCE CommandRun WITH
     run <- IF before THEN run ELSE x.run,
     known <- IF before THEN known ELSE x.known,
     next <- IF before THEN next ELSE x.next,
     member <- IF before THEN member ELSE x.member,
     attempted <- IF before THEN attempted ELSE x.attempted,
     synced <- IF before THEN synced ELSE x.synced,
     error <- IF before THEN error ELSE x.error,
     command <- IF before THEN command ELSE x.command,
     config <- IF before THEN config ELSE x.config,
     manual <- IF before THEN manual ELSE x.manual,
     asked <- IF before THEN asked ELSE x.asked,
     code <- IF before THEN code ELSE x.code,
     skew <- IF before THEN skew ELSE x.skew,
     onboarding <- IF before THEN onboarding ELSE x.onboarding,
     trusted <- IF before THEN trusted ELSE x.trusted,
     targets <- IF before THEN targets ELSE x.targets,
     node <- IF before THEN node ELSE x.node,
     outcomes <- IF before THEN outcomes ELSE x.outcomes,
     pc <- IF before THEN pc ELSE x.pc,
     exit <- IF before THEN exit ELSE x.exit,
     set <- IF before THEN set ELSE x.set,
     cut <- IF before THEN cut ELSE x.cut

\* There is a state that a step of the run itself leads to.
CanGoOn == \E x : At(x)!Proceed

Now == [run |-> run, known |-> known, next |-> next, member |-> member,
        attempted |-> attempted, synced |-> synced, error |-> error, command |-> command,
        config |-> config, manual |-> manual, asked |-> asked, code |-> code,
        skew |-> skew, onboarding |-> onboarding, trusted |-> trusted, targets |-> targets,
        node |-> node, outcomes |-> outcomes, pc |-> pc, exit |-> exit, set |-> set,
        cut |-> cut]

Going(place) == [Now EXCEPT !.pc = place]
Ending(status) == [Now EXCEPT !.pc = "idle", !.exit = status, !.node = {}]

\* The command line, the configuration and the code are accepted or refused.
LEMMA CanBegin ==
  ASSUME before, ~before', pc \in {"config", "code"}
  PROVE  CanGoOn
<1> USE DEF At!files, At!record, At!devices, At!given, At!memory, At!GoTo, At!Exit, Now
<1>1. CASE pc = "config"
  <2>1. PICK x : x = IF command = "none" \/ ~Loads(config) THEN Ending(2)
                     ELSE Going(CASE command = "status" -> "report"
                                  [] command = "commission" -> "code"
                                  [] command = "sync" -> "gate"
                                  [] OTHER -> "resolve")
    OBVIOUS
  <2>2. At(x)!Loads(config) <=> Loads(config)
    BY DEF At!Loads, Loads
  <2>3. CASE command = "none" \/ ~Loads(config)
    <3>1. x = Ending(2)
      BY <2>1, <2>3
    <3>2. At(x)!LoadConfig
      BY <1>1, <2>2, <2>3, <3>1 DEF At!LoadConfig, Ending
    <3> QED
      BY <3>2 DEF CanGoOn, At!Proceed
  <2>4. CASE ~(command = "none" \/ ~Loads(config))
    <3>1. x = Going(CASE command = "status" -> "report"
                      [] command = "commission" -> "code"
                      [] command = "sync" -> "gate"
                      [] OTHER -> "resolve")
      BY <2>1, <2>4
    <3>2. At(x)!LoadConfig
      BY <1>1, <2>2, <2>4, <3>1 DEF At!LoadConfig, Going
    <3> QED
      BY <3>2 DEF CanGoOn, At!Proceed
  <2> QED
    BY <2>3, <2>4
<1>2. CASE pc = "code"
  <2>1. ASSUME NEW x
        PROVE  (At(x)!Accepts(code) <=> Accepts(code)) /\ At(x)!Decode(code) = Decode(code)
    BY DEF At!Accepts, At!Decode, At!Passcode, At!Short, At!LowLimit, At!PasscodeLimit,
       At!InvalidPasscodes, Accepts, Decode, Passcode, Short, LowLimit, PasscodeLimit,
       InvalidPasscodes
  <2>2. CASE Accepts(code)
    <3>1. PICK x : x = [Going("open") EXCEPT !.onboarding = Decode(code)]
      OBVIOUS
    <3>2. At(x)!ParseCode
      BY <1>2, <2>1, <2>2, <3>1 DEF At!ParseCode, Going
    <3> QED
      BY <3>2 DEF CanGoOn, At!Proceed
  <2>3. CASE ~Accepts(code)
    <3>1. PICK x : x = Ending(1)
      OBVIOUS
    <3>2. At(x)!ParseCode
      BY <1>2, <2>1, <2>3, <3>1 DEF At!ParseCode, Ending
    <3> QED
      BY <3>2 DEF CanGoOn, At!Proceed
  <2> QED
    BY <2>2, <2>3
<1> QED
  BY <1>1, <1>2

\* Whatever the servers answer leads to a verdict.
LEMMA VerdictOfReplies ==
  ASSUME NEW s, NEW replies \in [1..Servers -> Reply], NEW timedatectl \in BOOLEAN
  PROVE  Verdict(s, replies, timedatectl) \in Verdicts(s)
BY DEF Verdicts

\* There is always a verdict on the host's clock.
LEMMA CanJudge ==
  ASSUME before, ~before', pc = "gate", skew \in Skews, Reply # {}
  PROVE  CanGoOn
<1> USE DEF At!files, At!record, At!devices, At!given, At!memory, At!GoTo, At!Exit, Now
<1>1. PICK v \in Verdicts(skew) : TRUE
  <2>1. PICK r \in Reply : TRUE
    OBVIOUS
  <2>2. PICK f \in [1..Servers -> Reply] : f = [i \in 1..Servers |-> r]
    BY <2>1
  <2> QED
    BY <2>2, VerdictOfReplies
<1>2. ASSUME NEW x PROVE v \in At(x)!VerdictsOf[skew]
  <2>1. At(x)!Reply = Reply /\ \A r : At(x)!Usable(r) <=> Usable(r)
    BY DEF At!Reply, Reply, At!Usable, Usable
  <2>2. \A s, r : At(x)!Near(s, r) <=> Near(s, r)
    BY DEF At!Near, Near, At!TwiceOffset, TwiceOffset
  <2>3. \A s, f, t : At(x)!Verdict(s, f, t) = Verdict(s, f, t)
    BY <2>1, <2>2 DEF At!Verdict, Verdict
  <2>4. At(x)!Verdicts(skew) = Verdicts(skew)
    BY <2>1, <2>3 DEF At!Verdicts, Verdicts
  <2> QED
    BY <1>1, <2>4 DEF At!VerdictsOf
<1>3. CASE v = "no" /\ ~manual
  <2>1. PICK x : x = [Ending(1) EXCEPT !.trusted = v]
    OBVIOUS
  <2>2. At(x)!Gate
    BY <1>2, <1>3, <2>1 DEF At!Gate, Ending
  <2> QED
    BY <2>2 DEF CanGoOn, At!Proceed
<1>4. CASE ~(v = "no" /\ ~manual)
  <2>1. PICK x : x = [Going("resolve") EXCEPT !.trusted = v]
    OBVIOUS
  <2>2. At(x)!Gate
    BY <1>2, <1>4, <2>1 DEF At!Gate, Going
  <2> QED
    BY <2>2 DEF CanGoOn, At!Proceed
<1> QED
  BY <1>3, <1>4

\* The targets are resolved, the controller opens, and the report is printed.
LEMMA CanResolve ==
  ASSUME before, ~before', pc \in {"resolve", "open", "report"}
  PROVE  CanGoOn
<1> USE DEF At!files, At!record, At!devices, At!given, At!memory, At!GoTo, At!Exit, Now,
            Going, Ending
<1>1. CASE pc = "resolve" /\ ((known = {} /\ command # "inspect") \/ asked \notin known \cup {None})
  <2>1. PICK x : x = Ending(1)
    OBVIOUS
  <2>2. At(x)!ResolveTargets
    BY <1>1, <2>1 DEF At!ResolveTargets
  <2> QED
    BY <2>2 DEF CanGoOn, At!Proceed
<1>2. CASE pc = "resolve" /\ ~((known = {} /\ command # "inspect") \/ asked \notin known \cup {None})
  <2> DEFINE chosen == IF asked = None THEN known ELSE {asked}
  <2>1. PICK x : x = [Going(IF chosen = {} THEN "report" ELSE "open") EXCEPT !.targets = chosen]
    OBVIOUS
  <2>2. At(x)!ResolveTargets
    BY <1>2, <2>1 DEF At!ResolveTargets
  <2> QED
    BY <2>2 DEF CanGoOn, At!Proceed
<1>3. CASE pc = "open"
  <2>1. PICK x : x = Going(IF command = "commission" THEN "join" ELSE "loop")
    OBVIOUS
  <2>2. At(x)!OpenController
    BY <1>3, <2>1 DEF At!OpenController
  <2> QED
    BY <2>2 DEF CanGoOn, At!Proceed
<1>4. CASE pc = "report"
  <2>1. PICK x : x = Ending(IF /\ \A n \in targets : outcomes[n] \in {"success", "skipped"}
                               /\ command = "sync" => trusted # "no" \/ manual
                              THEN 0 ELSE 1)
    OBVIOUS
  <2>2. At(x)!Report
    BY <1>4, <2>1 DEF At!Report
  <2> QED
    BY <2>2 DEF CanGoOn, At!Proceed
<1> QED
  BY <1>1, <1>2, <1>3, <1>4

\* A commission gives up, or goes on to its next write.
LEMMA CanCommission ==
  ASSUME before, ~before', pc \in {"join", "joined", "recorded"}
  PROVE  CanGoOn
<1> USE DEF At!files, At!record, At!devices, At!given, At!memory, At!GoTo, At!Exit, Now,
            Going, Ending
<1>1. CASE pc = "join"
  <2>1. PICK x : x = Ending(1)
    OBVIOUS
  <2>2. At(x)!Join
    BY <1>1, <2>1 DEF At!Join
  <2> QED
    BY <2>2 DEF CanGoOn, At!Proceed
<1>2. CASE pc = "joined"
  <2>1. PICK x : x = [Going("recorded") EXCEPT !.known = known \cup {next}]
    OBVIOUS
  <2>2. At(x)!RecordDevice
    BY <1>2, <2>1 DEF At!RecordDevice
  <2> QED
    BY <2>2 DEF CanGoOn, At!Proceed
<1>3. CASE pc = "recorded"
  <2>1. PICK x : x = [Going("report") EXCEPT
                        !.next = next + 1, !.targets = {next},
                        !.outcomes = [outcomes EXCEPT ![next] = "success"]]
    OBVIOUS
  <2>2. At(x)!StoreIdentity
    BY <1>3, <2>1 DEF At!StoreIdentity
  <2> QED
    BY <2>2 DEF CanGoOn, At!Proceed
<1> QED
  BY <1>1, <1>2, <1>3

\* A loop turns to its next target, which is there.
LEMMA CanTurn ==
  ASSUME IInv, before, ~before', pc = "loop"
  PROVE  CanGoOn
<1> USE DEF At!files, At!record, At!devices, At!given, At!memory, Now
<1>1. PICK n \in Waiting : TRUE
  BY DEF IInv, Work
<1>2. command \in Targeted
  BY DEF IInv, Course
<1>3. ASSUME NEW x PROVE n \in At(x)!Waiting
  BY <1>1 DEF At!Waiting, Waiting
<1>4. CASE command = "sync"
  <2>1. PICK x : x = [Going("contacting") EXCEPT
                        !.node = {n}, !.attempted = [attempted EXCEPT ![n] = run]]
    OBVIOUS
  <2>2. At(x)!StoreAttempt
    BY <1>3, <1>4, <2>1 DEF At!StoreAttempt, Going
  <2> QED
    BY <2>2 DEF CanGoOn, At!Proceed
<1>5. CASE command \in {"inspect", "decommission"}
  <2>1. PICK x : x = [Going("contacting") EXCEPT !.node = {n}]
    OBVIOUS
  <2>2. At(x)!Contact
    BY <1>3, <1>5, <2>1 DEF At!Contact, Going
  <2> QED
    BY <2>2 DEF CanGoOn, At!Proceed
<1> QED
  BY <1>2, <1>4, <1>5 DEF Targeted

\* The device at work fails at worst, for whatever command.
LEMMA CanFail ==
  ASSUME IInv, before, ~before', pc \in {"contacting", "left"}
  PROVE  CanGoOn
<1> USE DEF At!files, At!record, At!devices, At!given, At!memory, At!GoTo, At!Exit,
            At!Returned, At!Onward, Now
<1>1. PICK n \in Waiting : node = {n}
  BY DEF IInv, Work
<1>2. command \in Targeted /\ (pc = "left" => command = "decommission")
  BY DEF IInv, Course, Targeted
<1>3. ASSUME NEW x
      PROVE  At(x)!Waiting = Waiting /\ "failed" \in At(x)!Results
  BY DEF At!Waiting, Waiting, At!Results
<1> DEFINE Failed(place) ==
      [Going(place) EXCEPT !.outcomes = [outcomes EXCEPT ![n] = "failed"]]
<1>4. CASE command = "sync" /\ pc = "contacting"
  <2>1. PICK x : x = Failed("resulting")
    OBVIOUS
  <2>2. At(x)!SyncOne
    BY <1>1, <1>3, <1>4, <2>1 DEF At!SyncOne, Going
  <2> QED
    BY <2>2 DEF CanGoOn, At!Proceed
<1>5. CASE command = "inspect" /\ pc = "contacting"
  <2>1. PICK x : x = [Failed(IF Waiting \ node = {} THEN "report" ELSE "loop") EXCEPT !.node = {}]
    OBVIOUS
  <2>2. At(x)!InspectOne
    BY <1>1, <1>3, <1>5, <2>1 DEF At!InspectOne, Going
  <2> QED
    BY <2>2 DEF CanGoOn, At!Proceed
<1>6. CASE command = "decommission"
  <2>1. PICK x : x = [Failed(IF Waiting \ node = {} THEN "report" ELSE "loop") EXCEPT !.node = {}]
    OBVIOUS
  <2>2. At(x)!LeaveFails
    BY <1>1, <1>3, <1>6, <2>1 DEF At!LeaveFails, Going
  <2> QED
    BY <2>2 DEF CanGoOn, At!Proceed
<1> QED
  BY <1>2, <1>4, <1>5, <1>6 DEF Targeted

\* The result is recorded.
LEMMA CanStore ==
  ASSUME IInv, before, ~before', pc = "resulting"
  PROVE  CanGoOn
<1> USE DEF At!files, At!record, At!devices, At!given, At!memory, At!Onward, Now
<1> DEFINE place == IF Waiting = {} THEN "report" ELSE "loop"
<1>1. PICK n : node = {n}
  BY DEF IInv, Work
<1>2. command \in {"sync", "decommission"}
  BY DEF IInv, Course
<1>3. ASSUME NEW x PROVE At(x)!Waiting = Waiting
  BY DEF At!Waiting, Waiting
<1>4. CASE command = "sync" /\ outcomes[n] = "success"
  <2>1. PICK x : x = [Going(place) EXCEPT !.node = {},
                        !.synced = [synced EXCEPT ![n] = run],
                        !.error = [error EXCEPT ![n] = FALSE]]
    OBVIOUS
  <2>2. At(x)!StoreResult
    BY <1>1, <1>3, <1>4, <2>1 DEF At!StoreResult, Going
  <2> QED
    BY <2>2 DEF CanGoOn, At!Proceed
<1>5. CASE command = "sync" /\ outcomes[n] # "success"
  <2>1. PICK x : x = [Going(place) EXCEPT !.node = {}, !.error = [error EXCEPT ![n] = TRUE]]
    OBVIOUS
  <2>2. At(x)!StoreResult
    BY <1>1, <1>3, <1>5, <2>1 DEF At!StoreResult, Going
  <2> QED
    BY <2>2 DEF CanGoOn, At!Proceed
<1>6. CASE command = "decommission"
  <2>1. PICK x : x = [Going(place) EXCEPT !.node = {}, !.known = known \ node,
                        !.attempted = [k \in Nodes |-> IF k \in node THEN 0 ELSE attempted[k]],
                        !.synced = [k \in Nodes |-> IF k \in node THEN 0 ELSE synced[k]],
                        !.error = [k \in Nodes |-> IF k \in node THEN FALSE ELSE error[k]]]
    OBVIOUS
  <2>2. At(x)!DropRecord
    BY <1>3, <1>6, <2>1 DEF At!DropRecord, At!Nodes, Nodes, Going
  <2> QED
    BY <2>2 DEF CanGoOn, At!Proceed
<1> QED
  BY <1>2, <1>4, <1>5, <1>6

\* A command that was started always has a step of its own to take, with every device
\* mute and no write failing: no combination of configuration, code, clock and registry
\* leads it to a place it cannot leave.  With CommandsRunOut, every command that is not
\* killed comes to an exit code.  (Reply # {}: what came back from a time server, nothing
\* included, is in the model's range.)
THEOREM CommandsCanGoOn ==
  ASSUME Reply # {}
  PROVE  Spec => [][before /\ ~before' => (pc # "idle" => CanGoOn)]_before
<1>1. ASSUME IInv, before, ~before', pc # "idle" PROVE CanGoOn
  <2>1. /\ skew \in Skews
        /\ pc \in {"idle", "config", "code", "gate", "resolve", "open", "loop", "contacting",
                   "left", "resulting", "join", "joined", "recorded", "report"}
    BY <1>1 DEF IInv, Types, TypeOK, GivenOK, WorkOK
  <2> QED
    BY <1>1, <2>1, CanBegin, CanJudge, CanResolve, CanCommission, CanTurn, CanFail, CanStore
<1>2. IInv => (before /\ ~before' => (pc # "idle" => CanGoOn))
  BY <1>1
<1> QED
  BY <1>2, Invariance, PTL
================================================================================
