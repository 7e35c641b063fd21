# mattertimectl in TLA+

`mattertimectl` is a one-shot command line program that sets the clocks of
Matter devices. It owns a Matter fabric, joins devices to it as a second admin
(`commission`), pushes the host's time and zone to them (`sync`, started by a
timer), shows what it knows (`status`, `inspect`) and leaves them again
(`decommission`). This directory models the parts of it where an order of
events, a kill, a lost answer or a boundary value decides whether it is right,
checks them with TLC, and proves the central ones with TLAPS.

All paths below are relative to the repository (`src/src/...` is the Rust code).

## The system

| Component | Code | State | Operations |
|---|---|---|---|
| Controller identity and guardrails | `controller/mod.rs` | `matter/k_*` (fabric blob), `identity.json` (RCAC key, next node id), the `flock` on `.lock`; in memory the `Matter` state and `Ctx` | `lock_storage`, `ensure_fabric`, `bootstrap_fabric`, `reconcile_label`, `identity_status` |
| Storage directory | `controller/mod.rs` | the directory, its mode, its files | `prepare_storage_dir`, `is_our_storage_dir` |
| Durable files | `state.rs`, `AtomicKvBlobStore` | one file and its temporary file | `store`, `write_private`, KV `store` and `remove` |
| Device registry | `state.rs`, `controller/ops.rs`, `main.rs` | `devices.json`, `next_device_node_id`; each device's fabric table | `CommissionOp`, `SyncOp`, `DecommissionOp`, `Target::resolve`, `update_device`, `remove_device` |
| Sync of one device | `controller/ops.rs` | the exchange in progress; the device's clock, zone, DST list, label | `sync_one`, `write_zone_and_dst`, `connect`, `ensure_fabric_label` |
| Command runs | `main.rs`, `config.rs`, `controller/ops.rs`, `output.rs` | what the run was given, its targets and outcomes; sync records in `devices.json`; exit code | `main`, `run_*`, `Config::load`, `Target::resolve`, the loops of the operations, `exit_code` |
| Inspect | `controller/ops.rs` | none kept | `InspectOp`, `inspect_one` |
| Configuration | `config.rs` | one file, read once | `load`, `load_optional`, `validate` |
| Pairing code | `pairing.rs` | pure | `parse_manual_code` |
| SNTP query | `host.rs` | up to two UDP exchanges | `sntp_offset`, `clock_is_ntp_synchronized` |
| DST list | `tz.rs` | pure | `build_dst_offset_list`, `build_time_zone_list`, `standard_offset_seconds`, `next_offset_transition` |
| Manual time | `time.rs`, `main.rs` | pure | `parse_wall_clock`, `manual_instant` |
| Clock assessment | `time.rs` | pure | `MatterMicros`, `ClockAssessment` |
| Rendering | `output.rs`, `time.rs` | none | text and JSON |
| Matter stack, mDNS | rs-matter, `controller/mod.rs` | external | PASE, CASE, exchanges, browsing |

How they interact: every command except `status` goes through
`controller::run`, which takes the storage lock, loads the KV blob, passes
`ensure_fabric` and only then runs the operation; the lock lives until the
process ends (in `decommission`: until `run` returns). Targets are resolved
*before* that, from an unlocked read of `devices.json`. Files are the only
state shared between processes, and each is replaced by rename. Devices are
the other half of the state: what they hold of our fabric is changed by
exchanges whose answers may be lost, and the local records follow afterwards.

What is hard about it: two invocations at once (a manual run beside the timer),
a kill between any two writes, a power loss under a rename, a device that
executed a request whose answer was lost, a device that acknowledged and did
nothing, a retry between taking a timestamp and sending it, snapshots used
after the file changed, and the numeric corners of clock values and DST rules.
`hazards` in `PROJECT.json` lists them line by line with the properties that
watch each.

## Modules

| Module | What it is |
|---|---|
| `OneFabric` | abstract: an identity is minted at most once, and devices join and leave that one fabric only |
| `ControllerFabric` | the identity on disk, the lock, every write of the guardrails, kills anywhere, `status` beside them |
| `ControllerFabricProofs` | its inductive invariant, its properties and the refinement of `OneFabric`; what is left of them under damage |
| `FabricDamage` | `ControllerFabric` over storage that loses files and fails reads, of `identity.json` and of `devices.json` |
| `NodeLedger` | abstract: devices join under the counter's id, one record at a time comes or goes, an id is used up with its device and its record in place |
| `DeviceRegistry` | commission, sync and decommission over `devices.json`, the id counter and the devices' fabric tables |
| `DeviceRegistryProofs` | its inductive invariant, six properties, the refinement of `NodeLedger`, ids that are never reused; that runs run out and never wait |
| `SyncDevice` | one device in one sync, against time, loss and misbehaviour |
| `SyncDeviceProofs` | its inductive invariant, its seven safety properties, the bound on its steps; that it always has one to take |
| `CommandRun` | successive invocations of any command, from the command line to the exit code |
| `CommandRunProofs` | its inductive invariant, its type invariant and five properties, the refinement of `NodeLedger`; that commands run out and can always go on |
| `HostClock` | what a host believes of its clock, from the answers of the NTP servers |
| `PairingCode` | manual codes, as numbers of full width |
| `PairingCodeProofs` | a printed code decodes to its device; what is accepted fits |
| `DurableRegister` | abstract: a file that always holds a whole value or none; a power loss may bring back an earlier one |
| `AtomicFile` | lock, temporary file, write, fsync, rename, remove, by overlapping runs over a page cache |
| `StorageDir` | the directory, its mode and `.lock`, beside an operator |
| `StorageFiles` | composes `StorageDir` and `AtomicFile`: runs that prepare the directory and then store a file |
| `StorageFilesProofs` | the invariant of `AtomicFile` and its refinement of `DurableRegister`; each run of the composition is one of `AtomicFile`; a directory of ours is private |
| `DstList` | the loop that builds the DST list of any zone |
| `ManualTime` | `--time`, the instant it stands for, and what a device with that instant and that list shows |
| `ManualTimeProofs` | the invariant of the loop of `DstList` and its properties; what is typed is what is shown |
| `ClockAssessment` | the comparison of clocks, at any integer width; `SyncDevice` is built on it |
| `ClockAssessmentProofs` | what the comparison computes, for all values and widths |
| `MC*` | constants and symmetry for TLC |

In each module a doc comment at an action names the function it stands for, and
`map` in `PROJECT.json` gives the lines. Definitions with a name such as
`LockStorage_Unchecked` are plausible mistakes of the definition that follows
them; nothing in the specifications uses them. Each shows that a property
notices that mistake.

### State and code

*ControllerFabric.* A generated identity is a number. `fabric` and `label` are the
two fields of the blob that matter, `identity` is `identity.json`, `registry` the
recorded devices, `held[d]` the fabrics of ours that device `d` has in its table.
`pc[p]` is the stage of invocation `p`: `starting` is before `lock_storage`,
`locked` before `load_persist`, `loaded` before the decision of `ensure_fabric`,
`persisted` between the two writes of `bootstrap_fabric`, `running` in the
operation. `loaded[p]`, `seen[p]` and `ident[p]` are the in-memory snapshots: the
fabric in the `Matter` state, what `load_or_default` made of `devices.json`
("empty", "recorded", or "unread" for a file with records that it could not read),
and the `Identity` of `Ctx`. The code's `registry.nodes.is_empty()` is
`Vacant(p)`, which cannot tell "unread" from "empty". `Ends` is the end of a
process: memory gone, flock released by the kernel. The operation is reduced to
the writes the guardrails depend on; its full sequence is in `DeviceRegistry`,
where in turn identity is reduced to the id counter.

*FabricDamage.* A file is lost (external), or it is there and cannot be read or
parsed. For `devices.json` the second goes through `load_or_default`, which
returns the empty registry while the records stay on disk: `RegistryReadFails` is
the snapshot of `ensure_fabric` then, `RecordOverUnread` and `RemoveOverUnread`
are the read-modify-writes over such a file.

*DeviceRegistry.* `update_device` and `remove_device` are two steps, a read of
the whole file into `copy[p]` and a write of it. `member[d]` is the node id a
device answers to, `pending` the devices whose fail-safe is still armed.
`assigned`, `reported` and `dropped` are histories for the properties. An
answer that is lost is the device's own step followed by the failure of the
run. `MayRefuse` says whether a device may answer `RemoveFabric` with an error
status.

*SyncDevice.* `skew` is what the device reports minus the host's clock, so a clock
that is right and reports in the Unix epoch is `EpochShift` ahead. The read-back
is judged by `Agrees` of `ClockAssessment`, which folds that out again and
saturates as the code does. `age` is the host time since `utc_write` was taken, so
the device that adopts the value on arrival has `skew = shift - age`. Each
exchange starts with a `connect` of up to `Attempts` attempts. `device` is what
the device is like: with or without the cluster or the TimeZone feature, needing a
DST list or not, saying so or not, honest or not. `PowerOutage` takes the device's
clock at any time.

*CommandRun.* A run is given its command, configuration, `--time`, `--node`,
pairing code and host clock by `Invoke`; `pc` is the place in `main`, the
`run_*` function or the loop of the operation. One exchange with a device is one
step here, with the outcomes that `SyncDevice` and `DeviceRegistry` derive; what
the device does (`TakeTime`, `DropFabric`) is a step of its own, so that the
answer can be lost, the pump can end (`PumpEnds`) and the run can be killed
between it and the record. `node` is the target in hand, as a set of at most
one. Files carry run numbers in place of timestamps; `set` and `cut` are
histories. Runs do not overlap in this module: `DeviceRegistry`, where the
commands are reduced to their reads and writes, is about overlap.

*HostClock.* Times are integers of any unit. A reply is the delays of the query
and of the answer; `late` is how old the answer to an earlier query is that
arrives instead. `TwiceOffset` is twice what `sntp_offset` returns, so that the
midpoint needs no fraction. *PairingCode.* A code is the numbers of its three
chunks, its length, and whether the Verhoeff digit is right (an external crate).

*AtomicFile.* `file`, `tmp` are what readers see; `filePlate`, `tmpPlate` what
the platter has of the same files; `saved` what the directory would show after
a power loss. All runs write the same `tmp`. `Writeback`, `CommitRename` and
`PowerLoss` are the kernel's. *StorageFiles.* A step is one of `StorageDir` or
one of `AtomicFile` by a run whose directory is prepared; the end of a run ends
both.

*DstList.* A zone is its offset at each instant, `marks` are transitions of the
tzdb that leave the offset as it is. Instant 0 is the Matter epoch; `Before`
instants lie ahead of it, for hosts whose clock has not been set (`--time` skips
the NTP gate, so their lists are built and sent too), and `Wire` clamps them: a
list from there may begin with periods that start and end at 0. *ManualTime.* A
day has `2 * HalfDay` hours of `HourLength` instants, so that the forms with and
without am/pm are those of the code in small. `ToZoned` is what jiff does with
gaps and folds by default (external). *ClockAssessment.* Operators only: `i64` is
`Lowest..Top`, with saturating arithmetic as in the code. `SyncDevice` extends it.
*StorageDir.* `foreign` and `opened` are histories of what the operator did.

## Runs

Passing runs:

| Run | Question | Properties |
|---|---|---|
| `controller_fabric` | Can overlap or kills separate the key from its fabric, replace it, or strand the storage? | `PairMatches`, `NoOrphan`, `CtxCoherent`, `NeverRefused`, `StatusNeverAlarms`, `IdentityNeverReplaced`, `RefinesOneFabric` |
| `fabric_damage` | What do the guardrails still guarantee when files vanish or reads fail? | `MintOnlyIfSeenEmpty`, `KeyNeverOverwritten`, `SeenRecordsKeepFabric` |
| `device_registry` | Do records and node ids survive overlap, kills and lost answers, and do the files implement the ledger? Does a run ever wait? | `TypeOK`, `ReportedIdsDistinct`, `ReportedKept`, `CounterAhead`, `RecordsAssigned`, `RunsNeverWait`, `RefinesLedger` |
| `sync_device` | What does a successful sync guarantee, and does every sync end, and after how many steps? Can an extreme report pass the verification, or the label spoil it? | `TypeOK`, `SuccessIsComplete`, `SuccessBoundsLag`, `IgnoredOnlyIfRight`, `VerifiedExactly`, `FoldNeverHurts`, `LabelCosmetic`, `StepsRunOut`, `SyncEnds` |
| `command_run` | Do exit codes and records tell the truth? Does a code lead to its device? Is an untrusted clock ever pushed? Does a refusal leave a trace? Do whole commands implement the ledger? | `ExitTruth`, `StatusHonest`, `CodeReachesDevice`, `SetFromTrustedClock`, `RefusalsTouchNothing`, `RefinesLedger` |
| `dst_list` | Does a device with this list show local time, and what was typed? Which periods are in the list? | `TypeOK`, `LocalTimeRight`, `Contiguous`, `NoEntryWasted`, `SteadyDayShown` |
| `storage_files` | Is a state file whole after any overlap, kill or power loss, and its directory private? | `IInv`, `RefinesRegister`, `OwnDirPrivate` |

The type invariants of `ControllerFabric` and `CommandRun`, and
`CounterNeverBack` of `DeviceRegistry`, belong to no run: they are proved (below),
and `RefinesLedger` says more about the counter than the last of them.

Runs whose property the code does not have (`findings` quotes the line that
promises it):

| Run | Shows |
|---|---|
| `fabric_unread` | `load_or_default` reads a `devices.json` that is there and cannot be read or parsed as empty. With `identity.json` gone, or unreadable too (`sudo mattertimectl commission` leaves both owned by root with mode 0600), the fabric blob of the recorded devices is discarded; with blob and `identity.json` gone an identity is minted while devices are recorded. |
| `registry_deletion_safe` | `decommission` says that deleting the storage is safe while a member has no record, and deleting it would orphan that member. Either a commission was killed after `CommissioningComplete` and before `update_device`; or a second commission joined a device after `run` returned and the lock was free again, and before the remaining devices were read (or recorded it after that). |
| `sync_verified_means_on_time` | `utc_write` is taken before a `connect` that may retry, and the read-back is compared with `utc_write`. A device that is a whole connect behind verifies, and the output gives its error against the host as small. |
| `manual_time_shown` | `manual_instant` uses the offset of the typed time, the DST list starts with the offset of the host's time. When the offset changes between the two (a time typed for the evening of a day that changes at night, in the morning before the change), the device shows another time than the one typed. |
| `storage_foreign` | The first run in somebody else's directory warns and leaves its mode alone, but creates `.lock` there. The second run takes `.lock` for a sign of ownership and sets the directory to 0700. |

Also seen while modelling, and stated by no run:

* A record of a device that executed `RemoveFabric` while the answer was lost
  cannot be removed by any later `decommission` (`controller/ops.rs:609`);
  `ExitTruth` says that it is reported and kept.
* The status of `RemoveFabric` and of `UpdateFabricLabel` is logged and not
  compared with success (`controller/ops.rs:625`, `:561`), so a label conflict
  comes back at every sync.
* A commission cut off before the stored counter hands its node id out again
  (`:141`; no *reported* commissioning is affected, see `ReportedIdsDistinct`).
* A `sync` resolved before a concurrent `decommission` records the removed node
  again (`main.rs:339`).
* The `?` after `update_device` and `remove_device` (`controller/ops.rs:314`,
  `:327`, `:588`) ends the batch: the devices already done are not reported,
  those behind are not contacted. `ExitTruth` and `StatusHonest` say what is left.
* `inspect` may rewrite the fabric blob, through `reconcile_label`
  (`controller/mod.rs:361`), and it exits with 1 when a device lacks the Time
  Synchronization cluster, where `sync` skips that device.
* An `identity.json` that exists and cannot be read counts as absent when the
  registry is, or counts as, empty (`controller/mod.rs:370`): the fabric is
  discarded, and the run then refuses because of the file.
* The comment at `controller/mod.rs:487` says that after a kill between the two
  writes of the bootstrap `ensure_fabric` "reports loudly rather than silently
  minting a second identity". It warns, discards the blob and mints, which is safe
  there: nothing carries the first identity (`NeverRefused`, `NoOrphan`).
* `update_device` and `remove_device` over a `devices.json` that cannot be read
  write a file without the records that were there (`state.rs:94`):
  `RecordOverUnread` and `RemoveOverUnread` in `FabricDamage`.
* A device that ignores the write and reports the right time one epoch shift
  ahead verifies (`controller/ops.rs:411`, `time.rs:98`), as does one whose clock
  was right before; `IgnoredOnlyIfRight` says that no other does.
* The comment at `host.rs:43` calls the error of the SNTP offset milliseconds;
  the code bounds it by half of the two seconds an answer may take, so a host
  up to two seconds off is trusted (`SetFromTrustedClock` states that bound).
* The label limit counts bytes, its message characters (`config.rs:208`).
* Pairing codes are accepted although their first digit is 8 or 9, or says that
  vendor and product are there when the length says they are not, or their
  second chunk is above 65535; the extra bits are dropped (`pairing.rs:74`).
* `--time` in a gap of the zone is shifted by the gap without a word.
* The comment at `time.rs:26` says that the NTP gate keeps the clamp to the Matter
  epoch from mattering. `--time` skips the gate (`main.rs:328`): on a host whose
  clock is before 2000 the typed time is of a day before the epoch, the device is
  set to the epoch and verifies, and periods that start and end at 0 are sent.
  `Contiguous` covers such lists and says that they are wrong in nothing else.
* The smaller of the January and July offsets is taken for standard time, which
  it is not in zones that go back in between (`tz.rs:56`; the local time shown
  is right all the same, see `LocalTimeRight`).

### Bounds

* `controller_fabric`: two invocations, two devices, two labels, three
  mintings. Only the lock relates invocations, so two show every conflict; three
  mintings let a discarded first run be followed by a second and a third one.
  The theorems hold for any number.
* `fabric_damage`, `fabric_unread`: the same with
  two mintings. One is enough for the records, the second is the one that must not
  or does come over them.
* `device_registry`: two invocations, two devices and two node ids: one id that
  a killed commission may leave behind and one for its successor. Decommission
  and a second commission of the same device are included. The theorems hold for
  any number.
* `sync_device`: three attempts as in the code; times in the order of the code
  (exchange 1 <= retry pause 1 < tolerance 2 < connect timeout 3 < window 100, above
  the 60 units that a value to write can age, < half of the epoch shift 500, and shift
  and window together below the largest `i64`, 700). Only this order decides which
  branch is taken. Clock errors: none, beyond the tolerance, far behind, one epoch
  shift ahead and behind, one that reaches the largest `u64` while the sync lasts,
  and a lost clock; `--time` now or far ahead. The theorems hold for any
  of these.
* `command_run`: two runs, three node ids of which one lacks the cluster, two
  NTP servers, a host that is right, just within reach and out of reach; a
  configuration for each check of `Config::load` and a pairing code for each
  check of `parse_manual_code`. Two runs are enough for a record that an earlier
  run left; the theorems hold for any number of runs, devices, configurations
  and codes. The system really stops after the last run.
* `storage_files`: two overlapping runs and two contents; with "no file" and
  "torn" a file can hold the old, the new or neither.
* `dst_list`: every function from seven instants, one of them before the epoch, to
  three offsets, with and without bookkeeping transitions, five starting
  instants, capacities 0 to 3; and, for zones with two offsets, every time of a
  day of four hours in all three forms, with one hour and one minute too many.
  The list is finished at the end of each behaviour. `manual_time_shown` is that
  with one instant fewer and no delay between the two readings of the clock.
* `storage_foreign`: two invocations; all other state is finite.

Deadlock is checked except in `command_run` and `dst_list`, which end.

### Fairness

`SyncEnds` assumes `WF_vars(Work)`: the program is a single task polled by an
executor, every wait in it is under `with_timeout` (30 s for a connect,
attempts and pauses counted), and the waits for an answer to a read or an
invoke are ended by rs-matter's own retransmission limit (external). Nothing is
assumed of the device, the network or the power: `ExchangeFails` and
`ConnectGivesUp` are steps of the program. `RunsNeverWait` needs no fairness:
it says that each started run has a step of its own in every reachable state.
That these steps lead to an end is the pass over a finite set of targets
(`RunsRunOut`, `CommandsRunOut` below).

## Proofs

| Theorem | Says, for every value of the constants |
|---|---|
| `ControllerFabricProofs!Consistent` | `Spec => []IInv`, the type invariant among its conjuncts |
| `PairAlwaysMatches`, `NeverOrphans`, `CtxAlwaysCoherent`, `KillsNeverStrand`, `StatusTruthful` | the five safety invariants, each from `IInv` |
| `IdentityForever` | `IdentityNeverReplaced` |
| `ImplementsOneFabric` | `Spec` implements `OneFabric` |
| `DamageContained`, `MintsOnlyIfSeenEmpty`, `KeyStays`, `SeenBlobStays` | `DamagedSpec => []DamageInv`, and the three action properties of `FabricDamage`, for every order of losses and failing reads |
| `StorageFilesProofs!AlwaysWhole`, `ImplementsRegister` | the file is whole; `AtomicFile` implements `DurableRegister` |
| `StoredWhole`, `StoredDurably` | the same for runs that prepare their directory first, since `StorageFiles` implements `AtomicFile` (`ImplementsAtomicFile`) |
| `AlwaysPrivate` | `StorageSpec => []OwnDirPrivate` |
| `DeviceRegistryProofs!Invariant`, `TypeCorrect`, `NodeIdsUnique`, `NoRecordLost`, `CounterIsAhead`, `OnlyAssignedRecorded` | the invariant, the type and the four safety properties of `DeviceRegistry`, for any number of runs and devices |
| `CounterMonotone` | `CounterNeverBack` |
| `DeviceRegistryProofs!ImplementsLedger` | overlapping and killed runs implement `NodeLedger` |
| `IdsNeverReused` | an id that the counter has passed and no device answers to is never given to a device again |
| `RunsRunOut` | every step of a run ends it, leaves it a target less or brings it further with the one at work, and nobody sets it back |
| `RunsCanGoOn` | a started run has a step of its own, whoever holds the lock: `RunsNeverWait` with `ENABLED` spelt out |
| `SyncDeviceProofs!Invariant`, `TypeCorrect`, `SyncedCompletely`, `LagBounded`, `IgnoringIsNoticed`, `LabelNeverFails` | the invariant and every safety property of `SyncDevice`, for any number of attempts, any timeouts, tolerance and clocks |
| `EveryStepCounts` | `StepsRunOut`: a sync takes at most `9 * (Attempts + 1)` steps |
| `SyncCanGoOn` | a sync that has not returned has a step to take, whatever the device and the network do |
| `PairingCodeProofs!PrintedDecodes`, `PrintedAccepted`, `AcceptedFits` | every printed code decodes to its device, and is accepted unless the passcode is a forbidden one; what is accepted fits its fields |
| `CommandRunProofs!Invariance`, `Typed`, `ExitsTruthful`, `StatusIsHonest`, `CodesLead`, `SetsFromTrusted`, `RefusalsLeaveNoTrace` | the type invariant and five properties of `CommandRun` |
| `CommandRunProofs!ImplementsLedger` | whole commands implement `NodeLedger`, whichever step fails or is cut off |
| `CommandsRunOut` | every step taken while a command runs, those of the devices included, ends it, leaves it a target less or brings it further |
| `CommandsCanGoOn` | a started command has a step of its own that needs no answer, no failed write and no kill |
| `VerdictSound` | the verdict "trusted by SNTP" implies that the host is within reach |
| `ClockAssessmentProofs!AgreementExact`, `FoldShrinks` | what the verification accepts, what folding the epoch shift does, for all values and widths |
| `SyncDeviceProofs!VerificationExact`, `FoldHonest` | `VerifiedExactly` and `FoldNeverHurts`, from them |
| `ManualTimeProofs!ListInvariant`, `TypeCorrect`, `LocalTimeFollows`, `AlwaysContiguous`, `NothingWasted` | the invariant and every property of `DstList`, for every zone, every tzdb, any capacity and any start |
| `BuildsList`, `ListsSent` | `ManualSpec` implements `Spec` of `DstList`, so the same holds of the lists that are sent |
| `TypedOnSteadyDay` | `ManualSpec => []SteadyDayShown`, for days of any length and every form of the time |

Assumptions: the named `ASSUME`s of the modules (the lock's "nobody" is not an
invocation, there is a label, no content is "no file" or "torn", delays that are
naturals, codes and windows that are such, zones that are functions from instants
to integers, typed hours and minutes that are naturals (the code parses them as
`u8`), and the order of magnitude of the clock constants), which TLC evaluates for the
instances. `CommandsCanGoOn` also assumes `Reply # {}`: a run that asks a time
server gets something out of the model's range, if only nothing.

*ControllerFabric.* `PairMatches` is not inductive: a run in `persisted` will
write `ident[p]` and only its memory says that the blob carries the same
identity; a run in `loaded` acts on snapshots. `IInv` adds what makes it so:
`LockExclusive` (a run past `lock_storage` is the lock's owner, hence alone),
`StageMemory` (per stage, how the snapshots relate to the disk), `HeldByOwner`
(devices hold no fabric but the one on disk) and `RecordsNeedIdentity` (a
record implies an identity, so a discard never strands a device). Each action
then disturbs few conjuncts: the lock gives that every other invocation is
outside `Locked`, so its part of `StageMemory` is about `status` only, whose
stages need nothing but that an identity never disappears. The proof has one
step per action and, under it, one per conjunct that the action can disturb.

*FabricDamage.* When files vanish, `StageMemory` is false: a run remembers a
fabric that is gone. What stays true is weaker and enough. `DamageInv` says that
a run past `lock_storage` owns the lock, and that its memory (`Snapshot`) is never
of another identity: what it remembers as present is there or has been lost since,
and what it remembers as absent is absent. The second half is what `ensure_fabric`
decides on, so a mint, a discard or a write of the key happens over files that
are as the run saw them. "The registry is empty" is the exception, and the only
one: it is true of a run that saw it "empty", and says nothing when the file was
"unread". Hence the two properties that speak of records exempt a run that read
recorded devices as none (`ReadAsEmpty`), and the same claims without the
exemption, `RecordedNeverAbandoned`, are refuted by `fabric_unread`.
`KeyNeverOverwritten` needs none, since `ensure_fabric` asks whether
`identity.json` exists before it mints. Damage only takes away
(`SnapshotSurvives`), the others cannot write (`FilesUnderLock`), and `OwnSnapshot`
is about the run that moves.

*AtomicFile.* `IInv` says that what is synced is what is renamed:
`pc = "synced" => tmpPlate = body`, and that the platter of the named file
never lags behind its cache. Without the fsync the second fails, without the
lock the first. *StorageFiles* needs no invariant of its own for the file: every
step of it is a step of `AtomicFile` or leaves lock and file alone. For the
directory, a run that is past `TightenDir` has either left a foreign directory
alone or made its own 0700, and only the operator opens it again.

*DeviceRegistry.* An update of the registry is a read and a write, and the id a
commission hands out is read long before it is stored. `IInv` says that nobody
comes between: `LockExclusive`, and for every run its `Stage` (the registry it has
read is the one on disk until it writes; its node id is the counter until it
stores it; what it records was assigned; what it reports is on record and below
the counter). `TargetsAssigned` is what keeps a sync, which creates the record it
does not find, from inventing one. `OthersStage` is the core: a step leaves the
other runs' memory alone (`OthersKeep`) and touches the files only under the lock
(`FilesUnderLock`), so a run whose stage is about files is the one that moves.
For the ledger the devices come in: `InHand` says which device a run talks to, and
that the device of a completed commissioning stays a member under the run's id
until the run is through. That is why `StoreIdentity` finds device and record in place
(`IdUsedUp`); the copy that equals the registry makes every write one record more
or less (`OneRecord`), and the counter that equals the run's id makes every device
that joins one of the next id (`DeviceJoins`). `IdsNeverReused` follows from the
ledger's steps alone. It bounds what a late sync can do when it records a removed
node again (see "Also seen"): that record leads to no other device.

*Runs end.* `RunsNeverWait` is stated with `ENABLED`, which the provers do not
know. `RunsCanGoOn` says the same by naming the state that follows: `At(x)` is the
module whose variables hold their present values in a state with `before`, and
those of the record `x` in the one after it, so that `At(x)!Work(p)` is the step
of `p` from here to `x`. `CanGoOn(p)` says that there is such an `x`; the lemmas
construct it stage by stage, and most stages have a failure or a refusal that is
always open. `RunsRunOut` is the other half: `Further` is lexicographic, the
targets left and then `Rank`, the stage with the target at work. The same pair
says it of `SyncDevice` (`SyncCanGoOn`, `EveryStepCounts`) and of `CommandRun`
(`CommandsCanGoOn`, `CommandsRunOut`), where it matters twice: `Kill` is always
enabled there, so no deadlock check would notice a command that is stuck.

*SyncDevice.* What a success says was decided several exchanges earlier. `IInv`
carries it from write to write (`Written`: the zone, the DST list, how far the
clock that adopted the time is behind, and that the folded difference of the one
that did not is within the tolerance) and bounds the age of the value to write by
the exchanges that are behind and by what the connect at hand has taken (`Aging`,
`Spent`). The arithmetic is `WaitBounds`: all attempts with their pauses fit
`ConnectBudget`. `SuccessBoundsLag` needs only the first of the five bounds, the
age before `SetUTCTime`; the others make the type invariant and bound what
`IgnoredOnlyIfRight` says of a clock behind the host's: by `AgreementExact` the
report is right in one of two epochs, compared with a value of that age.
`StepsRunOut` is the part of `SyncEnds` that needs no fairness: `StepsLeft` counts
the exchanges ahead (`Ahead`) with all attempts of their connects. Within a
connect an attempt is used up or the exchange opened (`ConnectAdvances`); every
other step leaves an exchange behind for good (`ExchangeAdvances`).

*PairingCode.* `Decode` and `Printed` are inverse because division by 2^14 and
remainder are (`JoinSplit`), the discriminator's two halves likewise; `ChunksFit`
is the arithmetic behind "five and four digits are enough".

*CommandRun.* None of the properties is inductive: what an exit code means was
decided many steps earlier. `IInv` carries it along: `Trust` (nothing behind the
gate runs on an untrusted clock without `--time`), `Course` (which command is
where, with a configuration and a code that were accepted), `Work` (which targets
are left, which one is in hand), `Done` (what each outcome so far means for the
device and its record) and `Ledger` (a recorded time is backed by what was set,
or the run was cut off, or its node is in hand). There is one lemma per part with
one step per action; `ExitTruth` is its own last part, since it must survive
until the next invocation. The ledger needs no more than that: the last lines of `Done`
say that a commission in `recorded` has its device joined and its record written.
`CommandsCanGoOn` goes by place, with a step for each that depends on nothing but
the run (`CanBegin`, `CanJudge`, `CanResolve`, `CanCommission`, `CanTurn`,
`CanFail`, `CanStore`).

*ClockAssessment.* The lemma `FoldExact` describes the folded delta by cases
of saturation; `Tolerance <= Window < Shift / 2` and `Shift + Window < Top`
exclude that a saturated delta is ever within the tolerance.

*DstList.* The properties speak of all entries, the loop of one: `ListInv` says
where the iterator stands (`CursorInv`: the offset in effect at the cursor, what
the last entry says of it, and that a change lies behind it), how periods follow
each other (`OrderInv`), what each entry is good for (`OffsetInv`), that no
instant is left out (`CoveredInv`) and what entries are spent on (`ChangeInv`).
`Ends` says what can be said of the end of an entry in clamped time: it lies
behind its start unless the list starts before the epoch, where both may be 0.
That is true of every start; that no period is empty is not. Both ways to append
an entry share `OnePeriodMore`. The fact about zones behind it is
`SteadyUntilChange`: up to the next change after an instant the offset is the one
at that instant, since a first instant of another offset would itself be a change.
That is an induction over instants, done by least counterexample (`LeastNat`, from
the library's well-founded minimum), which takes no operator for a parameter.

*ManualTime.* `TypedOnSteadyDay` joins three facts. The instant that is sent has
the typed civil time (`ZonedShows`; the earlier of two exists because a zone has a
largest offset, `OffsetsBounded`). A display with the finished list shows the
civil time of every instant between which and the sync the offset does not change
(`ShownIsCivil`: the instant is in a period, or before the first change, or, if the
list is too short, behind a change, against the assumption). And hour and minute
come back out of the civil time in the form they had (`ReadsAsTyped`), which is
the uniqueness of quotient and remainder (`Unique`).

Only model-checked, as they are stated: `SyncEnds` and `RunsNeverWait`, since
liveness and `ENABLED` are outside what the prover handles. What they rest on is
proved: `EveryStepCounts` and `SyncCanGoOn` are `SyncEnds` but for the rule that
fairness makes an enabled step happen, and `RunsCanGoOn` is `RunsNeverWait` with
its `ENABLED` expanded by hand.

## Not modelled

* rs-matter, mDNS, sockets and the choice of an interface: third-party code and
  platform I/O. The models use their results: an answer, an error, a timeout, the
  end of the pump.
* Parsing of JSON, defaults and warnings of the configuration, and all rendering:
  no state beyond the run, and no decision but those of `validate`.
* The digits of pairing codes and times of day: both are modelled from the numbers
  on. The Verhoeff digit is computed by an external crate.
* The packet checks of SNTP one by one: `HostClock` has "usable", "unusable" and
  "of an earlier query".
* What happens inside a device beyond what its answers and its clock, lists and
  fabric table show.

## Plan

Modules:

1. `FabricDamage`, extended: an older `identity.json` brought back by a power loss
   (a state `DurableRegister` allows), with what this does to node ids.
2. `CommandRun`, extended: a host that loses its time source during the run.
3. `DeviceRegistry` composed with `ControllerFabric`: one `identity.json` for the
   identity and the counter.

Theorems: for each extension above the invariants of the module it extends, and
that the refinement of `NodeLedger` and `OneFabric` survives the composition.
