------------------------------ MODULE SyncDevice -------------------------------
(***************************************************************************)
(* One device in one sync: sync_one, write_zone_and_dst,                   *)
(* try_ensure_fabric_label and the retries of connect                      *)
(* (src/src/controller/ops.rs), against a device that can refuse, ignore   *)
(* or lose what it is sent, over a network that delays and drops.          *)
(*                                                                         *)
(* Time is counted in units of which only the order matters: a retry pause *)
(* is shorter than the verification tolerance, which is shorter than the   *)
(* connect timeout (2 s, 5 s, 30 s in the code), and a whole sync than the *)
(* distance of the Unix from the Matter epoch.  The device's clock is what *)
(* it reports, as a distance from the host's; instants are distances from  *)
(* the moment the value to write was taken.  Reports are judged by the     *)
(* operators of ClockAssessment.                                           *)
(***************************************************************************)
EXTENDS ClockAssessment

CONSTANTS Attempts,        \* CONNECT_ATTEMPTS
          ConnectTimeout,  \* CONNECT_TIMEOUT_SECS
          RetryDelay,      \* CONNECT_RETRY_DELAY_SECS
          ExchangeTime,    \* the longest that one read or invoke takes
          Skews,           \* clock errors a device may start with
          Shifts,          \* --time: distances from now an operator may ask for
          Unset            \* the clock of a device that lost it

ASSUME SyncAssumption ==
  /\ Attempts \in Nat \ {0}
  /\ ConnectTimeout \in Nat /\ RetryDelay \in Nat
  /\ ExchangeTime \in Nat
  /\ Skews \subseteq Int \cup {Unset}
  /\ Shifts \subseteq Int /\ 0 \in Shifts
  /\ Unset \notin Int

VARIABLES
  skew,      \* the clock the device reports minus the host's, or Unset
  zone,      \* whether the device holds the time zone of this run
  dst,       \* DST state: "old", "none" after a zone change, "new", or "own"
  theirs,    \* whether the device shows our configured fabric label
  device,    \* what kind of device this is (never changes)
  shift,     \* distance of the value to write from now: 0 without --time
  age,       \* host time passed since the value to write was taken
  pc,        \* the exchange sync_one works on
  conn,      \* whether its exchange is open
  attempt,   \* which connect attempt
  outcome    \* the SyncOutcome

vars == <<skew, zone, dst, theirs, device, shift, age, pc, conn, attempt, outcome>>

Exchanges == {"features", "readClock", "setUtc", "setZone", "dstSize", "setDst",
              "readBack", "readFabrics", "updateLabel"}
Stages == Exchanges \cup {"done"}
Outcomes == {"running", "success", "skipped", "failed", "unverified"}

\* A value to write that is taken before the device's clock is read.
Writing_FromReadClock == {"readClock", "setUtc", "setZone", "dstSize", "setDst", "readBack"}

\* The exchanges between taking the value to write and the end of the run.
Writing == {"setUtc", "setZone", "dstSize", "setDst", "readBack"}

Device == [cluster : BOOLEAN,   \* has the Time Synchronization cluster
           tz : BOOLEAN,        \* has its TimeZone feature
           needsDst : BOOLEAN,  \* wants a DST list for the zone it was given
           tells : BOOLEAN,     \* and says so in SetTimeZoneResponse
           honest : BOOLEAN,    \* adopts the UTC time it acknowledged
           conflict : BOOLEAN]  \* another admin uses our label on it

\* One connect at worst: every attempt times out but the last.
ConnectBudget == Attempts * ConnectTimeout + (Attempts - 1) * RetryDelay
MaxAge == 5 * (ConnectBudget + ExchangeTime)

TypeOK ==
  /\ skew \in Int \cup {Unset}
  /\ zone \in {"old", "new"}
  /\ dst \in {"old", "none", "new", "own"}
  /\ theirs \in BOOLEAN
  /\ device \in Device
  /\ shift \in Shifts
  /\ age \in 0..MaxAge
  /\ pc \in Stages
  /\ conn \in BOOLEAN
  /\ attempt \in 1..Attempts
  /\ outcome \in Outcomes

Init ==
  /\ skew \in Skews
  /\ zone = "old"
  /\ dst = "old"
  /\ theirs \in BOOLEAN
  /\ device \in Device
  /\ shift \in Shifts
  /\ age = 0
  /\ pc = "features"
  /\ conn = FALSE
  /\ attempt = 1
  /\ outcome = "running"

\* Host time passes; it matters once the value to write was taken.
Takes(most) ==
  \E dt \in 0..most : age' = IF pc \in Writing THEN age + dt ELSE age

\* The next exchange starts with a connect of its own.
GoTo(next) ==
  /\ pc' = next
  /\ conn' = FALSE
  /\ attempt' = 1

Return(result) ==
  /\ pc' = "done"
  /\ conn' = FALSE
  /\ attempt' = 1
  /\ outcome' = result

\* An error that is not kept away from the result.
Fail_LabelToo == Return("failed")

\* An error leaves sync_one, except while the label is updated: that is best
\* effort and the sync has succeeded.
Fail ==
  IF pc \in {"readFabrics", "updateLabel"}
    THEN Return("success")
    ELSE Return("failed")

--------------------------------------------------------------------------------
(* connect: resolve and open a CASE exchange, three attempts.               *)

Connect ==
  /\ pc \in Exchanges /\ ~conn
  /\ Takes(ConnectTimeout)
  /\ conn' = TRUE
  /\ UNCHANGED <<skew, zone, dst, theirs, device, shift, pc, attempt, outcome>>

\* One attempt more than the constant says.
ConnectRetry_OneTooMany ==
  /\ pc \in Exchanges /\ ~conn
  /\ attempt <= Attempts
  /\ \E dt \in RetryDelay..(ConnectTimeout + RetryDelay) :
       age' = IF pc \in Writing THEN age + dt ELSE age
  /\ attempt' = attempt + 1
  /\ UNCHANGED <<skew, zone, dst, theirs, device, shift, pc, conn, outcome>>

\* A failed attempt that does not count.
ConnectRetry_Uncounted ==
  /\ pc \in Exchanges /\ ~conn
  /\ attempt < Attempts
  /\ \E dt \in RetryDelay..(ConnectTimeout + RetryDelay) :
       age' = IF pc \in Writing THEN age + dt ELSE age
  /\ UNCHANGED <<skew, zone, dst, theirs, device, shift, pc, conn, attempt, outcome>>

\* The attempt fails or times out; a pause, then the next one.
ConnectRetry ==
  /\ pc \in Exchanges /\ ~conn
  /\ attempt < Attempts
  /\ \E dt \in RetryDelay..(ConnectTimeout + RetryDelay) :
       age' = IF pc \in Writing THEN age + dt ELSE age
  /\ attempt' = attempt + 1
  /\ UNCHANGED <<skew, zone, dst, theirs, device, shift, pc, conn, outcome>>

\* The last attempt fails too.
ConnectGivesUp ==
  /\ pc \in Exchanges /\ ~conn
  /\ attempt = Attempts
  /\ Fail
  /\ UNCHANGED <<skew, zone, dst, theirs, device, shift, age>>

\* The exchange is lost, or the device answers with an error.  Whether the
\* device executed the request is covered by the steps below.
ExchangeFails ==
  /\ conn
  /\ Fail
  /\ UNCHANGED <<skew, zone, dst, theirs, device, shift, age>>

--------------------------------------------------------------------------------
(* sync_one.                                                                *)

\* featureMap; a device without the cluster is skipped.
ReadFeatures ==
  /\ conn /\ pc = "features"
  /\ IF device.cluster
       THEN GoTo("readClock") /\ UNCHANGED outcome
       ELSE Return("skipped")
  /\ UNCHANGED <<skew, zone, dst, theirs, device, shift, age>>

\* utcTime before the write, for the report; then the value to write is taken:
\* the time it is now, or --time.
ReadClock ==
  /\ conn /\ pc = "readClock"
  /\ GoTo("setUtc")
  /\ UNCHANGED <<skew, zone, dst, theirs, device, shift, age, outcome>>

\* The device adopts the value it receives.
Adopt == skew' = IF device.honest THEN shift - age' ELSE skew

\* SetUTCTime of the value taken before the connect.
SetUtcTime ==
  /\ conn /\ pc = "setUtc"
  /\ Takes(ExchangeTime)
  /\ Adopt
  /\ GoTo(IF device.tz THEN "setZone" ELSE "readBack")
  /\ UNCHANGED <<zone, dst, theirs, device, shift, outcome>>

\* The zone arrives: a device that needs a DST list forgets the one it had.
TakeZone ==
  /\ zone' = "new"
  /\ dst' = IF device.needsDst THEN "none" ELSE "own"

\* A response without the field read as "no list wanted".
SetTimeZone_SilenceIsNo ==
  /\ conn /\ pc = "setZone"
  /\ Takes(ExchangeTime)
  /\ TakeZone
  /\ GoTo(IF device.needsDst /\ device.tells THEN "dstSize" ELSE "readBack")
  /\ UNCHANGED <<skew, theirs, device, shift, outcome>>

\* SetTimeZone; DST follows unless the response says it is not required.
SetTimeZone ==
  /\ conn /\ pc = "setZone"
  /\ Takes(ExchangeTime)
  /\ TakeZone
  /\ GoTo(IF ~device.needsDst /\ device.tells THEN "readBack" ELSE "dstSize")
  /\ UNCHANGED <<skew, theirs, device, shift, outcome>>

ReadDstSize ==
  /\ conn /\ pc = "dstSize"
  /\ Takes(ExchangeTime)
  /\ GoTo("setDst")
  /\ UNCHANGED <<skew, zone, dst, theirs, device, shift, outcome>>

SetDstOffset ==
  /\ conn /\ pc = "setDst"
  /\ Takes(ExchangeTime)
  /\ dst' = "new"
  /\ GoTo("readBack")
  /\ UNCHANGED <<skew, zone, theirs, device, shift, outcome>>

\* A write that the device executes although its answer is lost.
ExecutedUnanswered ==
  /\ conn
  /\ \/ pc = "setUtc" /\ Takes(ExchangeTime) /\ Adopt /\ UNCHANGED <<zone, dst>>
     \/ pc = "setZone" /\ TakeZone /\ UNCHANGED <<skew, age>>
     \/ pc = "setDst" /\ dst' = "new" /\ UNCHANGED <<skew, zone, age>>
  /\ Return("failed")
  /\ UNCHANGED <<theirs, device, shift>>

\* The report agrees with the value that was written, now that host time passed.
Verifies == skew # Unset /\ Agrees(age' + skew, shift)

\* A read-back that trusts the acknowledgement of the write.
ReadBack_Unverified ==
  /\ conn /\ pc = "readBack"
  /\ Takes(ExchangeTime)
  /\ GoTo("readFabrics") /\ UNCHANGED outcome
  /\ UNCHANGED <<skew, zone, dst, theirs, device, shift>>

\* A device that does not verify is written again, and again.
ReadBack_Rewrites ==
  /\ conn /\ pc = "readBack"
  /\ \/ /\ Takes(ExchangeTime)
        /\ Verifies
        /\ GoTo("readFabrics")
     \/ age' = 0 /\ GoTo("setUtc")
  /\ UNCHANGED <<skew, zone, dst, theirs, device, shift, outcome>>

\* utcTime is read back and compared with the value that was written.
ReadBack ==
  /\ conn /\ pc = "readBack"
  /\ Takes(ExchangeTime)
  /\ IF Verifies
       THEN GoTo("readFabrics") /\ UNCHANGED outcome
       ELSE Return("unverified")
  /\ UNCHANGED <<skew, zone, dst, theirs, device, shift>>

--------------------------------------------------------------------------------
(* ensure_fabric_label, best effort.                                        *)

ReadFabrics ==
  /\ conn /\ pc = "readFabrics"
  /\ IF theirs THEN Return("success") ELSE GoTo("updateLabel") /\ UNCHANGED outcome
  /\ UNCHANGED <<skew, zone, dst, theirs, device, shift, age>>

\* The status of the response is logged and not looked at.
UpdateLabel ==
  /\ conn /\ pc = "updateLabel"
  /\ theirs' = ~device.conflict
  /\ Return("success")
  /\ UNCHANGED <<skew, zone, dst, device, shift, age>>

\* The device took the label, its answer is lost: a warning, still a success.
UpdateLabelUnanswered ==
  /\ conn /\ pc = "updateLabel"
  /\ theirs' = ~device.conflict
  /\ Fail
  /\ UNCHANGED <<skew, zone, dst, device, shift, age>>

--------------------------------------------------------------------------------
(* The device loses its clock in a power outage, at any time.               *)
PowerOutage ==
  /\ skew # Unset
  /\ skew' = Unset
  /\ UNCHANGED <<zone, dst, theirs, device, shift, age, pc, conn, attempt, outcome>>

Done == pc = "done" /\ UNCHANGED vars

Work ==
  \/ Connect \/ ConnectRetry \/ ConnectGivesUp \/ ExchangeFails
  \/ ReadFeatures \/ ReadClock \/ SetUtcTime \/ SetTimeZone \/ ReadDstSize
  \/ SetDstOffset \/ ExecutedUnanswered \/ ReadBack
  \/ ReadFabrics \/ UpdateLabel \/ UpdateLabelUnanswered

Next == Work \/ PowerOutage \/ Done

Spec == Init /\ [][Next]_vars

\* The executor polls the operation on until it returns; every wait is bounded.
FairSpec == Spec /\ WF_vars(Work)

--------------------------------------------------------------------------------
(* Properties.                                                              *)

\* A successful sync leaves no device between two writes: with the TimeZone
\* feature it holds the new zone, and the DST list if it needs one, although
\* the answer that asks for the list is optional (write_zone_and_dst).
SuccessIsComplete ==
  outcome = "success" /\ device.tz => zone = "new" /\ dst \in {"new", "own"}

\* How far behind the host a successfully synced clock can be: one connect with
\* all its retries and one exchange, no more, never ahead (a device that adopts
\* what it acknowledges; connect is bounded).
SuccessBoundsLag ==
  outcome = "success" /\ device.honest /\ skew # Unset =>
    skew - shift \in -(ConnectBudget + ExchangeTime)..0

\* An acknowledged write is not believed ("verifies every write by reading the clock
\* back", README): a device that kept its own clock is successful only if that clock
\* was right anyway, in the Matter or in the Unix epoch (effective_delta_micros).
\* The value read back is compared with the one written, which is as old as the
\* exchanges since: by that much such a clock may be behind, but not ahead.
IgnoredOnlyIfRight ==
  outcome = "success" /\ ~device.honest /\ skew # Unset =>
    \E epoch \in {0, EpochShift} :
      skew - epoch - shift \in -(Tolerance + MaxAge)..Tolerance

\* The clock that is read back is within the tolerance of the value written, or
\* of that value in the other epoch, by true distances.
TrulyRight ==
  /\ skew # Unset
  /\ \E epoch \in {0, EpochShift} : Magnitude(age' + skew - epoch - shift) <= Tolerance

\* Whatever a device reports, the read-back passes exactly when the report is right
\* in one of the two epochs: no extreme report is wrapped, saturated or folded into
\* an agreement, and no right one is turned away (delta_micros, compare,
\* effective_delta_micros).
VerifiedExactly ==
  [][pc = "readBack" =>
       /\ pc' = "readFabrics" => TrulyRight
       /\ outcome' = "unverified" => ~TrulyRight]_vars

\* The epoch shift is folded out of nothing but a report that is the epoch distance
\* ahead: the error that is shown of a clock, against the host (clock_before) or
\* against the value written (delta_after_micros), is never larger than the true one.
FoldNeverHurts ==
  skew # Unset =>
    \A reference \in {age, shift} :
      Magnitude(EffectiveDelta(age + skew, reference)) <= Magnitude(age + skew - reference)

\* "A cosmetic label must not fail a clock sync" (ensure_fabric_label): from the
\* moment the clock has verified, every way out is a success, whatever connects
\* fail, answers are lost, or labels conflict afterwards.
LabelCosmetic ==
  [][(pc \in {"readFabrics", "updateLabel"}) => outcome' \in {"running", "success"}]_vars

\* The exchanges sync_one still has before it, the one at hand included.
Ahead ==
  CASE pc = "features" -> 9
    [] pc = "readClock" -> 8
    [] pc = "setUtc" -> 7
    [] pc = "setZone" -> 6
    [] pc = "dstSize" -> 5
    [] pc = "setDst" -> 4
    [] pc = "readBack" -> 3
    [] pc = "readFabrics" -> 2
    [] pc = "updateLabel" -> 1
    [] pc = "done" -> 0

\* Each of them takes its connect attempts and itself.
StepsLeft == Ahead * (Attempts + 1) - (attempt - 1) - (IF conn THEN 1 ELSE 0)

\* A sync costs a bounded number of steps, for any number of retries: whatever is
\* lost or refused, no step of sync_one leads back to an exchange that is behind,
\* and what happens to the device meanwhile does not set it back (the for loop of
\* connect, and no loop around it in sync_one).
StepsRunOut ==
  [][/\ StepsLeft' \in Nat
     /\ Work => StepsLeft' < StepsLeft
     /\ ~Work => StepsLeft' = StepsLeft]_vars

\* sync_one returns whatever the network does: a dead or mute device costs a
\* bounded number of attempts.
SyncEnds == <>(pc = "done")

\* "Device clock within ... of host after sync" (output.rs:415), within the
\* tolerance of the verification: a verified clock agrees with the host's.
VerifiedMeansOnTime ==
  outcome = "success" /\ shift = 0 /\ skew # Unset => Magnitude(skew) <= Tolerance
================================================================================
