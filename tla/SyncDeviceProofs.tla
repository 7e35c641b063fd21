--------------------------- MODULE SyncDeviceProofs ----------------------------
(***************************************************************************)
(* What a sync shows of one device, for any number of connect attempts,    *)
(* any timeouts and tolerance, and any clock the device starts with: the   *)
(* safety properties of SyncDevice, from one inductive invariant; and that *)
(* a sync takes boundedly many steps and has one to take until it returns. *)
(***************************************************************************)
EXTENDS SyncDevice, ClockAssessmentProofs

\* An exchange with the connect before it, at worst.
Round == ConnectBudget + ExchangeTime

\* What the attempts before the a-th have taken at most.
Waited(a) == (a - 1) * (ConnectTimeout + RetryDelay)

\* What this exchange has taken at most.
Spent == Waited(attempt) + IF conn THEN ConnectTimeout ELSE 0

Labelling == {"readFabrics", "updateLabel"}

\* The clock has verified.
Verified == pc \in Labelling \/ outcome = "success"

\* Whoever has returned has an outcome, and only then; no exchange is left open.
Course ==
  /\ outcome = "running" <=> pc # "done"
  /\ pc = "done" => ~conn /\ attempt = 1
  /\ pc \in {"setZone", "dstSize", "setDst"} => device.tz

\* The value to write grows older by one round per exchange at most.
Aging ==
  /\ pc \in {"features", "readClock"} => age = 0
  /\ pc = "setUtc" => age <= Spent
  /\ pc = "setZone" => age <= Round + Spent
  /\ pc = "dstSize" => age <= 2 * Round + Spent
  /\ pc = "setDst" => age <= 3 * Round + Spent
  /\ pc = "readBack" => age <= 4 * Round + Spent

\* What the device holds of the writes that are behind.
Written ==
  /\ pc \in {"dstSize", "setDst"} => zone = "new"
  /\ pc = "readBack" \/ Verified =>
       (device.tz => zone = "new" /\ dst \in {"new", "own"})
  /\ pc \in {"setZone", "dstSize", "setDst", "readBack"} \/ Verified =>
       (device.honest /\ skew # Unset => skew - shift \in -Round..0)
  /\ Verified =>
       (~device.honest /\ skew # Unset =>
          Agrees(age + skew, shift))

IInv == TypeOK /\ Course /\ Aging /\ Written

--------------------------------------------------------------------------------
(* What a connect takes.                                                    *)

\* A larger number of attempts takes longer.
LEMMA Longer ==
  ASSUME NEW a \in Int, NEW b \in Int, NEW c \in Nat, a <= b
  PROVE  a * c <= b * c
<1>1. b * c = a * c + (b - a) * c
  OBVIOUS
<1>2. (b - a) * c >= 0
  OBVIOUS
<1> QED
  BY <1>1, <1>2

\* All attempts together stay within the budget of a connect.
LEMMA WaitBounds ==
  /\ ConnectBudget \in Nat /\ Round \in Nat /\ Round = ConnectBudget + ExchangeTime
  /\ MaxAge = 5 * Round
  /\ Waited(1) = 0
  /\ \A a \in 1..Attempts :
       /\ Waited(a) \in Nat
       /\ Waited(a) + ConnectTimeout <= ConnectBudget
       /\ Waited(a + 1) = Waited(a) + ConnectTimeout + RetryDelay
<1> DEFINE X == ConnectTimeout + RetryDelay
<1>0. /\ Attempts \in Nat \ {0} /\ ConnectTimeout \in Nat /\ RetryDelay \in Nat
      /\ ExchangeTime \in Nat
  BY SyncAssumption
<1>1. X \in Nat /\ X = ConnectTimeout + RetryDelay
  BY <1>0
<1>2. (Attempts - 1) * X + ConnectTimeout = ConnectBudget
  <2>1. (Attempts - 1) * X = (Attempts - 1) * ConnectTimeout + (Attempts - 1) * RetryDelay
    BY <1>0
  <2>2. (Attempts - 1) * ConnectTimeout + ConnectTimeout = Attempts * ConnectTimeout
    BY <1>0
  <2> QED
    BY <1>0, <2>1, <2>2 DEF ConnectBudget
<1>3. \A a : Waited(a) = (a - 1) * X
  BY DEF Waited
<1> HIDE DEF X
<1>4. Waited(1) = 0
  BY <1>1, <1>3
<1>5. ASSUME NEW a \in 1..Attempts
      PROVE  /\ Waited(a) \in Nat
             /\ Waited(a) + ConnectTimeout <= ConnectBudget
             /\ Waited(a + 1) = Waited(a) + ConnectTimeout + RetryDelay
  <2>1. a - 1 \in Int /\ Attempts - 1 \in Int /\ 0 <= a - 1 /\ a - 1 <= Attempts - 1
    BY <1>0
  <2>2. (a - 1) * X <= (Attempts - 1) * X /\ 0 * X <= (a - 1) * X
    BY <1>1, <2>1, Longer
  <2>3. (a - 1) * X \in Nat
    BY <1>1, <2>1, <2>2
  <2>4. a * X = (a - 1) * X + X
    BY <1>1, <2>1
  <2>5. (a - 1) * X + ConnectTimeout <= ConnectBudget
    <3>1. (Attempts - 1) * X \in Int
      BY <1>1, <2>1
    <3> QED
      BY <1>0, <1>2, <2>2, <2>3, <3>1
  <2>6. Waited(a) = (a - 1) * X
    BY <1>3
  <2>7. Waited(a + 1) = a * X
    <3>1. Waited(a + 1) = ((a + 1) - 1) * X
      BY <1>3
    <3>2. (a + 1) - 1 = a
      BY <2>1
    <3> QED
      BY <3>1, <3>2
  <2>8. Waited(a + 1) = Waited(a) + ConnectTimeout + RetryDelay
    BY <1>0, <1>1, <2>3, <2>4, <2>6, <2>7
  <2> QED
    BY <2>3, <2>5, <2>6, <2>8
<1>6. ConnectBudget \in Nat
  <2>1. 1 \in 1..Attempts
    BY <1>0
  <2>2. Waited(1) + ConnectTimeout <= ConnectBudget
    BY <1>5, <2>1
  <2>3. ConnectBudget \in Int
    BY <1>0 DEF ConnectBudget
  <2> QED
    BY <1>0, <1>4, <2>2, <2>3
<1>7. Round \in Nat /\ Round = ConnectBudget + ExchangeTime /\ MaxAge = 5 * Round
  BY <1>0, <1>6 DEF Round, MaxAge
<1> QED
  BY <1>4, <1>5, <1>6, <1>7

--------------------------------------------------------------------------------
(* The parts of the invariant.                                              *)

LEMMA Starts == Init => IInv
<1> SUFFICES ASSUME Init PROVE IInv
  OBVIOUS
<1> USE SyncAssumption
<1>1. TypeOK
  <2>1. Attempts \in Nat \ {0} /\ MaxAge \in Nat
    BY WaitBounds
  <2>2. age \in 0..MaxAge /\ attempt \in 1..Attempts
    BY <2>1 DEF Init
  <2> QED
    BY <2>2 DEF Init, TypeOK, Stages, Exchanges, Outcomes
<1>2. Course /\ Aging /\ Written
  BY DEF Init, Course, Aging, Written, Verified, Labelling
<1> QED
  BY <1>1, <1>2 DEF IInv

\* sync_one has an outcome when it has returned, and gets to the zone only with the
\* feature.
LEMMA CourseKept == IInv /\ [Next]_vars => Course'
<1> SUFFICES ASSUME IInv, [Next]_vars PROVE Course'
  OBVIOUS
<1> USE DEF IInv, Course
<1>1. CASE Connect \/ ConnectRetry \/ PowerOutage \/ Done \/ UNCHANGED vars
  BY <1>1 DEF Connect, ConnectRetry, PowerOutage, Done, vars, Exchanges
<1>2. CASE ConnectGivesUp \/ ExchangeFails \/ UpdateLabel \/ UpdateLabelUnanswered
             \/ ExecutedUnanswered
  BY <1>2 DEF ConnectGivesUp, ExchangeFails, UpdateLabel, UpdateLabelUnanswered,
     ExecutedUnanswered, Fail, Return
<1>3. CASE ReadFeatures \/ ReadClock \/ SetUtcTime \/ SetTimeZone \/ ReadDstSize
             \/ SetDstOffset
  BY <1>3 DEF ReadFeatures, ReadClock, SetUtcTime, SetTimeZone, ReadDstSize, SetDstOffset,
     GoTo, Return
<1>4. CASE ReadBack \/ ReadFabrics
  BY <1>4 DEF ReadBack, ReadFabrics, GoTo, Return
<1> QED
  BY <1>1, <1>2, <1>3, <1>4 DEF Next, Work

\* Connects and exchanges are bounded, so the value to write never gets older than five
\* of them.
LEMMA AgingKept == IInv /\ [Next]_vars => Aging' /\ age' \in 0..MaxAge
<1> SUFFICES ASSUME IInv, [Next]_vars PROVE Aging' /\ age' \in 0..MaxAge
  OBVIOUS
<1>0. /\ Attempts \in Nat \ {0} /\ ConnectTimeout \in Nat /\ RetryDelay \in Nat
      /\ ExchangeTime \in Nat /\ ConnectBudget \in Nat /\ Round \in Nat
      /\ Round = ConnectBudget + ExchangeTime /\ MaxAge = 5 * Round
      /\ age \in Nat /\ age <= MaxAge /\ attempt \in 1..Attempts /\ conn \in BOOLEAN
      /\ pc \in Stages /\ Aging
  BY SyncAssumption, WaitBounds DEF IInv, TypeOK
<1>1. /\ Waited(attempt) \in Nat /\ Waited(attempt) + ConnectTimeout <= ConnectBudget
      /\ Waited(attempt + 1) = Waited(attempt) + ConnectTimeout + RetryDelay
      /\ Waited(1) = 0
  BY <1>0, WaitBounds
<1>2. Spent \in Nat /\ Spent <= ConnectBudget
  BY <1>0, <1>1 DEF Spent
<1> USE DEF Aging, Writing, Stages, Exchanges
<1>3. CASE Connect
  <2>1. PICK dt \in 0..ConnectTimeout : age' = IF pc \in Writing THEN age + dt ELSE age
    BY <1>3 DEF Connect, Takes
  <2>2. Spent' = Spent + ConnectTimeout /\ Spent = Waited(attempt) /\ pc' = pc
    BY <1>0, <1>1, <1>3 DEF Connect, Spent
  <2>3. dt \in Nat /\ dt <= ConnectTimeout /\ Spent + ConnectTimeout <= Round
    BY <1>0, <1>1, <2>1, <2>2
  <2> QED
    BY <1>0, <1>2, <2>1, <2>2, <2>3
<1>4. CASE ConnectRetry
  <2>1. PICK dt \in RetryDelay..(ConnectTimeout + RetryDelay) :
          age' = IF pc \in Writing THEN age + dt ELSE age
    BY <1>4 DEF ConnectRetry
  <2>2. /\ Spent' = Spent + ConnectTimeout + RetryDelay /\ pc' = pc
        /\ attempt + 1 \in 1..Attempts
    BY <1>0, <1>1, <1>4 DEF ConnectRetry, Spent
  <2>3. Waited(attempt + 1) + ConnectTimeout <= ConnectBudget
    BY <2>2, WaitBounds
  <2>4. /\ dt \in Nat /\ dt <= ConnectTimeout + RetryDelay
        /\ Spent + ConnectTimeout + RetryDelay <= Round
    BY <1>0, <1>1, <1>4, <2>1, <2>2, <2>3 DEF ConnectRetry, Spent
  <2> QED
    BY <1>0, <1>2, <2>1, <2>2, <2>4
<1>5. CASE ConnectGivesUp \/ ExchangeFails \/ ReadFeatures \/ UpdateLabel
             \/ UpdateLabelUnanswered \/ ReadFabrics \/ Done \/ PowerOutage \/ UNCHANGED vars
  BY <1>0, <1>5 DEF ConnectGivesUp, ExchangeFails, ReadFeatures, UpdateLabel,
     UpdateLabelUnanswered, ReadFabrics, Done, PowerOutage, vars, Fail, GoTo, Return, Spent
<1>6. CASE ReadClock
  <2>1. Spent' = 0
    BY <1>1, <1>6 DEF ReadClock, GoTo, Spent
  <2> QED
    BY <1>0, <1>6, <2>1 DEF ReadClock, GoTo
<1>7. ASSUME NEW next \in {"setZone", "dstSize", "setDst", "readBack"}, GoTo(next),
             Takes(ExchangeTime),
             \/ pc = "setUtc" /\ next \in {"setZone", "readBack"}
             \/ pc = "setZone" /\ next \in {"dstSize", "readBack"}
             \/ pc = "dstSize" /\ next = "setDst"
             \/ pc = "setDst" /\ next = "readBack"
      PROVE  Aging' /\ age' \in 0..MaxAge
  <2>1. PICK dt \in 0..ExchangeTime : age' = IF pc \in Writing THEN age + dt ELSE age
    BY <1>7 DEF Takes
  <2>2. Spent' = 0 /\ pc' = next
    BY <1>1, <1>7 DEF GoTo, Spent
  <2>3. dt \in Nat /\ Spent + dt <= Round
    BY <1>0, <1>2, <2>1
  <2> QED
    BY <1>0, <1>2, <1>7, <2>1, <2>2, <2>3
<1>8. CASE SetUtcTime \/ SetTimeZone \/ ReadDstSize \/ SetDstOffset
  BY <1>7, <1>8 DEF SetUtcTime, SetTimeZone, ReadDstSize, SetDstOffset
<1>9. ASSUME pc \in {"setUtc", "readBack"}, Takes(ExchangeTime),
             pc' \in {"readFabrics", "done"}
      PROVE  Aging' /\ age' \in 0..MaxAge
  <2>1. PICK dt \in 0..ExchangeTime : age' = IF pc \in Writing THEN age + dt ELSE age
    BY <1>9 DEF Takes
  <2>2. dt \in Nat /\ Spent + dt <= Round
    BY <1>0, <1>2, <2>1
  <2> QED
    BY <1>0, <1>2, <1>9, <2>1, <2>2
<1>10. CASE ExecutedUnanswered
  <2>1. CASE pc = "setUtc" /\ Takes(ExchangeTime)
    BY <1>9, <1>10, <2>1 DEF ExecutedUnanswered, Return
  <2>2. CASE UNCHANGED age
    BY <1>0, <1>10, <2>2 DEF ExecutedUnanswered, Return
  <2> QED
    BY <1>10, <2>1, <2>2 DEF ExecutedUnanswered
<1>11. CASE ReadBack
  BY <1>9, <1>11 DEF ReadBack, GoTo, Return
<1> QED
  BY <1>3, <1>4, <1>5, <1>6, <1>8, <1>10, <1>11 DEF Next, Work

LEMMA TypeKept == IInv /\ [Next]_vars => TypeOK'
<1> SUFFICES ASSUME IInv, [Next]_vars PROVE TypeOK'
  OBVIOUS
<1>1. age' \in 0..MaxAge /\ TypeOK /\ Attempts \in Nat \ {0}
  BY AgingKept, SyncAssumption DEF IInv
<1>2. shift \in Int /\ age' \in Int
  BY <1>1, SyncAssumption, WaitBounds DEF TypeOK
<1>3. device' = device /\ shift' = shift
  BY DEF Next, Work, vars, Connect, ConnectRetry, ConnectGivesUp, ExchangeFails,
     ReadFeatures, ReadClock, SetUtcTime, SetTimeZone, ReadDstSize, SetDstOffset,
     ExecutedUnanswered, ReadBack, ReadFabrics, UpdateLabel, UpdateLabelUnanswered,
     PowerOutage, Done
<1>4. device' \in Device /\ shift' \in Shifts
  BY <1>1, <1>3 DEF TypeOK
<1>5. skew' \in Int \cup {Unset}
  <2>1. skew' \in {skew, Unset, shift - age'}
    BY DEF Next, Work, vars, Connect, ConnectRetry, ConnectGivesUp, ExchangeFails,
     ReadFeatures, ReadClock, SetUtcTime, SetTimeZone, ReadDstSize, SetDstOffset,
     ExecutedUnanswered, ReadBack, ReadFabrics, UpdateLabel, UpdateLabelUnanswered,
     PowerOutage, Done, Adopt
  <2> QED
    BY <1>1, <1>2, <2>1 DEF TypeOK
<1>6. zone' \in {"old", "new"} /\ dst' \in {"old", "none", "new", "own"}
  <2>1. zone' \in {zone, "new"} /\ dst' \in {dst, "none", "new", "own"}
    BY DEF Next, Work, vars, Connect, ConnectRetry, ConnectGivesUp, ExchangeFails,
     ReadFeatures, ReadClock, SetUtcTime, SetTimeZone, ReadDstSize, SetDstOffset,
     ExecutedUnanswered, ReadBack, ReadFabrics, UpdateLabel, UpdateLabelUnanswered,
     PowerOutage, Done, TakeZone
  <2> QED
    BY <1>1, <2>1 DEF TypeOK
<1>7. theirs' \in BOOLEAN
  <2>1. theirs' = theirs \/ theirs' = ~device.conflict
    BY DEF Next, Work, vars, Connect, ConnectRetry, ConnectGivesUp, ExchangeFails,
     ReadFeatures, ReadClock, SetUtcTime, SetTimeZone, ReadDstSize, SetDstOffset,
     ExecutedUnanswered, ReadBack, ReadFabrics, UpdateLabel, UpdateLabelUnanswered,
     PowerOutage, Done
  <2> QED
    BY <1>1, <2>1 DEF TypeOK
<1>8. pc' \in Stages /\ conn' \in BOOLEAN /\ outcome' \in Outcomes
  BY <1>1 DEF TypeOK, Stages, Exchanges, Outcomes, Next, Work, vars, Connect, ConnectRetry,
     ConnectGivesUp, ExchangeFails,
     ReadFeatures, ReadClock, SetUtcTime, SetTimeZone, ReadDstSize, SetDstOffset,
     ExecutedUnanswered, ReadBack, ReadFabrics, UpdateLabel, UpdateLabelUnanswered,
     PowerOutage, Done, Fail, GoTo, Return
<1>9. attempt' \in 1..Attempts
  BY <1>1 DEF TypeOK, Next, Work, vars, Connect, ConnectRetry, ConnectGivesUp, ExchangeFails,
     ReadFeatures, ReadClock, SetUtcTime, SetTimeZone, ReadDstSize, SetDstOffset,
     ExecutedUnanswered, ReadBack, ReadFabrics, UpdateLabel, UpdateLabelUnanswered,
     PowerOutage, Done, Fail, GoTo, Return
<1> QED
  BY <1>1, <1>4, <1>5, <1>6, <1>7, <1>8, <1>9 DEF TypeOK

\* Each write leaves on the device what the next ones and the read-back rely on.
LEMMA WrittenKept == IInv /\ [Next]_vars => Written'
<1> SUFFICES ASSUME IInv, [Next]_vars PROVE Written'
  OBVIOUS
<1>0. /\ TypeOK /\ Course /\ Aging /\ Written /\ Round \in Nat
      /\ shift \in Int /\ age \in Nat /\ ExchangeTime \in Nat
      /\ Round = ConnectBudget + ExchangeTime /\ ConnectBudget \in Nat
      /\ Unset \notin Int
  BY SyncAssumption, WaitBounds DEF IInv, TypeOK
<1> USE DEF Written, Verified, Labelling
<1>1. CASE UNCHANGED vars \/ Done
  BY <1>0, <1>1 DEF vars, Done
<1>2. CASE Connect \/ ConnectRetry
  <2>1. /\ UNCHANGED <<skew, zone, dst, device, shift, pc, outcome>>
        /\ pc \notin Writing => age' = age
    BY <1>2 DEF Connect, ConnectRetry, Takes
  <2>2. Verified => pc \notin Writing
    BY <1>0 DEF Course, Writing
  <2> QED
    BY <1>0, <2>1, <2>2
<1>3. CASE PowerOutage
  BY <1>0, <1>3 DEF PowerOutage
<1>4. ASSUME UNCHANGED <<skew, zone, dst, device, shift, age>>, pc' = "done",
             pc \in Labelling \/ outcome' # "success"
      PROVE  Written'
  BY <1>0, <1>4
<1>5. CASE ConnectGivesUp \/ ExchangeFails
  BY <1>4, <1>5 DEF ConnectGivesUp, ExchangeFails, Fail, Return
<1>6. CASE UpdateLabel \/ UpdateLabelUnanswered
  BY <1>4, <1>6 DEF UpdateLabel, UpdateLabelUnanswered, Fail, Return
<1>7. CASE ReadFabrics
  BY <1>0, <1>7 DEF ReadFabrics, GoTo, Return
<1>8. CASE ReadFeatures \/ ReadClock
  BY <1>0, <1>8 DEF ReadFeatures, ReadClock, GoTo, Return, Course
<1>9. CASE SetUtcTime
  <2>1. PICK dt \in 0..ExchangeTime : age' = age + dt
    BY <1>9 DEF SetUtcTime, Takes, Writing
  <2>2. age <= ConnectBudget
    <3>1. age <= Spent /\ attempt \in 1..Attempts /\ conn \in BOOLEAN
      BY <1>0, <1>9 DEF SetUtcTime, Aging, TypeOK
    <3>2. Waited(attempt) \in Nat /\ Waited(attempt) + ConnectTimeout <= ConnectBudget
      BY <3>1, WaitBounds
    <3> QED
      BY <1>0, <3>1, <3>2, SyncAssumption DEF Spent
  <2>3. age' \in Nat /\ age' <= Round
    BY <1>0, <2>1, <2>2
  <2>4. shift - age' - shift \in -Round..0
    <3>1. \A r \in Nat, s \in Int, a \in Nat : a <= r => s - a - s \in (-r)..0
      OBVIOUS
    <3> QED
      BY <1>0, <2>3, <3>1
  <2>5. device.honest => skew' - shift \in -Round..0
    BY <1>9, <2>4 DEF SetUtcTime, Adopt
  <2>6. /\ device' = device /\ shift' = shift /\ outcome' = outcome /\ outcome = "running"
        /\ pc' = IF device.tz THEN "setZone" ELSE "readBack"
    BY <1>0, <1>9 DEF SetUtcTime, GoTo, Course
  <2> QED
    BY <2>5, <2>6
<1>10. CASE SetTimeZone \/ ReadDstSize \/ SetDstOffset
  BY <1>0, <1>10 DEF SetTimeZone, TakeZone, ReadDstSize, SetDstOffset, GoTo, Course
<1>11. CASE ExecutedUnanswered
  BY <1>11 DEF ExecutedUnanswered, Return
<1>12. CASE ReadBack
  <2>1. UNCHANGED <<skew, zone, dst, device, shift>>
    BY <1>12 DEF ReadBack
  <2>2. CASE Verifies
    <3>1. pc' = "readFabrics" /\ pc = "readBack" /\ outcome' = outcome
      BY <1>12, <2>2 DEF ReadBack, GoTo
    <3>2. skew' # Unset => Agrees(age' + skew', shift')
      BY <2>1, <2>2 DEF Verifies
    <3> QED
      BY <1>0, <2>1, <3>1, <3>2
  <2>3. CASE ~Verifies
    BY <1>12, <2>3 DEF ReadBack, Return
  <2> QED
    BY <2>2, <2>3
<1> QED
  BY <1>1, <1>2, <1>3, <1>5, <1>6, <1>7, <1>8, <1>9, <1>10, <1>11, <1>12 DEF Next, Work

LEMMA Invariant == Spec => []IInv
<1>1. IInv /\ [Next]_vars => IInv'
  BY TypeKept, CourseKept, AgingKept, WrittenKept DEF IInv
<1> QED
  BY <1>1, Starts, PTL DEF Spec

--------------------------------------------------------------------------------
(* The theorems.                                                            *)

\* Every variable stays in its range; in particular the value to write is never older
\* than five connects and exchanges, whatever is lost or delayed.
THEOREM TypeCorrect == Spec => []TypeOK
<1>1. IInv => TypeOK
  BY DEF IInv
<1> QED
  BY <1>1, Invariant, PTL

\* No successful sync leaves a device with a zone but without the DST list it needs,
\* whatever its SetTimeZoneResponse says.
THEOREM SyncedCompletely == Spec => []SuccessIsComplete
<1>1. IInv => SuccessIsComplete
  BY DEF IInv, Written, Verified, SuccessIsComplete
<1> QED
  BY <1>1, Invariant, PTL

\* A device that adopts what it acknowledges is behind by at most one connect and one
\* exchange, for every number of attempts and all timeouts.
THEOREM LagBounded == Spec => []SuccessBoundsLag
<1>1. IInv => SuccessBoundsLag
  BY DEF IInv, Written, Verified, SuccessBoundsLag, Round
<1> QED
  BY <1>1, Invariant, PTL

\* A device that ignores the write is successful only with a clock that is right in one
\* of the two epochs, and behind by no more than the exchanges of a sync take.
THEOREM IgnoringIsNoticed == Spec => []IgnoredOnlyIfRight
<1>1. ASSUME IInv, outcome = "success", ~device.honest, skew # Unset
      PROVE  \E epoch \in {0, EpochShift} :
               skew - epoch - shift \in -(Tolerance + MaxAge)..Tolerance
  <2>1. /\ skew \in Int /\ shift \in Int /\ age \in Int /\ 0 <= age /\ age <= MaxAge
        /\ MaxAge \in Int /\ Tolerance \in Nat /\ EpochShift \in Nat
    BY <1>1, SyncAssumption, ClockAssumption, WaitBounds DEF IInv, TypeOK
  <2>2. Agrees(age + skew, shift)
    BY <1>1 DEF IInv, Written, Verified
  <2>3. PICK epoch \in {0, EpochShift} : Magnitude(age + skew - epoch - shift) <= Tolerance
    BY <2>1, <2>2, AgreementExact
  <2>4. skew - epoch - shift \in -(Tolerance + MaxAge)..Tolerance
    BY <2>1, <2>3 DEF Magnitude
  <2> QED
    BY <2>4
<1>2. IInv => IgnoredOnlyIfRight
  BY <1>1 DEF IgnoredOnlyIfRight
<1> QED
  BY <1>2, Invariant, PTL

\* The read-back passes exactly when the device reports the value written, in its own
\* or in the other epoch, within the tolerance (sync_one), for every report and width.
THEOREM VerificationExact == Spec => VerifiedExactly
<1>1. ASSUME IInv, [Next]_vars, pc = "readBack"
      PROVE  /\ pc' = "readFabrics" => TrulyRight
             /\ outcome' = "unverified" => ~TrulyRight
  <2>1. outcome = "running" /\ shift \in Int /\ age' \in Int /\ skew \in Int \cup {Unset}
    BY <1>1, AgingKept, SyncAssumption, WaitBounds DEF IInv, TypeOK, Course
  <2>2. ReadBack \/ (pc' # "readFabrics" /\ outcome' # "unverified")
    BY <1>1, <2>1 DEF Next, Work, vars, Connect, ConnectRetry, ConnectGivesUp, ExchangeFails,
       ReadFeatures, ReadClock, SetUtcTime, SetTimeZone, ReadDstSize, SetDstOffset,
       ExecutedUnanswered, ReadFabrics, UpdateLabel, UpdateLabelUnanswered, PowerOutage,
       Done, Fail, GoTo, Return
  <2>3. Verifies <=> TrulyRight
    <3>1. CASE skew = Unset
      BY <3>1 DEF Verifies, TrulyRight
    <3>2. CASE skew # Unset
      <4>1. Agrees(age' + skew, shift) <=>
              \E epoch \in {0, EpochShift} : Magnitude(age' + skew - epoch - shift) <= Tolerance
        BY <2>1, <3>2, AgreementExact, ClockAssumption
      <4> QED
        BY <3>2, <4>1 DEF Verifies, TrulyRight
    <3> QED
      BY <3>1, <3>2
  <2>4. CASE ReadBack
    BY <2>1, <2>3, <2>4 DEF ReadBack, GoTo, Return
  <2> QED
    BY <2>2, <2>4
<1>2. IInv /\ [Next]_vars =>
        (pc = "readBack" =>
           /\ pc' = "readFabrics" => TrulyRight
           /\ outcome' = "unverified" => ~TrulyRight)
  BY <1>1
<1> QED
  BY <1>2, Invariant, PTL DEF Spec, VerifiedExactly

\* The error that is shown of a clock is never larger than the true one, whatever the
\* device reports.
THEOREM FoldHonest == Spec => []FoldNeverHurts
<1>1. IInv => FoldNeverHurts
  <2> SUFFICES ASSUME IInv, skew # Unset, NEW reference \in {age, shift}
               PROVE  Magnitude(EffectiveDelta(age + skew, reference))
                        <= Magnitude(age + skew - reference)
    BY DEF FoldNeverHurts
  <2>1. age \in Int /\ skew \in Int /\ reference \in Int
    BY SyncAssumption, WaitBounds DEF IInv, TypeOK
  <2> QED
    BY <2>1, FoldShrinks
<1> QED
  BY <1>1, Invariant, PTL

\* Once the clock has verified, every way out is a success.
THEOREM LabelNeverFails == Spec => LabelCosmetic
<1>1. IInv /\ [Next]_vars =>
        (pc \in Labelling => outcome' \in {"running", "success"})
  <2> SUFFICES ASSUME IInv, [Next]_vars, pc \in Labelling
               PROVE  outcome' \in {"running", "success"}
    OBVIOUS
  <2>1. outcome = "running"
    BY DEF IInv, Course, Labelling
  <2> QED
    BY <2>1 DEF Labelling, Next, Work, vars, Connect, ConnectRetry, ConnectGivesUp,
       ExchangeFails, ReadFeatures, ReadClock, SetUtcTime, SetTimeZone, ReadDstSize,
       SetDstOffset, ExecutedUnanswered, ReadBack, ReadFabrics, UpdateLabel,
       UpdateLabelUnanswered, PowerOutage, Done, Fail, GoTo, Return
<1>2. IInv /\ [Next]_vars =>
        [(pc \in {"readFabrics", "updateLabel"}) => outcome' \in {"running", "success"}]_vars
  BY <1>1 DEF Labelling
<1> QED
  BY <1>2, Invariant, PTL DEF Spec, LabelCosmetic

--------------------------------------------------------------------------------
(* The end of a sync.                                                       *)

\* The steps of one exchange, with its connect.
Room == Attempts + 1

\* One exchange less leaves room for all attempts of a connect and the exchange.
LEMMA FewerExchanges ==
  /\ Room \in Nat /\ Room = Attempts + 1
  /\ \A a \in Nat : a * Room \in Nat /\ (0 < a => Room <= a * Room)
  /\ \A a, b \in Nat : a < b => a * Room + Room <= b * Room
<1>1. Room \in Nat /\ Room = Attempts + 1
  BY SyncAssumption DEF Room
<1>2. ASSUME NEW a \in Nat, NEW b \in Nat, a < b PROVE a * Room + Room <= b * Room
  <2>1. (a + 1) * Room <= b * Room
    BY <1>1, <1>2, Longer
  <2>2. (a + 1) * Room = a * Room + Room
    BY <1>1
  <2> QED
    BY <2>1, <2>2
<1>3. ASSUME NEW a \in Nat PROVE a * Room \in Nat /\ (0 < a => Room <= a * Room)
  <2>1. 0 * Room <= a * Room /\ (1 <= a => 1 * Room <= a * Room)
    BY <1>1, Longer
  <2> QED
    BY <1>1, <2>1
<1> QED
  BY <1>1, <1>2, <1>3

\* While an exchange is ahead, all of its steps are.
LEMMA RoomAhead ==
  ASSUME IInv
  PROVE  /\ Ahead \in Nat /\ (pc # "done" => 0 < Ahead)
         /\ StepsLeft = Ahead * Room - (attempt - 1) - (IF conn THEN 1 ELSE 0)
         /\ StepsLeft \in Nat
<1>1. /\ attempt \in 1..Attempts /\ Attempts \in Nat /\ conn \in BOOLEAN
      /\ pc \in Stages /\ (pc = "done" => ~conn /\ attempt = 1)
  BY SyncAssumption DEF IInv, TypeOK, Course
<1>2. /\ pc = "features" => Ahead = 9
      /\ pc = "readClock" => Ahead = 8
      /\ pc = "setUtc" => Ahead = 7
      /\ pc = "setZone" => Ahead = 6
      /\ pc = "dstSize" => Ahead = 5
      /\ pc = "setDst" => Ahead = 4
      /\ pc = "readBack" => Ahead = 3
      /\ pc = "readFabrics" => Ahead = 2
      /\ pc = "updateLabel" => Ahead = 1
      /\ pc = "done" => Ahead = 0
  BY DEF Ahead
<1>3. Ahead \in Nat /\ (pc # "done" => 0 < Ahead)
  BY <1>1, <1>2 DEF Stages, Exchanges
<1>4. StepsLeft = Ahead * Room - (attempt - 1) - (IF conn THEN 1 ELSE 0)
  BY DEF StepsLeft, Room
<1>5. Ahead * Room \in Nat /\ (pc # "done" => Room <= Ahead * Room)
  BY <1>3, FewerExchanges
<1>6. StepsLeft \in Nat
  <2>1. CASE pc = "done"
    BY <1>1, <1>4, <1>5, <2>1
  <2>2. CASE pc # "done"
    BY <1>1, <1>4, <1>5, <2>2, FewerExchanges
  <2> QED
    BY <2>1, <2>2
<1> QED
  BY <1>3, <1>4, <1>6

\* Every step within a connect uses an attempt up or opens the exchange.
LEMMA ConnectAdvances ==
  ASSUME IInv, Connect \/ ConnectRetry
  PROVE  StepsLeft' \in Nat /\ StepsLeft' < StepsLeft
<1> DEFINE all == Ahead * Room
<1>1. /\ attempt \in 1..Attempts /\ Attempts \in Nat /\ conn = FALSE /\ pc' = pc
      /\ pc # "done"
  BY SyncAssumption DEF IInv, TypeOK, Connect, ConnectRetry, Exchanges
<1>2. Ahead' = Ahead
  BY <1>1 DEF Ahead
<1>3. Ahead \in Nat /\ 0 < Ahead /\ StepsLeft = all - (attempt - 1) - 0
  BY <1>1, RoomAhead
<1>4. all \in Nat /\ Attempts + 1 <= all
  BY <1>3, FewerExchanges
<1>5. CASE Connect
  <2>1. StepsLeft' = all - (attempt - 1) - 1
    BY <1>1, <1>2, <1>5 DEF Connect, StepsLeft, Room
  <2> HIDE DEF all
  <2> QED
    BY <1>1, <1>3, <1>4, <2>1
<1>6. CASE ConnectRetry
  <2>1. StepsLeft' = all - ((attempt + 1) - 1) - 0 /\ attempt < Attempts
    BY <1>1, <1>2, <1>6 DEF ConnectRetry, StepsLeft, Room
  <2> HIDE DEF all
  <2> QED
    BY <1>1, <1>3, <1>4, <2>1
<1> QED
  BY <1>5, <1>6

\* Every other step of sync_one leaves an exchange behind.
LEMMA ExchangeAdvances ==
  ASSUME IInv, Ahead' \in Nat, Ahead' < Ahead, conn' = FALSE, attempt' = 1
  PROVE  StepsLeft' \in Nat /\ StepsLeft' < StepsLeft
<1> DEFINE all == Ahead * Room
           next == Ahead' * Room
<1>1. attempt \in 1..Attempts /\ Attempts \in Nat /\ conn \in BOOLEAN
  BY SyncAssumption DEF IInv, TypeOK
<1>2. Ahead \in Nat /\ StepsLeft = all - (attempt - 1) - (IF conn THEN 1 ELSE 0)
  BY RoomAhead
<1>3. StepsLeft' = next - (1 - 1) - 0
  BY DEF StepsLeft, Room
<1>4. next + Room <= all /\ next \in Nat /\ all \in Nat /\ Room = Attempts + 1
  BY <1>2, FewerExchanges
<1> HIDE DEF all, next
<1> QED
  BY <1>1, <1>2, <1>3, <1>4

\* However many attempts a connect has and whatever is lost, every step of sync_one
\* brings its end nearer: SyncEnds needs no more than that it is polled.
THEOREM EveryStepCounts == Spec => StepsRunOut
<1>1. ASSUME IInv, [Next]_vars
      PROVE  /\ StepsLeft' \in Nat
             /\ Work => StepsLeft' < StepsLeft
             /\ ~Work => StepsLeft' = StepsLeft
  <2>1. CASE Connect \/ ConnectRetry
    BY <1>1, <2>1, ConnectAdvances DEF Work
  <2>2. CASE Work /\ ~(Connect \/ ConnectRetry)
    <3>1. conn' = FALSE /\ attempt' = 1
      BY <2>2 DEF Work, ConnectGivesUp, ExchangeFails, ReadFeatures, ReadClock,
         SetUtcTime, SetTimeZone, ReadDstSize, SetDstOffset, ExecutedUnanswered, ReadBack,
         ReadFabrics, UpdateLabel, UpdateLabelUnanswered, Fail, GoTo, Return
    <3>2. Ahead' \in Nat /\ Ahead' < Ahead
      <4>1. CASE pc' = "done"
        <5>1. pc # "done"
          BY <1>1, <2>2 DEF IInv, Course, Exchanges, Work, ConnectGivesUp, ExchangeFails,
             ReadFeatures, ReadClock, SetUtcTime, SetTimeZone, ReadDstSize, SetDstOffset,
             ExecutedUnanswered, ReadBack, ReadFabrics, UpdateLabel, UpdateLabelUnanswered
        <5>2. Ahead' = 0 /\ 0 < Ahead
          BY <1>1, <4>1, <5>1, RoomAhead DEF Ahead
        <5> QED
          BY <5>2
      <4>2. CASE pc' # "done"
        <5>1. \/ pc = "features" /\ pc' = "readClock"
              \/ pc = "readClock" /\ pc' = "setUtc"
              \/ pc = "setUtc" /\ pc' \in {"setZone", "readBack"}
              \/ pc = "setZone" /\ pc' \in {"dstSize", "readBack"}
              \/ pc = "dstSize" /\ pc' = "setDst"
              \/ pc = "setDst" /\ pc' = "readBack"
              \/ pc = "readBack" /\ pc' = "readFabrics"
              \/ pc = "readFabrics" /\ pc' = "updateLabel"
          BY <2>2, <4>2 DEF Work, ConnectGivesUp, ExchangeFails, ReadFeatures, ReadClock,
             SetUtcTime, SetTimeZone, ReadDstSize, SetDstOffset, ExecutedUnanswered,
             ReadBack, ReadFabrics, UpdateLabel, UpdateLabelUnanswered, Fail, GoTo, Return
        <5> QED
          BY <5>1 DEF Ahead
      <4> QED
        BY <4>1, <4>2
    <3> QED
      BY <1>1, <2>2, <3>1, <3>2, ExchangeAdvances
  <2>3. CASE ~Work
    <3>1. UNCHANGED <<pc, conn, attempt>>
      BY <1>1, <2>3 DEF Next, PowerOutage, Done, vars
    <3>2. StepsLeft' = StepsLeft
      BY <3>1 DEF StepsLeft, Ahead
    <3> QED
      BY <1>1, <2>3, <3>2, RoomAhead
  <2> QED
    BY <2>1, <2>2, <2>3
<1> QED
  BY <1>1, Invariant, PTL DEF Spec, StepsRunOut

--------------------------------------------------------------------------------
(* A sync never hangs.  The provers do not know ENABLED, so that a step     *)
(* exists is said by its outcome: At(x) is the module whose variables hold  *)
(* what they hold now before the step, and what the record x says after it. *)

VARIABLE before   \* TRUE in the state before the step, FALSE in the one after it

At(x) == INSTANCE SyncDevice WITH
     skew <- IF before THEN skew ELSE x.skew,
     zone <- IF before THEN zone ELSE x.zone,
     dst <- IF before THEN dst ELSE x.dst,
     theirs <- IF before THEN theirs ELSE x.theirs,
     device <- IF before THEN device ELSE x.device,
     shift <- IF before THEN shift ELSE x.shift,
     age <- IF before THEN age ELSE x.age,
     pc <- IF before THEN pc ELSE x.pc,
     conn <- IF before THEN conn ELSE x.conn,
     attempt <- IF before THEN attempt ELSE x.attempt,
     outcome <- IF before THEN outcome ELSE x.outcome

Now == [skew |-> skew, zone |-> zone, dst |-> dst, theirs |-> theirs, device |-> device,
        shift |-> shift, age |-> age, pc |-> pc, conn |-> conn, attempt |-> attempt,
        outcome |-> outcome]

\* A sync that has not returned has a step to take, whatever the device and the network
\* do: a connect opens the exchange or gives up in time, and an open exchange is answered
\* or lost.  With EveryStepCounts, whoever polls sync_one on sees it return.
THEOREM SyncCanGoOn ==
  Spec => [][before /\ ~before' => (pc # "done" => \E x : At(x)!Work)]_before
<1>1. ASSUME IInv, before, ~before', pc # "done"
      PROVE  \E x : At(x)!Work
  <2>0. /\ pc \in Exchanges /\ conn \in BOOLEAN /\ age + 0 = age
        /\ ConnectTimeout \in Nat /\ 0 \in 0..ConnectTimeout
    BY <1>1, SyncAssumption, WaitBounds DEF IInv, TypeOK, Stages
  <2>1. CASE ~conn
    <3>1. PICK x : x = [Now EXCEPT !.conn = TRUE]
      OBVIOUS
    <3>2. At(x)!Takes(ConnectTimeout)
      BY <1>1, <2>0, <3>1 DEF Now, At!Takes, At!Writing
    <3>3. At(x)!Connect
      BY <1>1, <2>0, <2>1, <3>1, <3>2 DEF Now, At!Connect, At!Exchanges, Exchanges
    <3> QED
      BY <3>3 DEF At!Work
  <2>2. CASE conn
    <3>1. PICK x :
            x = [Now EXCEPT !.pc = "done", !.conn = FALSE, !.attempt = 1,
                   !.outcome = IF pc \in {"readFabrics", "updateLabel"} THEN "success"
                               ELSE "failed"]
      OBVIOUS
    <3>2. At(x)!ExchangeFails
      BY <1>1, <2>2, <3>1 DEF Now, At!ExchangeFails, At!Fail, At!Return
    <3> QED
      BY <3>2 DEF At!Work
  <2> QED
    BY <2>0, <2>1, <2>2
<1>2. IInv => (before /\ ~before' => (pc # "done" => \E x : At(x)!Work))
  BY <1>1
<1> QED
  BY <1>2, Invariant, PTL
================================================================================
