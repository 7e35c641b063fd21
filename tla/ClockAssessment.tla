---------------------------- MODULE ClockAssessment ----------------------------
(***************************************************************************)
(* MatterMicros and ClockAssessment (src/src/time.rs): how far a reported  *)
(* clock is from a reference, and what sync_one takes for agreement.  A    *)
(* report and a reference are u64 and their difference is an i64,          *)
(* Lowest..Top, so differences beyond it saturate.                         *)
(***************************************************************************)
EXTENDS Integers

CONSTANTS Top,        \* i64::MAX
          EpochShift, \* MATTER_EPOCH_UNIX_MICROS: how far a report in the Unix epoch is ahead
          Window,     \* EPOCH_SHIFT_DETECTION_WINDOW_MICROS
          Tolerance   \* VERIFY_TOLERANCE_MICROS

\* The order of magnitudes in the code.
ASSUME ClockAssumption ==
  /\ Top \in Nat /\ EpochShift \in Nat /\ Window \in Nat /\ Tolerance \in Nat
  /\ Tolerance <= Window
  /\ 2 * Window < EpochShift
  /\ EpochShift + Window < Top

Lowest == -(Top + 1)

Magnitude(n) == IF n < 0 THEN -n ELSE n

\* clamp to i64, as saturating_sub and delta_micros do.
Saturate(n) == IF n < Lowest THEN Lowest ELSE IF n > Top THEN Top ELSE n

\* The difference as a wrapping subtraction gives it.
DeltaMicros_Wrapping(a, b) ==
  LET d == (a - b) % (2 * Top + 2) IN IF d > Top THEN d - (2 * Top + 2) ELSE d

DeltaMicros(a, b) == Saturate(a - b)

\* The epoch distance taken in both directions.
EpochShifted_Symmetric(d) == Magnitude(Magnitude(d) - EpochShift) <= Window

\* epoch_shifted: the delta is the distance of the two epochs, give or take.
EpochShifted(d) == Magnitude(Saturate(d - EpochShift)) <= Window

\* compare and effective_delta_micros: the epoch shift is folded out.
EffectiveDelta(reported, reference) ==
  LET d == DeltaMicros(reported, reference)
  IN  IF EpochShifted(d) THEN Saturate(d - EpochShift) ELSE d

\* What sync_one takes for a verified write.
Agrees(reported, reference) == Magnitude(EffectiveDelta(reported, reference)) <= Tolerance
================================================================================
