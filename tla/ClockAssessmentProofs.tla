------------------------- MODULE ClockAssessmentProofs -------------------------
(***************************************************************************)
(* For every width of the integers and every order of magnitudes allowed   *)
(* by ClockAssumption: the verification of a write is exact.               *)
(***************************************************************************)
EXTENDS ClockAssessment, TLAPS

\* A delta, saturated or not, and its fold agree with the true difference as far
\* as the tolerance can see.
LEMMA FoldExact ==
  ASSUME NEW a \in Int, NEW b \in Int,
         NEW d, d = DeltaMicros(a, b),
         NEW e, e = IF EpochShifted(d) THEN Saturate(d - EpochShift) ELSE d
  PROVE  /\ Magnitude(e) <= Tolerance <=>
              Magnitude(a - b) <= Tolerance \/ Magnitude(a - b - EpochShift) <= Tolerance
         /\ Magnitude(e) <= Magnitude(a - b)
<1>1. /\ a \in Int /\ b \in Int
      /\ {Top, EpochShift, Window, Tolerance} \subseteq Int
      /\ 0 <= Tolerance /\ Tolerance <= Window
      /\ 2 * Window < EpochShift /\ EpochShift + Window < Top
      /\ Lowest = -Top - 1
  BY ClockAssumption DEF Lowest
<1>2. CASE a - b > Top
  <2>1. d = Top
    BY <1>1, <1>2 DEF DeltaMicros, Saturate
  <2>2. Saturate(d - EpochShift) = Top - EpochShift
    BY <1>1, <2>1 DEF Saturate
  <2>3. e = Top
    BY <1>1, <2>1, <2>2 DEF EpochShifted, Magnitude
  <2> QED
    BY <1>1, <1>2, <2>3 DEF Magnitude
<1>3. CASE a - b < Lowest
  <2>1. d = Lowest
    BY <1>1, <1>3 DEF DeltaMicros, Saturate
  <2>2. Saturate(d - EpochShift) = Lowest
    BY <1>1, <2>1 DEF Saturate
  <2>3. e = Lowest
    BY <1>1, <2>1, <2>2 DEF EpochShifted, Magnitude
  <2> QED
    BY <1>1, <1>3, <2>3 DEF Magnitude
<1>4. CASE Lowest <= a - b /\ a - b <= Top
  <2>1. d = a - b
    BY <1>1, <1>4 DEF DeltaMicros, Saturate
  <2>2. CASE d - EpochShift < Lowest
    <3>1. Saturate(d - EpochShift) = Lowest
      BY <1>1, <2>1, <2>2 DEF Saturate
    <3>2. e = d
      BY <1>1, <3>1 DEF EpochShifted, Magnitude
    <3> QED
      BY <1>1, <2>1, <2>2, <3>2 DEF Magnitude
  <2>3. CASE d - EpochShift >= Lowest
    <3>1. Saturate(d - EpochShift) = d - EpochShift
      BY <1>1, <1>4, <2>1, <2>3 DEF Saturate
    <3>2. e = IF Magnitude(d - EpochShift) <= Window THEN d - EpochShift ELSE d
      BY <3>1 DEF EpochShifted
    <3>3. CASE Magnitude(d - EpochShift) <= Window
      <4>1. /\ e = a - b - EpochShift
            /\ a - b - EpochShift <= Window /\ -(a - b - EpochShift) <= Window
        BY <1>1, <2>1, <3>2, <3>3 DEF Magnitude
      <4>2. a - b > Tolerance /\ a - b > Window
        BY <1>1, <4>1
      <4> QED
        BY <1>1, <4>1, <4>2 DEF Magnitude
    <3>4. CASE ~(Magnitude(d - EpochShift) <= Window)
      <4>1. /\ e = a - b
            /\ a - b - EpochShift > Window \/ -(a - b - EpochShift) > Window
        BY <1>1, <2>1, <3>2, <3>4 DEF Magnitude
      <4>2. ~(Magnitude(a - b - EpochShift) <= Tolerance)
        BY <1>1, <4>1 DEF Magnitude
      <4> QED
        BY <1>1, <4>1, <4>2 DEF Magnitude
    <3> QED
      BY <3>3, <3>4
  <2>4. d - EpochShift < Lowest \/ d - EpochShift >= Lowest
    BY <1>1, <2>1
  <2> QED
    BY <2>2, <2>3, <2>4
<1> QED
  BY <1>1, <1>2, <1>3, <1>4

\* A report agrees with the value written exactly when it is within the tolerance of
\* it, in its own or in the other epoch: no extreme report is wrapped or folded into
\* an agreement (delta_micros, compare, effective_delta_micros, sync_one).
THEOREM AgreementExact ==
  \A reported, written \in Int :
    Agrees(reported, written) <=>
      \E epoch \in {0, EpochShift} : Magnitude(reported - epoch - written) <= Tolerance
<1> SUFFICES ASSUME NEW reported \in Int, NEW written \in Int
             PROVE  Agrees(reported, written) <=>
                      \/ Magnitude(reported - 0 - written) <= Tolerance
                      \/ Magnitude(reported - EpochShift - written) <= Tolerance
  OBVIOUS
<1>1. /\ EpochShift \in Int
      /\ reported - 0 - written = reported - written
      /\ reported - EpochShift - written = reported - written - EpochShift
  BY ClockAssumption
<1> QED
  BY <1>1, FoldExact DEF Agrees, EffectiveDelta

\* Folding the epoch shift out never shows a larger error than there is
\* (effective_delta_micros).
THEOREM FoldShrinks ==
  \A reported, reference \in Int :
    Magnitude(EffectiveDelta(reported, reference)) <= Magnitude(reported - reference)
BY FoldExact DEF EffectiveDelta
================================================================================
