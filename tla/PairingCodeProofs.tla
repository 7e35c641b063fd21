--------------------------- MODULE PairingCodeProofs ---------------------------
(***************************************************************************)
(* What the decoder makes of every code a device can print, and of every   *)
(* code whatever.                                                          *)
(***************************************************************************)
EXTENDS PairingCode, TLAPS

LEMMA Limits == /\ LowLimit \in Nat /\ LowLimit > 0 /\ 4 * LowLimit <= FiveNines
                /\ PasscodeLimit \in Nat /\ FourNines \in Nat /\ FiveNines \in Nat
BY SMT DEF LowLimit, PasscodeLimit, FourNines, FiveNines

\* Splitting a number below a limit and putting it together.
LEMMA SplitJoin ==
  ASSUME NEW high \in Nat, NEW low \in Nat, low < LowLimit
  PROVE  /\ (high * LowLimit + low) \div LowLimit = high
         /\ (high * LowLimit + low) % LowLimit = low
BY SMT DEF LowLimit

LEMMA JoinSplit ==
  ASSUME NEW n \in Nat
  PROVE  /\ n \div LowLimit \in Nat /\ n % LowLimit \in Nat /\ n % LowLimit < LowLimit
         /\ (n \div LowLimit) * LowLimit + (n % LowLimit) = n
BY SMT DEF LowLimit

LEMMA ChunksFit ==
  ASSUME NEW passcode \in Nat, passcode < PasscodeLimit, NEW high \in Nat, high < 4
  PROVE  /\ passcode \div LowLimit <= FourNines
         /\ high * LowLimit + (passcode % LowLimit) <= FiveNines
BY SMT DEF LowLimit, PasscodeLimit, FourNines, FiveNines

\* Every code that a device prints decodes to that device, for each of the 2^31
\* pairs of a passcode and a discriminator, in the short and the long form
\* (parse_manual_code).
THEOREM PrintedDecodes ==
  \A device \in Onboarding, long \in BOOLEAN : Decode(Printed(device, long)) = device
<1> SUFFICES ASSUME NEW device \in Onboarding, NEW long \in BOOLEAN
             PROVE  Decode(Printed(device, long)) = device
  OBVIOUS
<1> DEFINE code == Printed(device, long)
<1>1. /\ device = [passcode |-> device.passcode, short |-> device.short]
      /\ device.passcode \in Nat /\ device.short \in 0..15
  BY Limits DEF Onboarding
<1>2. /\ code.digit1 = (IF long THEN 4 ELSE 0) + (device.short \div 4)
      /\ code.digits2to6 = (device.short % 4) * LowLimit + (device.passcode % LowLimit)
      /\ code.digits7to10 = device.passcode \div LowLimit
  BY DEF Printed
<1>3. /\ device.passcode \div LowLimit \in Nat
      /\ device.passcode % LowLimit \in Nat
      /\ device.passcode % LowLimit < LowLimit
      /\ (device.passcode \div LowLimit) * LowLimit + (device.passcode % LowLimit)
           = device.passcode
  BY <1>1, JoinSplit
<1>4. device.short % 4 \in Nat
  BY <1>1, SMT
<1>5. /\ code.digits2to6 \div LowLimit = device.short % 4
      /\ code.digits2to6 % LowLimit = device.passcode % LowLimit
  BY <1>2, <1>3, <1>4, SplitJoin
<1> HIDE DEF code
<1>6. Short(code) = device.short
  <2>1. code.digit1 % 4 = device.short \div 4
    BY <1>1, <1>2, SMT
  <2>2. (device.short % 4) % 4 = device.short % 4
        /\ (device.short \div 4) * 4 + (device.short % 4) = device.short
    BY <1>1, SMT
  <2> QED
    BY <1>5, <2>1, <2>2 DEF Short
<1>7. Passcode(code) = device.passcode
  BY <1>2, <1>3, <1>5 DEF Passcode
<1> QED
  BY <1>1, <1>6, <1>7 DEF Decode, code

\* The numbers of a printed code have as many digits as the code has room for.
LEMMA PrintedIsCode ==
  \A device \in Onboarding, long \in BOOLEAN : Printed(device, long) \in Code
<1> SUFFICES ASSUME NEW device \in Onboarding, NEW long \in BOOLEAN
             PROVE  Printed(device, long) \in Code
  OBVIOUS
<1>1. device.passcode \in 0..(PasscodeLimit - 1) /\ device.short \in 0..15
  BY DEF Onboarding
<1> DEFINE high == device.short % 4
           low  == device.passcode % LowLimit
<1>4. high * LowLimit + low \in 0..FiveNines
  <2>1. high \in Nat /\ high < 4
    BY <1>1, SMT
  <2>2. device.passcode \in Nat /\ device.passcode < PasscodeLimit
    BY <1>1, Limits
  <2>3. low \in Nat
    BY <2>2, JoinSplit
  <2>4. high * LowLimit + low <= FiveNines
    BY <2>1, <2>2, ChunksFit
  <2>5. high * LowLimit \in Nat
    BY <2>1, Limits
  <2> HIDE DEF high, low
  <2> QED
    BY <2>3, <2>4, <2>5, Limits
<1>5. device.passcode \div LowLimit \in 0..FourNines
  <2>1. device.passcode \in Nat /\ device.passcode < PasscodeLimit
    BY <1>1, Limits
  <2>2. 0 \in Nat /\ 0 < 4
    BY SMT
  <2>3. device.passcode \div LowLimit \in Nat
    BY <2>1, JoinSplit
  <2>4. device.passcode \div LowLimit <= FourNines
    BY <2>1, <2>2, ChunksFit
  <2> QED
    BY <2>3, <2>4, Limits
<1>6. (IF long THEN 4 ELSE 0) + (device.short \div 4) \in 0..9
  BY <1>1, SMT
<1> QED
  BY <1>4, <1>5, <1>6 DEF Printed, Code, Forms

\* Every code that a device with a permitted passcode prints is accepted.
THEOREM PrintedAccepted ==
  \A device \in Onboarding, long \in BOOLEAN :
    device.passcode \notin InvalidPasscodes => Accepts(Printed(device, long))
<1> SUFFICES ASSUME NEW device \in Onboarding, NEW long \in BOOLEAN,
                    device.passcode \notin InvalidPasscodes
             PROVE  Accepts(Printed(device, long))
  OBVIOUS
<1>1. device.passcode \in 0..(PasscodeLimit - 1) /\ device.short \in 0..15
  BY DEF Onboarding
<1>2. Passcode(Printed(device, long)) = device.passcode
  BY PrintedDecodes DEF Decode
<1> QED
  BY <1>1, <1>2, Limits DEF Accepts, Printed

\* Whatever was typed, what is accepted is a passcode of 27 bits that is not one of
\* the trivial ones, and a discriminator of 4 bits: the narrowing to u8 loses
\* nothing (parse_manual_code).
THEOREM AcceptedFits ==
  \A code \in Code :
    Accepts(code) => Decode(code) \in Onboarding /\ Decode(code).passcode \notin InvalidPasscodes
<1> SUFFICES ASSUME NEW code \in Code, Accepts(code)
             PROVE  Decode(code) \in Onboarding /\ Decode(code).passcode \notin InvalidPasscodes
  OBVIOUS
<1>1. code.digit1 \in 0..9 /\ code.digits2to6 \in Nat /\ code.digits7to10 \in Nat
  BY Limits DEF Code
<1>2. Short(code) \in 0..15
  <2>1. code.digits2to6 \div LowLimit \in Nat
    BY <1>1, JoinSplit
  <2> QED
    BY <1>1, <2>1, SMT DEF Short
<1>3. Passcode(code) \in 0..(PasscodeLimit - 1)
  <2>1. code.digits2to6 % LowLimit \in Nat
    BY <1>1, JoinSplit
  <2>2. code.digits7to10 * LowLimit \in Nat
    BY <1>1, Limits
  <2> QED
    BY <2>1, <2>2, Limits DEF Passcode, Accepts
<1> QED
  BY <1>2, <1>3 DEF Decode, Onboarding, Accepts
================================================================================
