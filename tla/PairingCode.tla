------------------------------ MODULE PairingCode ------------------------------
(***************************************************************************)
(* Manual pairing codes: parse_manual_code (src/src/pairing.rs).  A code   *)
(* is what the operator typed, by the parts the decoder cuts it into: its  *)
(* form once blanks and hyphens are gone, the number of its digits, the    *)
(* first digit, the next five and the next four as numbers, and whether    *)
(* the last one is the Verhoeff digit of the others (verhoeff is an        *)
(* external crate).                                                        *)
(***************************************************************************)
EXTENDS Integers

\* The forms: a QR payload, text that holds something else than digits, digits.
Forms == {"qr", "text", "digits"}

FourNines == 9999
FiveNines == 99999

Code == [form : Forms, length : Nat, check : BOOLEAN,
         digit1 : 0..9, digits2to6 : 0..FiveNines, digits7to10 : 0..FourNines]

\* 2^27, and what the 14 low bits count up to.
PasscodeLimit == 134217728
LowLimit == 16384

\* What a device prints and answers to: the 27-bit passcode, and the upper 4 bits
\* of its discriminator.
Onboarding == [passcode : 0..(PasscodeLimit - 1), short : 0..15]

\* INVALID_PASSCODES
InvalidPasscodes ==
  {0, 11111111, 22222222, 33333333, 44444444, 55555555, 66666666, 77777777, 88888888,
   99999999, 12345678, 87654321}

\* Two bits of the discriminator are in the first digit, two above the 14 low bits
\* of the passcode; the others are dropped.
Short(code) == (code.digit1 % 4) * 4 + ((code.digits2to6 \div LowLimit) % 4)

Passcode(code) == code.digits7to10 * LowLimit + (code.digits2to6 % LowLimit)

\* A decoder that takes 13 bits of the second chunk.
Decode_13Bits(code) ==
  [passcode |-> code.digits7to10 * LowLimit + (code.digits2to6 % (LowLimit \div 2)), short |-> Short(code)]

Decode(code) == [passcode |-> Passcode(code), short |-> Short(code)]

\* parse_manual_code returns a value.
Accepts(code) ==
  /\ code.form = "digits"
  /\ code.length \in {11, 21}
  /\ code.check
  /\ Passcode(code) < PasscodeLimit
  /\ Passcode(code) \notin InvalidPasscodes

\* The code of a device, by the layout of the Matter specification that the source
\* quotes; the long form also carries the vendor and the product.
Printed(device, long) ==
  [form |-> "digits", length |-> IF long THEN 21 ELSE 11, check |-> TRUE,
   digit1 |-> (IF long THEN 4 ELSE 0) + (device.short \div 4),
   digits2to6 |-> (device.short % 4) * LowLimit + (device.passcode % LowLimit),
   digits7to10 |-> device.passcode \div LowLimit]
================================================================================
