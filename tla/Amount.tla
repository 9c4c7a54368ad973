------------------------------- MODULE Amount -------------------------------
(***************************************************************************)
(* How a text becomes an amount and an amount becomes text again:          *)
(* Amount::parse and Display (src/domain/amount.rs).  CsvReader.tla uses   *)
(* these operators and states what should be true of them.                 *)
(*                                                                         *)
(* A text is a sequence of characters with no blanks around it (both the   *)
(* reader and parse trim it).  An outcome is a set: {n} for Ok(n), {} for  *)
(* an error.  The code has four decimals and 64 bits; both are parameters. *)
(***************************************************************************)
EXTENDS Integers, Sequences, FiniteSets

CONSTANTS
  Decimals,         \* decimals kept: 4 in the code
  Width,            \* bits of the integers that are parsed: 64 in the code
  OverflowChecks    \* does the build check arithmetic (debug) or wrap (release)?

ASSUME DecimalsAssumption == Decimals \in Nat \ {0}
ASSUME WidthAssumption == Width \in Nat \ {0}
ASSUME OverflowChecksAssumption == OverflowChecks \in BOOLEAN

(* 10 ^ n, one factor at a time: the form that proofs can unfold.          *)
TenTo(n) ==
  LET power[k \in 0 .. n] == IF k = 0 THEN 1 ELSE 10 * power[k - 1]
  IN  power[n]

SCALE == TenTo(Decimals)

Machine == - (2 ^ (Width - 1)) .. 2 ^ (Width - 1) - 1

DigitValue == [d \in {"0", "1", "2", "3", "4", "5", "6", "7", "8", "9"} |->
  CASE d = "0" -> 0 [] d = "1" -> 1 [] d = "2" -> 2 [] d = "3" -> 3 [] d = "4" -> 4
    [] d = "5" -> 5 [] d = "6" -> 6 [] d = "7" -> 7 [] d = "8" -> 8 [] d = "9" -> 9]

Digit == DOMAIN DigitValue

AllDigits(ds) == \A i \in 1 .. Len(ds) : ds[i] \in Digit

Number(ds) ==
  LET value[i \in 0 .. Len(ds)] ==
        IF i = 0 THEN 0 ELSE 10 * value[i - 1] + DigitValue[ds[i]]
  IN  value[Len(ds)]

(* The digits of n, at least `least` of them.                              *)
DigitsOf(n, least) ==
  LET size == CHOOSE k \in least .. n + least :
                n < TenTo(k) /\ (k = least \/ TenTo(k - 1) <= n)
  IN  [i \in 1 .. size |->
         CHOOSE d \in Digit : DigitValue[d] = (n \div TenTo(size - i)) % 10]

-----------------------------------------------------------------------------
Signed(s) == s # <<>> /\ s[1] \in {"-", "+"}

Unsigned(s) == IF Signed(s) THEN Tail(s) ELSE s

Sign(s) == IF Signed(s) /\ s[1] = "-" THEN -1 ELSE 1

(* str::parse of a machine integer: a sign, digits, and a value that fits. *)
ParseInteger(s) ==
  {Sign(s) * Number(ds) :
     ds \in {x \in {Unsigned(s)} :
               x # <<>> /\ AllDigits(x) /\ Sign(s) * Number(x) \in Machine}}

(* Faulty variant: a product that is wider than the integers it is made of.*)
MachineProductWide(m, n) == {m * n}

(* A product of machine integers: a panic, which ends the load as an error *)
(* does, or the value modulo 2^Width.                                      *)
MachineProduct(m, n) ==
  LET half == 2 ^ (Width - 1)
      wrapped == ((m * n + half) % (2 * half)) - half
  IN  IF OverflowChecks THEN {m * n} \cap Machine ELSE {wrapped}

(* The index of the first point, 0 if there is none.                       *)
Point(s) ==
  LET points == {i \in 1 .. Len(s) : s[i] = "."}
  IN  IF points = {} THEN 0 ELSE CHOOSE i \in points : \A j \in points : i <= j

IntPart(s) == SubSeq(s, 1, Point(s) - 1)

FracPart(s) == SubSeq(s, Point(s) + 1, Len(s))

(* Faulty variant: a short fraction is not filled up.                      *)
KeptUnpadded(frac) == IF Len(frac) < Decimals THEN frac ELSE SubSeq(frac, 1, Decimals)

(* The first decimals, whatever they are, filled up with zeros; the code   *)
(* does not look at what follows them.                                     *)
Kept(frac) == [i \in 1 .. Decimals |-> IF i <= Len(frac) THEN frac[i] ELSE "0"]

Parse(s) ==
  IF Point(s) = 0
  THEN UNION {MachineProduct(n, SCALE) : n \in ParseInteger(s)}
  ELSE ParseInteger(IntPart(s) \o Kept(FracPart(s)))

(* Faulty variant: the fraction without its leading zeros.                 *)
DisplayUnpadded(n) ==
  LET abs == IF n < 0 THEN - n ELSE n IN
  (IF n < 0 THEN <<"-">> ELSE <<>>)
    \o DigitsOf(abs \div SCALE, 1) \o <<".">> \o DigitsOf(abs % SCALE, 1)

Display(n) ==
  LET abs == IF n < 0 THEN - n ELSE n IN
  (IF n < 0 THEN <<"-">> ELSE <<>>)
    \o DigitsOf(abs \div SCALE, 1) \o <<".">> \o DigitsOf(abs % SCALE, Decimals)

-----------------------------------------------------------------------------
(***************************************************************************)
(* The reference: a numeral is a sign, digits, and perhaps a point and     *)
(* digits; its value is worked out from all of its digits.                 *)
(***************************************************************************)

IsNumeral(s) ==
  LET u == Unsigned(s) IN
  IF Point(u) = 0 THEN u # <<>> /\ AllDigits(u)
  ELSE AllDigits(IntPart(u)) /\ AllDigits(FracPart(u))

(* The value of a numeral times SCALE, without what is left of the last    *)
(* kept decimal: truncated towards zero.                                   *)
Scaled(s) ==
  LET u == Unsigned(s)
      int == IF Point(u) = 0 THEN u ELSE IntPart(u)
      frac == IF Point(u) = 0 THEN <<>> ELSE FracPart(u)
  IN  Sign(s) * ((Number(int \o frac) * SCALE) \div TenTo(Len(frac)))

=============================================================================
