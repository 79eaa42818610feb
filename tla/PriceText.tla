----------------------------- MODULE PriceText -----------------------------
(***************************************************************************)
(* The text of a price through the program: WritePrice takes the double of *)
(* a text (std::stod), ReadPrice prints it with PRICE_PRECISION significant *)
(* digits, as an ostream does without fixed or scientific.  A file that was *)
(* inflated can be compressed again.                                       *)
(*                                                                         *)
(* A decimal number is m * 10^k, with m not a multiple of 10.  The double   *)
(* stands for its decimal: texts of up to 15 digits have doubles of their   *)
(* own, and rounding those to 12 digits is rounding the decimals, but where *)
(* the text is exactly half-way: the double may be on either side of it.    *)
(***************************************************************************)
EXTENDS Integers

CONSTANTS
  PRICE_PRECISION,  \* significant digits printed (12)
  MaxDigits,        \* bound: significant digits of a text
  MaxDecimals       \* bound: digits after the point

ASSUME BoundsAssumption == MaxDigits \in Nat /\ MaxDecimals \in Nat
ASSUME PrecisionAssumption == PRICE_PRECISION \in 1..MaxDigits

VARIABLES
  text,         \* the price as the CSV file has it
  original,     \* the text the price began as
  inflated      \* the text comes from an inflated file

vars == <<text, original, inflated>>

\* The powers of 10.
Ten[k \in Nat] == IF k = 0 THEN 1 ELSE 10 * Ten[k - 1]

\* A text is its digits as a number, how many of them follow the point, and the
\* exponent if it has one.  (Leading zeros and signs are left out.)
PlainText(n, decimals) == [digits |-> n, decimals |-> decimals, exponent |-> 0]

Texts == {PlainText(n, d) : n \in 0 .. Ten[MaxDigits] - 1, d \in 0..MaxDecimals}

\* No number here has more digits than a text, and none that is rounded more zeros at
\* its end than the next power of 10.
NumDigits(n) ==
  IF n = 0 THEN 1
  ELSE CHOOSE d \in 1..MaxDigits : Ten[d - 1] <= n /\ n < Ten[d]

TrailingZeros(n) ==
  IF n = 0 THEN 0
  ELSE CHOOSE z \in 0..MaxDigits : n % Ten[z] = 0 /\ n % Ten[z + 1] # 0

Decimal(n, k) ==
  IF n = 0 THEN [m |-> 0, k |-> 0]
  ELSE [m |-> n \div Ten[TrailingZeros(n)], k |-> k + TrailingZeros(n)]

\* Faulty variant: the exponent is not understood.
stodPlain(t) == Decimal(t.digits, -t.decimals)

\* std::stod
stod(t) == Decimal(t.digits, t.exponent - t.decimals)

\* Faulty variant: digits that do not fit are cut off.
RoundedDown(v, p) ==
  LET drop == NumDigits(v.m) - p
  IN IF drop <= 0 THEN {v} ELSE {Decimal(v.m \div Ten[drop], v.k + drop)}

\* The nearest numbers of p significant digits; two if v is half-way.
Rounded(v, p) ==
  LET drop == NumDigits(v.m) - p
      unit == Ten[drop]
      q    == v.m \div unit
      rest == v.m % unit
  IN IF drop <= 0 THEN {v}
     ELSE {Decimal(n, v.k + drop) : n \in
             {i \in {q, q + 1} : IF i = q THEN 2 * rest <= unit ELSE 2 * rest >= unit}}

\* What operator<< makes of a number that has no more digits than it prints: the
\* scientific notation if the exponent is below -4 or not below the precision,
\* and no zeros at the end after the point.
Printed(v) ==
  LET e == v.k + NumDigits(v.m) - 1 IN
  IF e < -4 \/ e >= PRICE_PRECISION
  THEN [digits |-> v.m, decimals |-> NumDigits(v.m) - 1, exponent |-> e]
  ELSE IF v.k >= 0
  THEN PlainText(v.m * Ten[v.k], 0)
  ELSE PlainText(v.m, -v.k)

\* Faulty variant: precision counts the digits after the point, as it does with
\* std::fixed.
ReadPriceFixed(v) ==
  {Printed(w) : w \in Rounded(v, NumDigits(v.m) + v.k + PRICE_PRECISION)}

ReadPrice(v) == {Printed(w) : w \in Rounded(v, PRICE_PRECISION)}

Init ==
  /\ text \in Texts
  /\ original = text
  /\ inflated = FALSE

CompressAndInflate ==
  /\ text' \in ReadPrice(stod(text))
  /\ inflated' = TRUE
  /\ original' = original

Next == CompressAndInflate

Spec == Init /\ [][Next]_vars

-----------------------------------------------------------------------------
(* Properties.                                                             *)

\* Significant digits and the exponent of the first of them.
Significant(v) == NumDigits(v.m)
Exponent(v) == v.k + NumDigits(v.m) - 1

\* A text in the form in which prices are printed: not more digits than that, none
\* of them a zero at the end of the decimals, and neither very small nor large.
Canonical(t) ==
  /\ t.exponent = 0
  /\ t.decimals > 0 => t.digits % 10 # 0
  /\ Significant(stod(t)) <= PRICE_PRECISION
  /\ Exponent(stod(t)) \in -4 .. PRICE_PRECISION - 1

\* "All field values are the same": a price in that form comes back as it was, and
\* it does so however often the inflated file is compressed again.
CanonicalKept == Canonical(original) => text = original

\* Whatever text a price began as, the text in an inflated file is never changed by
\* compressing that file and inflating it again.
StableOnceInflated == [][inflated => text' = text]_vars

\* The difference of two numbers in units of the last decimal.
Scaled(v) == v.m * Ten[v.k + MaxDecimals]
Distance(v, w) ==
  IF Scaled(v) >= Scaled(w) THEN Scaled(v) - Scaled(w) ELSE Scaled(w) - Scaled(v)

\* However often it is compressed, the value of a price with up to PRICE_PRECISION
\* significant digits is kept, and that of a longer one is never farther from what
\* it was than half a unit of its last digit printed.
ValueKept ==
  LET v    == stod(original)
      drop == Significant(v) - PRICE_PRECISION
  IN IF drop <= 0
     THEN stod(text) = v
     ELSE 2 * Distance(stod(text), v) <= Ten[drop + v.k + MaxDecimals]
=============================================================================
