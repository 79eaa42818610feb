------------------------------- MODULE Words -------------------------------
(***************************************************************************)
(* The machine word of the bit buffer (buffer_ft, an unsigned integer of   *)
(* BUFFER_CAPACITY bits) and the operators the code applies to it.  A word *)
(* is the set of the positions of its 1 bits, position 0 being the least   *)
(* significant one: zero is {}, bitwise or is \cup, bitwise and is \cap.   *)
(* The width is therefore exact, and bits shifted past an end are lost as  *)
(* they are in C++.                                                        *)
(***************************************************************************)
EXTENDS Integers

CONSTANT BUFFER_CAPACITY   \* bits of a word

ASSUME CapacityAssumption == BUFFER_CAPACITY \in Nat \ {0}

BitPositions == 0 .. BUFFER_CAPACITY - 1

Word == SUBSET BitPositions

\* w << n
ShiftLeft(w, n) == {b \in BitPositions : b - n \in w}

\* w >> n
ShiftRight(w, n) == {b \in BitPositions : b + n \in w}

\* uint32_t( pow( 2, n ) ) - 1: the n low bits, all of them when n reaches the
\* width (the conversion of 2^n then leaves 0, and 0 - 1 is the full mask).
LowMask(n) == {b \in BitPositions : b < n}

\* Shifting by the width or more is undefined in C++: the shift instruction
\* takes the count modulo the width, and a folded constant gives 0.
ShiftRightOutcomes(w, n) ==
  IF n < BUFFER_CAPACITY
  THEN {ShiftRight(w, n)}
  ELSE {ShiftRight(w, n % BUFFER_CAPACITY), {}}
=============================================================================
