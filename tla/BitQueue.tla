------------------------------ MODULE BitQueue ------------------------------
(***************************************************************************)
(* What the bit buffer promises to its callers: a first-in first-out queue *)
(* of bits.  Values are pushed at one end in a field of a given width, most *)
(* significant bit first, and fetched at the other end in fields of any    *)
(* width.  Finishing a stretch of writes pads the queue with zero bits.    *)
(* The queue knows nothing of words, of the spill from one word to the     *)
(* next or of read and write modes.                                        *)
(***************************************************************************)
EXTENDS Integers, Sequences

CONSTANTS
  MaxPad,   \* most zero bits one padding step may add
  Field     \* widths a value may be pushed or fetched with

VARIABLES
  q,        \* the queued bits, first in first
  reg       \* the value fetched last, as its set of 1 positions

\* The bits of value v in a field of n bits, most significant first.
FieldBits(v, n) == [i \in 1..n |-> (n - i) \in v]

\* The value whose field is the bit sequence s.
ValueOf(s) == {Len(s) - i : i \in {j \in 1..Len(s) : s[j]}}

Init ==
  /\ q = << >>
  /\ reg = {}

Put(v, n) ==
  /\ q' = q \o FieldBits(v, n)
  /\ reg' = reg

Pad(n) ==
  /\ q' = q \o FieldBits({}, n)
  /\ reg' = reg

Take(n) ==
  /\ n <= Len(q)
  /\ reg' = ValueOf(SubSeq(q, 1, n))
  /\ q' = SubSeq(q, n + 1, Len(q))

Next ==
  \/ \E n \in Field : \E v \in SUBSET (0 .. n - 1) : Put(v, n)
  \/ \E n \in 1..MaxPad : Pad(n)
  \/ \E n \in Field : Take(n)

Spec == Init /\ [][Next]_<<q, reg>>
=============================================================================
