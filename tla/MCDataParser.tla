---------------------------- MODULE MCDataParser ----------------------------
EXTENDS DataParser, FiniteSets

CONSTANTS MaxColumns, MaxDamage

\* The columns of a well-formed line, and columns after them.
Proper(n) ==
  IF n > NumFields THEN "word"
  ELSE <<"word", "word", "side", "number", "wide", "wide", "decimal", "number">>[n]

\* Lines with too few columns, with too many, and with up to MaxDamage columns that
\* are not what they should be, empty ones included.
DamagedLines ==
  UNION {
    UNION {{[n \in 1..columns |-> IF n \in DOMAIN damage THEN damage[n] ELSE Proper(n)] :
              damage \in [where -> Kinds]} :
             where \in {w \in SUBSET (1..columns) : Cardinality(w) <= MaxDamage}} :
      columns \in 0..MaxColumns}
=============================================================================
