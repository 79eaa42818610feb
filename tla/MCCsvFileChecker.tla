-------------------------- MODULE MCCsvFileChecker --------------------------
EXTENDS CsvFileChecker, FiniteSets

CONSTANTS MaxColumns, MaxDamage

Proper(n) == IF n \in {5, 6, 7, 8} THEN "number" ELSE "word"

\* Lines with too few or too many columns, and with damaged columns.
DamagedLines ==
  UNION {
    UNION {{[n \in 1..columns |-> IF n \in DOMAIN damage THEN damage[n] ELSE Proper(n)] :
              damage \in [where -> Columns]} :
             where \in {w \in SUBSET (1..columns) : Cardinality(w) <= MaxDamage}} :
      columns \in 0..MaxColumns}
=============================================================================
